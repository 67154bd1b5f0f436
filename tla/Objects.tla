------------------------------- MODULE Objects -------------------------------
(***************************************************************************)
(* The objects of src/oo.rs: how they are made, linked to their classes,   *)
(* superclasses and mixins, copied and destroyed.  A destruction runs      *)
(* scripts - destructors - while tables are half changed and lists of what *)
(* is still to go have been taken, and those scripts may make, link and    *)
(* destroy objects.  So there is a stack of work under way: scripts, and   *)
(* deletions that wait for scripts.                                        *)
(*                                                                         *)
(* Every object has a constructor and a destructor; one that does nothing  *)
(* stands for none.  What methods a class has is CallChain's.              *)
(***************************************************************************)
EXTENDS Naturals, Sequences, FiniteSets, SequencesExt, FiniteSetsExt

CONSTANTS
  MaxObjects, (* bound: objects ever made, the two roots among them           *)
  MaxScripts, (* bound: scripts inside one another when one starts another    *)
  MaxList,    (* bound: classes given to `superclass` and `mixin`             *)
  Mixable,    (* bound: the objects scripts name to `mixin`                   *)
  Callbacks,  (* bound: the commands constructors and destructors give        *)
  Homes,      (* bound: the objects whose namespaces scripts put commands in  *)
  Departures, (* uses of a dying class a script may make: see Uses            *)
  Gone,       (* in place of an object that was deleted                       *)
  Nowhere     (* the command is in no object's namespace                      *)

ASSUME ObjectsAssumption ==
  /\ MaxObjects \in Nat /\ MaxObjects >= 2 /\ MaxScripts \in Nat /\ MaxList \in 0 .. 2
  /\ Departures \subseteq {"join", "twice", "dying"}

VARIABLES
  objects,    (* Oo.objects: a record each, or Gone                           *)
  deleting,   (* Oo.deleting                                                  *)
  work        (* what is under way, outermost first                           *)

vars == <<objects, deleting, work>>

-----------------------------------------------------------------------------
Id  == 0 .. MaxObjects - 1
Ids == 0 .. Len(objects) - 1
obj(id)   == objects[id + 1]
alive(id) == id \in Ids /\ obj(id) # Gone
Live      == {id \in Ids : alive(id)}

object_cls == 0
class_cls  == 1
(* Scripts leave the roots as they are: commands on these two are left out.   *)
Roots      == {object_cls, class_cls}

(* One record for Object and ClassData: `classMixins` and `users` are the     *)
(* class half's mixins and mixin_users.                                       *)
Object ==
  [class : Id, is_class : BOOLEAN, mixins : Seq(Id), superclasses : Seq(Id),
   subclasses : Seq(Id), instances : Seq(Id), classMixins : Seq(Id),
   users : Seq(Id), home : Id \cup {Nowhere}, destructing : BOOLEAN]

ASSUME Absences == Gone \notin Object /\ Nowhere \notin Nat

Born(class, is_class, supers, home) ==
  [class |-> class, is_class |-> is_class, mixins |-> <<>>,
   superclasses |-> supers, subclasses |-> <<>>, instances |-> <<>>,
   classMixins |-> <<>>, users |-> <<>>, home |-> home, destructing |-> FALSE]

(* A script - the main one, a constructor or `<cloned>`, a destructor - or a  *)
(* list still to be gone through: of delete_object, which comes to the        *)
(* objects in its namespace second, or of `namespace delete`.                 *)
Scripts == {"main", "construct", "destroy"}
Work == [what : Scripts \cup {"descendants", "nested", "namespace"},
         obj : Id, todo : Seq(Id)]
Doing(what, id, todo) == [what |-> what, obj |-> id, todo |-> todo]

Init ==
  /\ objects = << [Born(class_cls, TRUE, <<>>, Nowhere) EXCEPT
                     !.subclasses = <<class_cls>>],
                  [Born(class_cls, TRUE, <<object_cls>>, Nowhere) EXCEPT
                     !.instances = <<object_cls, class_cls>>] >>
  /\ deleting = {}
  /\ work = <<Doing("main", class_cls, <<>>)>>

now        == Last(work)
Scripting(command) ==
  now.what = "main" \/ (now.what \in Scripts /\ command \in Callbacks)
Into(frame) == Append(work, frame)
Instead(frame) == Append(Front(work), frame)
HasRoom    == Cardinality({i \in DOMAIN work : work[i].what \in Scripts}) < MaxScripts

-----------------------------------------------------------------------------
(* Reachability through superclasses and mixins (`reachable`), as far as the  *)
(* classes on the way are alive: what is in every set that has the class and  *)
(* all that is above its members.                                             *)
Above(c) ==
  IF alive(c) THEN ToSet(obj(c).superclasses) \cup ToSet(obj(c).classMixins) ELSE {}
Ancestors(c) ==
  LET up == [d \in Ids |-> Above(d)]
      closed == {S \in SUBSET Ids : c \in S /\ \A d \in S : up[d] \subseteq S}
  IN  {a \in Ids : \A S \in closed : a \in S}
reachable(target, start) == target \in Ancestors(start)

(* The classes a call of an object's method walks.                            *)
ClassesOf(id) ==
  (UNION {Ancestors(c) : c \in {obj(id).class} \cup ToSet(obj(id).mixins)})
    \cup (IF obj(id).is_class THEN Ancestors(id) \ {id} ELSE {})
Sound(id) == \A c \in ClassesOf(id) : alive(c)

(* Where the program lets a script do what leaves a table pointing at a class *)
(* that is gone, and an instance without the departure leaves it out:         *)
(* - join: making a class that is being deleted somebody's class, superclass  *)
(*   or mixin, after delete_object took the list of what is to go with it;    *)
(* - twice: a class both of an object and mixed into it, by changing the      *)
(*   class, so one of two entries of `instances` is taken for both;           *)
(* - dying: using an object when a class its calls walk is gone, because the  *)
(*   one below it, being deleted, waits.                                      *)
Uses(S) == S \cap deleting # {} => "join" \in Departures
Class(id)  == alive(id) /\ obj(id).is_class
Usable(id) == alive(id) /\ (Sound(id) \/ "dying" \in Departures)

(* What of a list is in a set, and the list without an object.                *)
Keeping(list, these) ==
  LET kept[i \in 0 .. Len(list)] ==
        IF i = 0 THEN <<>>
        ELSE IF list[i] \in these THEN Append(kept[i - 1], list[i]) ELSE kept[i - 1]
  IN  kept[Len(list)]
Without(list, id) == Keeping(list, ToSet(list) \ {id})

(* One end of a link, in the record of the class it leads to.                 *)
GainsInstance(r, id) == [r EXCEPT !.instances = Append(@, id)]
LosesInstance(r, id) == [r EXCEPT !.instances = Without(@, id)]
GainsSubclass(r, id) == [r EXCEPT !.subclasses = Append(@, id)]
LosesSubclass(r, id) == [r EXCEPT !.subclasses = Without(@, id)]
GainsUser(r, id)     == [r EXCEPT !.users = Append(@, id)]
LosesUser(r, id)     == [r EXCEPT !.users = Without(@, id)]

(* And the other, in the record of the object it comes from.                  *)
Inherits(r, supers)    == [r EXCEPT !.superclasses = supers]
Mixes(r, mixins)       == [r EXCEPT !.mixins = mixins]
ClassMixes(r, mixins)  == [r EXCEPT !.classMixins = mixins]
LosesMixin(r, id)      == [r EXCEPT !.mixins = Without(@, id),
                                    !.classMixins = Without(@, id)]
Moves(r, home)         == [r EXCEPT !.home = home]
ChangesClass(r, cls)   == [r EXCEPT !.class = cls]
BecomesClass(r, cls)   == [r EXCEPT !.class = cls, !.is_class = TRUE,
                                    !.superclasses = <<object_cls>>]

(* The tables with `f` applied to the records of the live among `ids`.        *)
At(tables, ids, f(_)) ==
  [i \in DOMAIN tables |->
     IF i - 1 \in ids /\ tables[i] # Gone THEN f(tables[i]) ELSE tables[i]]

-----------------------------------------------------------------------------
(* What a script does.                                                        *)

(* `alloc`: an instance, of the class or of no class of its own; it is a      *)
(* class when its class is oo::class or below.                                *)
Allocated(class, home) ==
  LET id      == Len(objects)
      isClass == reachable(class_cls, class)
      one     == At(objects, {class}, LAMBDA r : GainsInstance(r, id))
      two     == IF isClass
                 THEN At(one, {object_cls}, LAMBDA r : GainsSubclass(r, id))
                 ELSE one
  IN  Append(two, Born(class, isClass,
                       IF isClass THEN <<object_cls>> ELSE <<>>, home))

(* `create`, `new`: the instance, then its constructor.                       *)
Create(class, home) ==
  /\ Scripting("create") /\ HasRoom /\ Len(objects) < MaxObjects
  /\ Class(class) /\ Usable(class) /\ Uses({class})
  /\ objects' = Allocated(class, home)
  /\ work' = Into(Doing("construct", Len(objects), <<>>))
  /\ UNCHANGED deleting

(* `superclass` of oo::define.                                                *)
Superclassed(tables, cls, supers) ==
  LET one == At(tables, ToSet(tables[cls + 1].superclasses),
                LAMBDA r : LosesSubclass(r, cls))
      two == At(one, ToSet(supers), LAMBDA r : GainsSubclass(r, cls))
  IN  At(two, {cls}, LAMBDA r : Inherits(r, supers))

(* A class may not become one of its own ancestors.  (May it?)                *)
Circular(cls, c) == reachable(cls, c)

set_superclasses(cls, supers) ==
  /\ Scripting("superclass") /\ cls \notin Roots /\ Class(cls) /\ Usable(cls)
  /\ \A s \in ToSet(supers) : Class(s) /\ Usable(s) /\ ~Circular(cls, s)
  /\ Uses(ToSet(supers))
  /\ objects' = Superclassed(objects, cls, supers)
  /\ UNCHANGED <<deleting, work>>

(* `mixin` of oo::objdefine and of oo::define.  The own class is in           *)
(* `instances` already.  (It is removed all the same.)                        *)
AnyMixin(tables, id) == ToSet(tables[id + 1].mixins)
NotItsClass(tables, id) == ToSet(tables[id + 1].mixins) \ {tables[id + 1].class}

Mixed(tables, id, mixins) ==
  LET one == At(tables, NotItsClass(tables, id),
                LAMBDA r : LosesInstance(r, id))
      two == At(one, ToSet(mixins) \ {tables[id + 1].class},
                LAMBDA r : GainsInstance(r, id))
  IN  At(two, {id}, LAMBDA r : Mixes(r, mixins))

ClassMixed(tables, cls, mixins) ==
  LET one == At(tables, ToSet(tables[cls + 1].classMixins),
                LAMBDA r : LosesUser(r, cls))
      two == At(one, ToSet(mixins), LAMBDA r : GainsUser(r, cls))
  IN  At(two, {cls}, LAMBDA r : ClassMixes(r, mixins))

set_mixins(id, mixins) ==
  /\ Scripting("mixin") /\ id \notin Roots /\ Usable(id)
  /\ \A m \in ToSet(mixins) : Class(m) /\ Usable(m)
  /\ Uses(ToSet(mixins))
  /\ objects' = Mixed(objects, id, mixins)
  /\ UNCHANGED <<deleting, work>>

set_class_mixins(cls, mixins) ==
  /\ Scripting("mixin") /\ cls \notin Roots /\ Class(cls) /\ Usable(cls)
  /\ \A m \in ToSet(mixins) : Class(m) /\ Usable(m) /\ ~Circular(cls, m)
  /\ Uses(ToSet(mixins))
  /\ objects' = ClassMixed(objects, cls, mixins)
  /\ UNCHANGED <<deleting, work>>

(* `class` of oo::objdefine.  An instance of a metaclass becomes a class.     *)
Reclassed(id, cls) ==
  LET one == At(objects, {obj(id).class}, LAMBDA r : LosesInstance(r, id))
      two == At(one, {cls}, LAMBDA r : GainsInstance(r, id))
  IN  IF ~obj(id).is_class /\ reachable(class_cls, cls)
      THEN At(At(two, {id}, LAMBDA r : BecomesClass(r, cls)),
              {object_cls}, LAMBDA r : GainsSubclass(r, id))
      ELSE At(two, {id}, LAMBDA r : ChangesClass(r, cls))

set_class(id, cls) ==
  /\ Scripting("class") /\ id \notin Roots /\ Usable(id)
  /\ Class(cls) /\ Usable(cls) /\ cls # id /\ cls # obj(id).class
  /\ Uses({cls})
  /\ {cls, obj(id).class} \cap ToSet(obj(id).mixins) # {}
       => "twice" \in Departures
  /\ objects' = Reclassed(id, cls)
  /\ UNCHANGED <<deleting, work>>

(* `oo::copy`: a new object linked as its source is, then `<cloned>`.         *)
Copied(src, home) ==
  LET id  == Len(objects)
      one == Mixed(Allocated(obj(src).class, home), id, obj(src).mixins)
  IN  IF obj(src).is_class /\ one[id + 1].is_class
      THEN ClassMixed(Superclassed(one, id, obj(src).superclasses), id,
                      obj(src).classMixins)
      ELSE one

Copy(src, home) ==
  /\ Scripting("copy") /\ HasRoom /\ Len(objects) < MaxObjects
  /\ src \notin Roots /\ Usable(src)
  /\ Uses({obj(src).class} \cup ToSet(obj(src).mixins)
            \cup ToSet(obj(src).superclasses) \cup ToSet(obj(src).classMixins))
  /\ objects' = Copied(src, home)
  /\ work' = Into(Doing("construct", Len(objects), <<>>))
  /\ UNCHANGED deleting

(* `rename obj new`: its command moves to another namespace.                  *)
Rename(id, home) ==
  /\ Scripting("rename") /\ id \notin Roots /\ Usable(id) /\ home # obj(id).home
  /\ objects' = At(objects, {id}, LAMBDA r : Moves(r, home))
  /\ UNCHANGED <<deleting, work>>

-----------------------------------------------------------------------------
(* destroy_object: marked, then its destructor runs, once.                    *)
Condemns(r) == [r EXCEPT !.destructing = TRUE]
Marked(id)  == At(objects, {id}, LAMBDA r : Condemns(r))
AnyAlive(id) == alive(id)   \* (Destroyed or not?)
Destroys(id) == alive(id) /\ ~obj(id).destructing
Destroyer(id) == Doing("destroy", id, <<>>)

(* `obj destroy`, `rename obj {}`.                                            *)
Destroy(id) ==
  /\ Scripting("destroy") /\ HasRoom /\ id \notin Roots /\ Usable(id) /\ Destroys(id)
  /\ objects' = Marked(id)
  /\ work' = Into(Destroyer(id))
  /\ UNCHANGED deleting

(* The objects whose commands are in the object's namespace.                  *)
Inside(id) ==
  Keeping([i \in DOMAIN objects |-> i - 1], {d \in Live : obj(d).home = id})

(* `namespace delete` of an object's namespace: those first, then it.         *)
NamespaceDelete(id) ==
  /\ Scripting("namespace") /\ HasRoom /\ id \notin Roots /\ Usable(id)
  /\ work' = Into(Doing("namespace", id, Append(Inside(id), id)))
  /\ UNCHANGED <<objects, deleting>>

SweepNamespace ==
  /\ now.what = "namespace"
  /\ IF now.todo = <<>> THEN work' = Front(work) /\ UNCHANGED objects
     ELSE LET d    == Head(now.todo)
              rest == Instead([now EXCEPT !.todo = Tail(@)])
          IN  IF Destroys(d) THEN objects' = Marked(d) /\ work' = Append(rest, Destroyer(d))
              ELSE work' = rest /\ UNCHANGED objects
  /\ UNCHANGED deleting

(* A constructor ends.  One that fails has the object destroyed, unless it    *)
(* already is.                                                                *)
Constructed ==
  /\ now.what = "construct"
  /\ work' = Front(work)
  /\ UNCHANGED <<objects, deleting>>

ConstructorFails ==
  /\ now.what = "construct" /\ Destroys(now.obj)
  /\ objects' = Marked(now.obj)
  /\ work' = Instead(Destroyer(now.obj))
  /\ UNCHANGED deleting

-----------------------------------------------------------------------------
(* delete_object.                                                             *)

(* (An object whose destructor was called needs no more telling.)            *)
Untold(id) ==
  IF ~obj(id).is_class THEN <<>>
  ELSE Keeping(Reverse(obj(id).users) \o Reverse(obj(id).subclasses)
                 \o Reverse(obj(id).instances),
               {d \in Ids \ {id} : Destroys(d)})

(* What goes with a class: the classes it is mixed into, its subclasses, its  *)
(* instances, each last first, but for what is being deleted already.         *)
Descendants(id) ==
  IF ~obj(id).is_class THEN <<>>
  ELSE Keeping(Reverse(obj(id).users) \o Reverse(obj(id).subclasses)
                 \o Reverse(obj(id).instances),
               Ids \ ({id} \cup deleting))

Deletes(id) == alive(id) /\ id \notin deleting
Deleter(id) == Doing("descendants", id, Descendants(id))

(* (Well only: an error ends the destruction.)                               *)
DestructorFails ==
  /\ now.what = "destroy"
  /\ work' = Front(work)
  /\ UNCHANGED <<objects, deleting>>

(* The destructor ends, well or not, and the object is deleted, unless it is  *)
(* being deleted or gone.                                                     *)
DestructorEnds ==
  /\ now.what = "destroy"
  /\ IF Deletes(now.obj)
     THEN /\ work' = Instead(Deleter(now.obj))
          /\ deleting' = deleting \cup {now.obj}
     ELSE work' = Front(work) /\ UNCHANGED deleting
  /\ UNCHANGED objects

(* The next of the list is destroyed; one whose destructor has been called    *)
(* is deleted as it is.  The roots stay.                                      *)
NextOfList ==
  /\ now.what \in {"descendants", "nested"} /\ now.todo # <<>>
  /\ LET d    == Head(now.todo)
         rest == Instead([now EXCEPT !.todo = Tail(@)])
     IN  IF d \in Roots \/ ~alive(d)
         THEN work' = rest /\ UNCHANGED <<objects, deleting>>
         ELSE IF Destroys(d)
         THEN /\ objects' = Marked(d)
              /\ work' = Append(rest, Destroyer(d))
              /\ UNCHANGED deleting
         ELSE IF Deletes(d)
         THEN /\ work' = Append(rest, Deleter(d))
              /\ deleting' = deleting \cup {d}
              /\ UNCHANGED objects
         ELSE work' = rest /\ UNCHANGED <<objects, deleting>>

DescendantsDone ==
  /\ now.what = "descendants" /\ now.todo = <<>>
  /\ work' = Instead(Doing("nested", now.obj, Inside(now.obj)))
  /\ UNCHANGED <<objects, deleting>>

(* The object leaves every table that knows it.                               *)
Unlinked(id) ==
  LET o     == obj(id)
      inst  == At(objects, {o.class} \cup ToSet(o.mixins),
                  LAMBDA r : LosesInstance(r, id))
      subs  == At(inst, ToSet(o.superclasses), LAMBDA r : LosesSubclass(r, id))
      users == At(subs, ToSet(o.classMixins), LAMBDA r : LosesUser(r, id))
  IN  At(users, ToSet(o.users), LAMBDA r : LosesMixin(r, id))

Delete ==
  /\ now.what = "nested" /\ now.todo = <<>>
  /\ objects' = [Unlinked(now.obj) EXCEPT ![now.obj + 1] = Gone]
  /\ deleting' = deleting \ {now.obj}
  /\ work' = Front(work)

CodeStep == SweepNamespace \/ NextOfList \/ DescendantsDone \/ Delete
ScriptEnds == Constructed \/ ConstructorFails \/ DestructorEnds

Lists(S) == {l \in BoundedSeq(S, MaxList) : IsInjective(l)}

Next ==
  \/ \E id \in Live, home \in (Homes \cap Live) \cup {Nowhere} :
       Create(id, home) \/ Copy(id, home) \/ Rename(id, home)
  \/ \E id \in Live, list \in Lists(Live) \ {<<>>} : set_superclasses(id, list)
  \/ \E id \in Live, list \in Lists(Mixable \cap Live) :
       set_mixins(id, list) \/ set_class_mixins(id, list)
  \/ \E id, cls \in Live : set_class(id, cls)
  \/ \E id \in Live : Destroy(id) \/ NamespaceDelete(id)
  \/ CodeStep \/ ScriptEnds

Spec == Init /\ [][Next]_vars /\ WF_vars(CodeStep) /\ SF_vars(ScriptEnds)

-----------------------------------------------------------------------------
(* Properties.                                                                *)

TypeOK ==
  /\ \A id \in Live : obj(id) \in Object
  /\ Len(objects) \in 2 .. MaxObjects
  /\ deleting \subseteq Live
  /\ work # <<>> /\ \A i \in DOMAIN work : work[i] \in Work

(* `list` has the members of S, each once.                                    *)
Lists1(list, S) == IsInjective(list) /\ ToSet(list) = S

(* oo.rs keeps each link twice, at both ends, and changes the ends in         *)
(* different statements of different commands: a class knows each instance,   *)
(* object it is mixed into, subclass and class it is mixed into exactly once, *)
(* and nothing else, so that deleting it reaches them all.                    *)
TablesAgree ==
  /\ TypeOK
  /\ \A c \in Live :
       /\ Lists1(obj(c).instances,
                 {i \in Live : obj(i).class = c \/ c \in ToSet(obj(i).mixins)})
       /\ Lists1(obj(c).subclasses, {i \in Live : c \in ToSet(obj(i).superclasses)})
       /\ Lists1(obj(c).users, {i \in Live : c \in ToSet(obj(i).classMixins)})

(* An object is outlived by its class, its mixins, its superclasses and those *)
(* mixed into it as a class, unless its own deletion has begun: `class` and   *)
(* `obj` of oo.rs expect them alive.  And the links upwards never close a     *)
(* circle, which would make a walk of them endless, though superclasses and   *)
(* mixins are set by commands of their own: among any classes, one has none   *)
(* of them above it.                                                          *)
NothingDangles ==
  /\ \A id \in Live \ deleting :
       {obj(id).class} \cup ToSet(obj(id).mixins) \cup Above(id) \subseteq Live
  /\ \A S \in SUBSET Live : S # {} => \E c \in S : Above(c) \cap S = {}

(* An object is being deleted exactly as long as its deletion is on the way,  *)
(* and that is once; and its destructor was called at most once, however many *)
(* commands, lists and scripts came upon the object meanwhile.                *)
DeletedOnce ==
  LET ids(kinds) == [i \in {j \in DOMAIN work : work[j].what \in kinds} |-> work[i].obj]
      once(f) == \A i, j \in DOMAIN f : f[i] = f[j] => i = j
  IN  /\ once(ids({"descendants", "nested"})) /\ once(ids({"destroy"}))
      /\ Range(ids({"descendants", "nested"})) = deleting
      /\ \A d \in Range(ids({"destroy"})) : alive(d) => obj(d).destructing

(* What has been told to go does go, whatever the destructors do.             *)
DestroyedGoes ==
  \A id \in Id : (alive(id) /\ obj(id).destructing) ~> ~alive(id)
=============================================================================
