# A verification development for tclrs

tclrs runs Tcl: a script is parsed, lowered to bytecode and run on the `fusevm` virtual machine. Its hard parts
are not the translation but what happens around the machine: coroutines that halt and resume VMs, codes that unwind
through them, an event loop that scripts re-enter, and one variable table shared by evaluations that nest. This
directory models those parts in TLA+, checks them with TLC on small instances and proves what matters most with TLAPS
for every instance.

Sources are quoted as in `PROJECT.json`: `src/src/runtime.rs` is `src/runtime.rs` of the repository.

## 1. The system

| part | state it keeps | operations | talks to |
|---|---|---|---|
| parser, expression parser, compiler (`parser.rs`, `expr.rs`, `compiler.rs`, `control.rs`, `assoc.rs`, every `cmd_*.rs` half that lowers) | none that outlives one compilation | text to ops | reads the interpreter's command table, traces, array names |
| interpreter (`Interp`, `State` in `runtime.rs`) | globals, commands, namespaces, projections, aliases, chunk cache, output, nesting depth and limit, contexts, `after` registry, objects; behind one mutex that is never held while a VM runs | `eval`, `run_source`, `call_in_chunk` | everything |
| driver (`Machine` in `runtime.rs`, `coro.rs`) | the execution contexts of one evaluation, which one runs, the live coroutine names, the regions each context has open | `drive`, `service`, `raise`, `retire` | a VM leaves a request or an error in a cell and halts; the driver answers by pushing a value |
| variables between evaluations (`seed`, `flush`, `write_back`, `reproject`, `sync_out`, `sync_in`) | one table in `State`, one projection of it per VM that is active | entry, exit and every nested evaluation | driver, event loop, traces |
| event loop (`cmd_after.rs`) | the registry of `after` scripts, one local batch per loop entered | `after`, `after idle`, `after cancel`, `after info`, `update`, `vwait` | runs scripts through `run_source`, which may enter the loop again |
| chunk cache (`cache.rs`) | compiled chunks by key, counters | `compile_in` | compiler, `run_source` |
| traces (`cmd_trace.rs`) | variable, command and execution traces, the queue of events, the guard of those firing | `trace add/remove/info`, firing | variable ops, `rename` |
| packages (`cmd_package.rs`, `cmd_source.rs`) | versions provided, scripts offered | `package require` and kin | runs scripts, cycles possible |
| namespaces, procedures, scopes (`cmd_namespace.rs`, `names.rs`, `procs.rs`, `cmd_scope.rs`) | command and variable tables, links | definitions, imports, `upvar`, `uplevel` | interpreter |
| objects (`oo.rs`) | classes, objects, chains under way | create, destroy, dispatch | interpreter |
| channels (`cmd_channel.rs`) | per channel: bytes not decoded, text not given, bytes not written | `gets`, `read`, `puts`, `flush`, `seek`, `close`, `fconfigure` | operating system, driver scripts |
| processes (`cmd_process.rs`) | children, ends of pipes, three threads | `exec` | operating system, channels |
| text commands (`cmd_string.rs`, `list.rs`, `regexp.rs`, `are*.rs`, `cmd_clock.rs`, ...) | caches at most | pure functions | |
| Tk host (`src/tk/`, feature `tk`) | event queue, reference counts, preserved blocks, linked variables | the C functions libtk calls | libtk, event loop |
| front ends (`main.rs`, `repl*.rs`, `lsp.rs`, `dap.rs`) | sessions | | interpreter |

What is hard, and where: *interleaving* is cooperative. There is one thread per interpreter, but a script the event
loop runs, a trace, a coroutine or a package script runs in the middle of another operation and may call that same
operation again. So the hazards are state read before such a call and used after it (`cmd_after.rs:421`,
`runtime.rs:3694`), work half done when an error unwinds (`runtime.rs:3810`), orders of legal calls nobody tested
(resume, yieldto and re-creation of one name), and waits that never end or end too early. Real threads are only in
`cmd_process.rs`, `main.rs` and the Tk session. `PROJECT.json` lists each hazard at its line with the properties that
would catch it.

What makes each part correct, in a sentence: the **driver** always knows where control goes back to and answers every
halted op once; a **region** takes what it should and leaves its context as it was on entry; the **variable table**
looks the same from every evaluation that can see it; the **event loop** runs each script at most once, in order, and
ends its waits when and only when it should; the **cache** answers what a fresh compilation would; a **trace** fires
once per access and its changes to the registry do not disturb the walk; **require** ends and runs a script once; an
**object** is outlived by its classes and destroyed once; a **name** means one command in all five tables that know it; a
**channel** gives and takes the bytes that are there whatever the sizes of its buffers; **exec** ends and tells all that
was written; the **notifier** runs every handler, once, in turn, from whichever loop.

## 2. Modules

| module | what it is | source |
|---|---|---|
| `Coroutine` | the driver of one evaluation | `runtime.rs` 3341-4082, `coro.rs` |
| `CoroutineStack`, `CoroutineRefinement` | what coroutines promise: a stack of running contexts beside parked ones; the mapping | `README.md` "Coroutines" |
| `CoroutineProofs` | theorems about `Coroutine`, and that it implements `CoroutineStack` | |
| `EventLoop` | registry, `update`, `vwait`, nested loops | `cmd_after.rs`, `run_source` |
| `EventLoopProofs` | theorems about `EventLoop` | |
| `VarProjection`, `MCVarProjection` | the interpreter's table, the slots of each VM, scripts in frames | `runtime.rs` 1152-1534, 2753-3073, `cmd_scope.rs`, `procs.rs` |
| `VarScopes`, `VarProjectionRefinement` | one variable of each name and each activation's own locals; the mapping | `README.md` on `eval` and `uplevel` in bodies |
| `Unwind` | `raise` through regions, frames, contexts and nested machines | `runtime.rs` 2980-3830, `control.rs`, `procs.rs`, `compiler.rs` |
| `CodeTravel` | one stack of commands a code travels outwards along | the same commands' rules |
| `Objects` | links between objects, and destruction | `oo.rs` |
| `ObjectsProofs` | theorems about `Objects` | |
| `Traces`, `MCTraces` | registry of traces, and callbacks | `cmd_trace.rs`, `cmd_namespace.rs` |
| `TracesProofs` | theorems about `Traces` | |
| `Packages`, `Versions`, `MCPackages` | the registry, `package require`, version numbers | `cmd_package.rs` |
| `PackagesProofs` | theorems about `Packages` and the comparison of versions | |
| `Namespaces`, `MCNamespaces` | the tables that know command names | `cmd_namespace.rs`, `procs.rs` |
| `NamespacesProofs` | theorems about `Namespaces`, that it implements `Commands` among them | |
| `Commands` | a name is bound to one command, or imports one | |
| `Notifier`, `MCNotifier` | the event loop Tk is given | `tk/notifier.rs` |
| `EventQueue` | a queue with a front part | |
| `NotifierProofs` | theorems about `Notifier` | |
| `Channels`, `MCChannels` | one channel | `cmd_channel.rs` |
| `Processes` | one `exec` | `cmd_process.rs` |
| `ProcessesProofs` | theorems about `Processes` | |

Eight of the modules have a constant `Departures` (`VarProjection` has `uses` in its mixes). A departure is something
scripts do that the code does not serve as its comments and documents say. The passing runs leave the departures out, so
what they show is about scripts without them; each is a named conjunct in the module, so the place says exactly what is
excluded. Giving one of them to `Departures` in the configuration makes TLC show what the code does; §4 lists what it is.

### Coroutine

A context is an index. The fields of `Context` are one function each (`vm`, `name`, `resumer`, `park`, `catches`), those
of `Machine` a variable each (`contexts` is its length, `live`, `created`, `current`). Two variables stand for what is
spread over VM stacks and cells: `owed[c]`, the values the op that halted `c` still waits for (pushed by `enter`,
`retire`, `Yield`), and `raising`, the code `raise` is carrying outwards between two turns of its loop.

One action per arm of `service` and per end of a run: `Create`, `Resume`, `Yield`, `YieldTo`, `Refuse` (any arm that
answers an error), `Fail` (an op raises a code), `Retire`, `Finish`; `OpenCatch` and `CloseCatch` for a region entered
and left; and `RaiseStep`, one turn of the loop in `raise`: the innermost region takes the code (`Absorb`) or is
abandoned (`PassRegion`), a `return` ends a call (`EndCall`), the coroutine is deleted and the code goes to its resumer
(`Propagate`), or the script ends with it (`Escape`). A context's program is left open: at every point it may do any
of these, so the runs cover every program.

Abstracted: values; whether a region is a `catch` or a loop, and how many procedure calls a code crosses before it
reaches one (`Becomes` says what the code may be afterwards; `Unwind` has both); the nested evaluations an op starts,
which have drivers of their own.

`coroutine` is compiled only at the top level of a script (`static_ctx`), so its caller is the main script. This guard,
`MayCreate`, is what makes the unconditional `discard` of an older context of the same name safe: while the script
itself runs, no coroutine does, so the one discarded is parked (lemmas `OnlyMain`, `MainRunsAlone`).

### EventLoop

`queue` is the registry as the set of its entries: every insertion is at the front and ids only grow, so the list order
is by decreasing id. `stack` holds the loops entered and not left. A loop's `batch` is the local vector `due` of
`service_one` without the scripts already run, `running` the script it waits for. A script that runs may register,
cancel, write a variable or enter the loop again, and ends, well or not: `run_script` reports an error and goes on.
`RunNext`, `TakeDueTimers`, `TakeIdle`, `UpdateReturns`, `VwaitReturns`, `GiveUp` are what `service_one` does under
`update_op` and `vwait_op`; `Tick` is the clock, which moves whenever it likes. A script over the recursion limit is
refused by `run_source` after it has left the registry (`RunsIt`). `started` and `cancelled` are history.

Abstracted: script texts (but a text may spell a handle, which `after cancel` tries second); `after info`, which only
reads; `after ms` without a script, which only sleeps; where the clock is read; the nesting that `eval` or a procedure
in a running script adds to the recursion depth.

### VarProjection

`globals` is `State.globals`, `projections` is `State.projections` (the table a projection displaced, and the names the
body declared global), and `runs` the VMs in progress, outermost first. A VM waits in the command that began the next
one, so `op` and `frame` say of each VM which command that was and which frame it aimed at. `names` is the chunk's name
table; `slots` is `vm.globals`, flat as in the code: a slot for each name, then the directory of names interned later,
then their values. `frames` are the activations in this VM.

`seed`, `reproject`, `overflow_names`, `global_home` and `written`/`writtenPast` (the two halves of `write_back` under
`flush`) are the functions of those names. `Assign` and `Read` reach a variable by a name the chunk wrote
(`WrittenHome`) or by one settled at run time (`global_home`, which may intern); an unset is an assignment of `Undef`.
`UpvarGlobal`, `UpvarFrame` and `AssignLink` are links. The exchanges are whole: `Script` is everything from the write
back to the seed of the new VM (`eval` at the top, `uplevel #0`, `apply`), `ScriptInFrame` the same for `in_frame`
(`eval` in a body, `uplevel` to a frame), `CallElsewhere` for `call_in_chunk`; `End` and `EndInFrame` the way back.
`Call` and `ReturnFromBody` stay in one VM. What a link was made for (`of`) and whether a chunk was lowered for a
projection (`projected`) are beside the slots; the code keeps the first nowhere and the second in the compiled chunk.

A behaviour has one `mix`: which commands its scripts use, on which names, and its bounds.

Abstracted: arrays and their elements; constants; traces (`sync_out`, `sync_in`); aliases between interpreter
variables; arguments (a local is written like any other); the variables of namespaces and methods; where a frame keeps
a local (named slot or run-time local); the names a link has in a script that runs in the frame; scripts in the frame
of an activation of another VM, which the code refuses as a level.

### Unwind

`machines` are the `Machine`s that run inside one another (a nested evaluation or a call into another chunk starts one),
each with its contexts (a coroutine is one), each with its call frames and its `catches`. Instead of an op index a frame
has the list of commands its position is inside of: that is what the lowering of `break`, `return` and `tailcall` looks
at, and where the jumps it emits lead. `Open`, `Turn`, `LeaveLoop`, `EndRegion`, `Handles`, `Cleans` are the ops a
guarded script or a loop runs through; `LoopExit` the jump a `break` is lowered to; `Call`, `ReturnValue`, `TailCall`,
`TailNest`, `Create`, `Nest`, `Ends` make and leave frames, contexts and machines. `Raise` puts a `TclError` on its way;
`Land` (a region takes it), `spend_call_level`, `discard` (out of a coroutine) and `LeaveMachine` are the turns of
`raise`, with the answer each kind of nested evaluation gives its caller in `Answer`.

`CodeTravel` knows none of this: everything a script is inside of is one list, and each kind of entry has one rule
(`Passing`) for what leaves it. `ImplementsTravel` says that wherever the boundary between frames, chunks or evaluations
falls, the same command takes the code. `RegionsMatchText` is what the lowering has to keep for that.

Abstracted: scope frames that are no procedure's, the messages and traces gathered on the way, `resume` inside (that is
`Coroutine`'s).

### Objects

`objects` is the table of `oo.rs`, a record for each with both ends of every link: `class`/`instances`,
`superclasses`/`subclasses`, `mixins` against `instances`, `classMixins`/`users`, and `home`, the object whose
namespace its command is in. `work` is what is under way: scripts (the main one, constructors, destructors) and, between
them, the lists `delete_object` and `namespace delete` go through. One action per command that changes a link
(`Create`, `Copy`, `Rename`, `set_superclasses`, `set_mixins`, `set_class_mixins`, `set_class`, `Destroy`,
`NamespaceDelete`), each the whole handler, and one per step of a destruction between two scripts (`NextOfList`,
`DescendantsDone`, `SweepNamespace`, `Delete`, and how constructors and destructors end).

Every object has a constructor and a destructor; one that does nothing stands for none. `Ancestors`, what `reachable`
walks, is the least set that has the class and what is above its members. The two ends of a link are changed by
operators of their own (`GainsInstance`, `LosesUser`, ...), which `At` applies to the records that are still there.

`NothingDangles` lets an object whose own deletion has begun lose what it hangs on: a dying class waits for its instances,
and the destructor of one of them may destroy a superclass, which is gone first. That takes three objects beside the
roots, one more than the run has, and came to light in the proof.

Abstracted: commands on the two roots; methods, variables, filters, properties and which method a call finds (the call chains); names of objects.

### Traces

`traces` are the three lists of the registry in one, with a kind each: how many there are of each trace, since their
order shows in nothing (they are called one after another, whichever comes first). `events` is the queue that `rename` leaves,
`active` the guard. `work` holds the scripts under way and between two of them the list of callbacks the lower one's
command goes through. Which callbacks are on a list is fixed when it is taken, so a trace removed meanwhile is still
called (unlike tclsh) and one added is not; a list is therefore a count. `Read`, `Write`, `Unset`, `rename`, `Call`,
`Define`, `trace_add`, `trace_remove` are commands; `NextCallback` and `run_events` go on with a list; `ScriptDone` and
`ScriptFails` end a callback. `unset` forgets the variable's traces after its callbacks have run, and with them what a
callback added. A callback over the recursion limit is an error of the list.

Two tables say what a command is. `commands` is the namespaces' registry, in which `rename` looks a name up; `procs` is
the interpreter's own table, which keeps a procedure that the registry has lost, and `trace` asks both (`Known`). Commands
come and go without `proc` and `rename` too: an import or a new object (`Arises`), `namespace delete` and `namespace
forget` (`namespace`, whose other subcommands are that with nothing gone), the end of an object (`ObjectEnds`). These
deletions leave the traces where they are (`TakenAway`), which is the departure `deletion` of §4; without it they take
only commands that have none. `rename` and `namespace` end by running what is queued (`Tells`), the end of an object does
not. A call whose name nothing answers to still runs both lists: it fails between them.

Abstracted: values; elements of arrays; which accesses the compiler routes to traces; the arguments of callbacks; which
commands one deletion takes together (any set of names may go at once).

### Packages

`packages` is the registry: version provided, versions that can be loaded, the version that is being loaded. `work` are
the requests whose scripts run. `Provide`, `Forget`, `IfNeeded`, `Prefer`, `Unknown`, `Require` are the subcommands,
`Asked`, `Loaded` and `ScriptFails` the ends of scripts. A script is told of a failure and may go on or fail in turn.
`Versions` has the comparison and the requirements over the lists of integers versions are converted to. What is
available is a set: in the code's list a later script takes the place of an earlier one for an equal version, so its
order cannot be told from what is chosen, except between versions that are spelled differently, where either may be.

Abstracted: the toolkit a `tk` build loads itself, data for C clients, the files scripts source; versions that are
spelled differently and compare equal stay different values.

### Namespaces

Five tables: `namespaces`, `commands` (each name's origin), `exports`, `ensembles` of the registry, and `procs`, which is
`State.commands`, through which calls are made; `gone` is the registry's record of names taken away. One action per
subcommand. The namespace a script runs in exists by that (`Known`), as `ensure` at the next definition makes true.
`Commands`, with no tables, says that a name is bound to nothing, to a command of its own, or to one it imports.

Abstracted: namespaces of variables, the compiler's own record of imports and renames within one chunk, built-in
commands, an ensemble's map and options.

### Notifier

The queue of `tk/notifier.rs` is a linked list with `first`, `last`, `marker` and a count; `event` maps each place of
storage to its event and link. `timers`, `idles`, `files` are the other tables. `stack` are the calls of
`Tcl_DoOneEvent` and `Tcl_ServiceAll` inside one another; each has where it is (`pc`), the event it serves, and what of
the handler runs. `Client` is what a handler may do: queue at the head, mark or tail, delete events, make and cancel
timers, idle handlers and watches, enter a loop. `LoopStep` is the code's own. `Foreign` and `FileReady` are the run
loop and the descriptors, external; the run loop's own source comes before others, as its order (the least there is)
asks.

`offered` is history: the events of windows that have had their turn, by being given to their handler or by being in
front of another that its handler refused (the loop goes on behind that one). `HandlersRun` asks that again and again there
is no timer and no idle handler left, no event of a window that has not had its turn, and nothing a watched descriptor is
ready for and was not told. It does not ask that a handler accept: an event that is refused stays in the queue, and one
queued in front of an event that is then refused is not seen in that walk. Both wait for the next call of the loop that
finds something else to do or is woken, since `do_one_event` looks at the queue once before it blocks
(`tk/notifier.rs` 919-993).

`EventQueue` is the queue without pointers: what comes goes first, behind the front part or last, what leaves leaves the
others in order and in the part they were in.

Abstracted: event sources other than the timers', threads, `Tcl_Sleep`, exception masks, modes other than none and all,
negative delays.

### Channels

`raw`, `pending`, `device_eof`, `saw_cr` are the input side, `out` the output side; `lent` are the bytes of a flush that
has taken the device out of the table and not handed all of it over. `doing` is the command being served: `gets` and
`read` fill (`Fill`, `FillAtEnd`, `FillFails`) until they can answer, a flush goes on until the device has taken all
(`Accept`, in parts) or fails. The device is a file, a stream that gives what it has, or a driver whose output procedure
is a script and may write to the same channel while its device is lent. Bytes are seven symbols: a letter, the two line
endings, the two halves of a longer character, a byte that is in no UTF-8 text, and the substitute. `from`, `got`,
`meant` are history: the property that reads are right compares what was given with a decoding of the whole text.

A driver's script that writes to its own channel finds the device lent out: the flush it sets off puts the bytes back into
`out` (`Flushing`; `Detached` in `cmd_channel.rs` 656-669), and they stay when the flush under way is over, until the next
one. `late` is history and says that there are such. `LeavesInTime` holds of files and drivers alike but for these bytes:
the buffering may be `none` or `line` and they are held back all the same, against the comment at 955. `Configured` are
the values of one `fconfigure`: a word of `-translation` for both sides or one for each, `binary` among them, which
changes the encoding if its side is open.

Abstracted: the table of names, the standard channels and reference counts; handlers; encodings other than UTF-8 and
ISO 8859-1; append mode.

### Processes

`plan` is what the words ask for; `held` the ends of pipes with who holds each (the interpreter, its threads, the
commands); `pipe` their contents. `ExecStep` is the interpreter: `Spawn` one command after another, or give up
(`SpawnFails`), `Release` (close its ends, start the threads), `Wait`, `Answer`. `WriterStep` and `ReaderStep` are the
threads; `ChildStep` the commands, which are external: each reads to the end of its input, writes to either stream and
ends in any order, is stuck where a pipe is full or empty, and is killed when it writes to a pipe nobody reads.

Abstracted: the words a plan is read from; a grandchild that keeps a pipe open; failures of `wait`; a channel found
missing only after the run; the order between two streams redirected to one channel; error codes.

## 3. Runs

| run | shows | bounds |
|---|---|---|
| `coroutine` | types, `ChainReachesMain`, `OneAnswerPerRequest`, `TableMatchesContexts`, `DeletionIsFinal`, `ImplementsStack`, `ErrorSettles` | 3 names, 4 coroutines, 1 region each, up to 2 arguments |
| `event_loop` | types, `InOnePlace`, `ServiceOrder`, `LoopsEnd` | 3 registrations, clock 0..2, limit 2 (three nested loops) |
| `variables` | `LinksStayBound`, `GlobalNamesAnswerGlobals`, `ExchangesKeepVariables`, `ImplementsScopes` | three mixes: 2 names, 2 VMs, 1 frame; 1 name in two spellings, 3 VMs, 1 frame; 1 name, 2 VMs, 2 frames |
| `unwind` | `RegionsMatchText`, `ImplementsTravel` | levels up to 2, three commands, calls and scripts inside one another |
| `unwind_return` | violation: `SpentReturnsEndTheCall` (§4) | levels up to 1 |
| `objects` | `TablesAgree`, `NothingDangles`, `DeletedOnce`, `DestroyedGoes` | the two roots and two more objects, 3 scripts inside one another, lists of one |
| `traces` | `NotInsideItself`, `NothingLeftQueued`, `TracesOfCommands` | 2 variables, 2 commands, 2 traces, limit 2; variables and commands are alike (symmetry) |
| `packages` | `MarkedWhileLoading`, `VersionsStand`, `LoadsTheBest` | 2 packages, 3 versions, 3 requirements, requests three deep |
| `namespaces` | `TablesAgree`, `ImplementsCommands` | the root, one namespace and one inside it, 5 names, 2 commands made |
| `notifier` | `ListAgrees`, `NotInsideItself`, `ServedInTurn`, `ImplementsQueue`, `HandlersRun` | four mixes of up to 3 things made, 2 loops at a time, 2 clock values |
| `channels` | `ReadsWhatIsThere`, `WritesLandWhereMeant`, `LeavesInTime` | 12 files of up to 4 bytes, buffers of 1 and 2, 2 changes or seeks |
| `processes` | `Told`, `NobodyLeft`, `ExecAnswers` | 2 commands, 2 writes, a text of 2, pipes of 1 |

Invariants of types are conjuncts of the first structural invariant where there is one (`TablesAgree`, `ListAgrees`,
`RegionsMatchText`, `NotInsideItself`, `MarkedWhileLoading`, `WritesLandWhereMeant`, `Told`).

### Why the bounds are enough

*Coroutine.* Four coroutines over three names are the least with which a name is made again while two
others are alive and a `yieldto` moves a resumer between them; two arguments are one more than a coroutine parked by
`yield` accepts; one region is enough for a code to be taken or abandoned at each context.

*EventLoop.* Three registrations are the
least with which a batch of two has a third entry beside it, and a limit of two leaves a loop that runs, one nested and
one whose scripts are refused. Two clock steps put one deadline between two others. Hidden: scripts that
register one another for ever.

*Variables.* One value beside `Undef` is enough, since a lost write and a lost unset both show against the
variable's other state. Two names in no chunk's table are interned in either order, so a directory taken again in another
order or one place off shows; with a name in the table, one name in its two spellings is what projections tell apart.
Three VMs nest a projection in a projection, or a call inside one; two frames are what `uplevel` and `upvar` go
between. Hidden: a table with two names of which one is interned, and three frames.

*Unwind.* Three entries are a guard, a loop and a call in any order, or a call, a nested script and a guard; two levels
are one that is spent on the way and one that is left. Hidden: the second of two equal regions in one frame beyond that.

*Objects.* With two objects of their own one is a class and the other its instance, its subclass, mixed into it or in
its namespace, and the two roots are classes above both; three scripts are the main one, a destructor and one that a
destructor's command starts. `Mixable` and `Homes` name which objects may be given to `mixin` and have commands in their
namespaces, by symmetry of the rest. Hidden: a class between two others, and circles through a third class; the theorems
are about any number.

*Traces.* Two variables of which each one's callback touches the other; two names a rename goes between; a limit of two
lets a callback's own access run callbacks and refuses the third. Neither the variables nor the commands are told apart by
any action or property, and all properties are invariants, so `MCTraces` may take them up to a permutation. *Packages.* Two packages that require each other,
versions of which two compare equal and a third is unstable, three requests of which the third may be the first
package again. *Namespaces.* Three namespaces inside one another are what `namespace delete` takes and what it leaves; an
exporting namespace with one name it may export, one with the pattern `*`. Hidden: chains of three imports, more than
two commands made in one behaviour.

*Notifier.* Three places for events: no mix has more in use at once (with five the run reaches the same states), so
storage is never what stops a behaviour. A mix says which kinds go together; each pair that shares a flag or a table is in one. Idle redraws and
descriptors are not combined: a client whose loops ask only for window events while a descriptor stays ready does starve,
which is the client's choice and not a failing of the loop. *Channels.* A buffer of one cuts every pair of bytes, one of
two leaves pairs whole or cuts them by one. *Processes.* Pipes of one place fill at once, and two commands are a first, a
last and what is between them. A stage in the middle differs from these only in having a pipe on both sides.

### Fairness

`raise` is a loop that runs to its end before the driver does anything else: `WF(RaiseStep)`. The loop of
`service_one` runs on the interpreter's own thread and the clock goes on: `WF(LoopStep)`, `WF(Tick)`. `SF(EndScript)`
is an assumption about scripts, not about the code: each script the loop runs ends. It is strong because a script may
interrupt itself with nested loops, which disable its end again and again. `vwait` has no other promise: with a script
that never ends no wait ends.

`Objects`: the code goes on (`WF(CodeStep)`), scripts end (`SF(ScriptEnds)`, strong for the same reason). `Notifier`:
the loop's thread goes on (`WF`), time passes whenever it can again and again, handlers return, and the program goes
back to its outermost `Tcl_DoOneEvent` for all events (`SF`). `Processes`: the interpreter, its threads and the commands
each go on (`WF`): commands end once they have read and written what they have.

## 4. Where the code and its documents part

### The violated run

`unwind_return`. `raise` charges a `return` for every frame it crosses on the way to a region, but cuts the frames back
only where that region takes it. `proc p {} {try {return 1} finally {}}; foreach i {1 2} {puts [p]}`: the level is spent
at `p`, the loop's region does not take code ok and is dropped, and code ok with no level leaves the script. The comment on
`spend_call_level` (`runtime.rs` 3817) says that a spent level ends the call.

### Departures

Each of these shows as soon as its name is added to `Departures` (or to `uses` of a mix) in the configuration.

| module | word | what the code does | breaks |
|---|---|---|---|
| `Unwind` | `return` | the above; and a level not spent is charged twice | `ImplementsTravel` |
| | `loop code` | a `break` that meets no region leaves calls without becoming an error | |
| | `coroutine` | frames a code still has to cross are counted in the coroutine it left (`runtime.rs` 3694) | |
| | `lambda` | `apply` makes a `return` past the lambda's own level an error (`runtime.rs` 3153) | |
| | `tailcall` | into another chunk from a frame with none below it in its machine spends a level again | |
| `Objects` | `join` | an object made of a dying class after the list of what goes with it was taken outlives the class (`oo.rs` 2819; the comment at 2811 says it takes its instances with it) | `NothingDangles` |
| | `twice` | a class both of an object and mixed into it, by changing the class: one entry of `instances` stands for both | `TablesAgree` |
| | `dying` | commands on an object one of whose classes is gone, as the class between them, being deleted, waits: `class` and `obj` (694, 706) expect it alive | |
| `Traces` | `qualified` | the guard compares spellings: `x` and `::x` are two, and callbacks run inside themselves (`cmd_trace.rs` 378 against 88) | `NotInsideItself` |
| | `failure` | an event's callback that fails leaves the rest of the queue for a later command | `NothingLeftQueued` |
| | `deletion` | `namespace delete`, `namespace forget` and the end of an object take commands out of the registry and tell the traces nothing: they stay on the dead name, are not run for the deletion, and the next command of that name has them (`cmd_namespace.rs` 1690 and 1861, `oo.rs` 2925, against the comment at `cmd_trace.rs` 475) | `TracesOfCommands` |
| `Packages` | `forget` | `package forget` of a package being loaded drops its marker, and it loads inside itself | `MarkedWhileLoading` |
| `Namespaces` | `procedure` | `namespace delete` leaves procedures in `State.commands`: from another chunk they still answer (`cmd_namespace.rs` 1690 against 1491 and `BUGS.md` 73) | `TablesAgree` |
| | `original` | imports keep pointing at an original renamed, replaced or deleted | |
| | `ensemble` | an ensemble's namespace and its command are renamed, replaced and deleted without the other | |
| | `nested` | export patterns of namespaces inside the deleted one stay | |
| `Notifier` | `reuse` | storage freed by `Tcl_DeleteEvents` while its handler runs is given to another event, which the loop then takes for the one it serves | `NotInsideItself` |
| `Channels` | `held` | a `\r` held back under `crlf` is lost at the end of the file (`cmd_channel.rs` 760) | `ReadsWhatIsThere` |
| | `invalid` | from an invalid byte on everything is kept until the end of the file (804), though the comment says it is decoded as the replacement | |
| | `wide` | `tell` and `seek` count characters read ahead as bytes (2104); `tell` does not count what was not flushed | |
| | `configure` | what was read ahead stays decoded the old way | |
| | `mixed` | a channel open for both: writes with text read ahead, reads with bytes not flushed | `WritesLandWhereMeant` |
| | `cr` | line buffering with `-translation cr` never finds the end of a line (983 against the comment at 953) | `LeavesInTime` |
| | `reentry` | what a driver's script writes during the flush of `close`, or before a `close` of its own, is lost; the comment says it leaves on the next flush | `WritesLandWhereMeant` |
| `Processes` | `background` | with `&` the text of `<<` is never fed and the pipes to channels are dropped | `Told` |
| | `merge` | `2>@1` and `>&` are for the last command only, and not for the interpreter's own output (686 against 258) | |
| | `status` | of a command that fails and writes no error the answer is the message without the output (827) | |
| | `descriptors` | a pipe that cannot be made leaves the commands started, neither killed nor waited for | `NobodyLeft` |
| `VarProjection` | `overflow` with `eval`, `uplevel`, `apply`, `frame` | those take the slots again by `seed` without the directory, so links to interned names point past them (`runtime.rs` 2851 against 1512) | `LinksStayBound` |
| | `viewcall` | a procedure called by a script in the frame of a body gets that frame's view for the interpreter's variables (1170 against 994) | `GlobalNamesAnswerGlobals` |
| | `spellings` | in such a script a write to `::g` is undone when the view's copy of `g` is stored over it (3029) | `ImplementsScopes` |
| | `computed` | `set $n` with `n` holding `::g` reaches the frame's `g` (`cmd_scope.rs` 793, `runtime.rs` 1496) | `GlobalNamesAnswerGlobals` |
| | `viewuplevel` | `uplevel #0` from such a script runs in the frame (2847) | `ImplementsScopes` |
| | `outward` | `uplevel` to an outer activation makes the view with the calling body's `global` declarations (2862) | |

In the event loop three statements of its comments do not hold, and follow from the batch that `service_one` takes out of
the registry before the first of its scripts runs: `after info` and `after cancel` do not see the others, though the
registry is said to hold every script "that has not yet run" (`cmd_after.rs` 421 against 129); a `vwait` inside that
script may answer `would wait forever` while the others are still to run (465); and a variable changed and changed back
within one pass does not end a wait, where `BUGS.md` 1257 excepts only a write of the value already there.
`ServiceOrder` speaks therefore of the registry and the loop's own batch: with nested loops an `update` inside a script of
the batch runs idle handlers before timers that are due in the outer one.

Also, without a departure of its own: `import -force` over a procedure leaves the procedure answering calls
(`procedure`, above); `namespace forget` does not find an import of an import; and what a driver's script writes to its
own channel in the middle of a flush is held back until the next, though the buffering is `none` or `line`
(`cmd_channel.rs` 656-669, as its comment says, against 955-957; `LeavesInTime` excepts it by `late`).

## 5. Proofs

Proofs need no bound: they hold for any number of names, contexts, regions, registrations, clock values and nesting.

`CoroutineProofs`. No invariant of the driver is inductive alone: what `yield` does to the resumers depends on who has
a name, what a resumption hands over depends on who is parked. `IInv` is the conjunction of the type invariant and four
safety invariants, and every action preserves it. The core is `Linked(R, f, c)`: the set R, linked by f, is a path
from c to the script, said without recursion (everybody's target is in R, nobody points to c, no two share a target,
and no set points only at itself). `PushLinked` and `PopLinked` add and remove the front; resumption is a push, yield,
retirement and propagation a pop, `yieldto` a pop and a push. From `IInv` follow `TypeCorrect`, `ControlReturns`,
`EachRequestAnswered`, `NamesAreLive`, `ParkedIsDetached` (a parked or discarded context has no resumer; stated only as a
theorem) and, as an action property, `DeletedStaysDeleted`.
`ControlReturns` is what justifies the two `expect("a running coroutine has a resumer")` in the code.
`StackIsPromised` is the refinement of `CoroutineStack`. The stack is a function of the contexts by recursion along
`resumer`, which is there only while the resumers make no circle, so the invariant carries that a function with the
equation of the recursion exists (`Leads`). What each step does to it follows from one lemma: a context that nobody goes
back to may get another way back, and the stacks of all others stay (`LeadsPut`). That the functions with the equation
agree along the path, so the one TLA+ chooses is the one carried, is `LeadsOnce`, from `Linked` again.

`EventLoopProofs`. `IInv` is the type invariant, `InOnePlace`, and `WithinLimit`: a loop whose script runs has at most
`Limit` loops below it, without which the bound on the stack in the type invariant is not inductive. `StartsInOrder`
proves `ServiceOrder` and needs `BatchesFirst` as well: everything in any batch is due before or was registered before
everything timed in the registry. The clock and new registrations preserve it, since a new deadline is not before now.

`NamespacesProofs`. `TablesAgree` is nearly inductive: it lacks that a procedure is never entered under an import's own
name (`ProcsAreOwn`), without which `namespace forget`, which takes a name from the registry alone, would leave one
callable. `Registry`, the part about namespaces and where commands are, is inductive by itself and holds with every
departure (`CommandsAreSomewhere`); the rest (`NamesAreCommands`) and the refinement (`TablesAreOne`, each action a step
of `Commands` or a stutter) are for scripts without departures.

`TracesProofs`. A stack of scripts with lists of callbacks between them. `Running` says how the entries may follow one
another, that each list's name is on `active` once, and that the nesting is within the limit; `Typed`, what the
entries hold; `Served`, where in the stack somebody is who will run the queued events. The four theorems need different
things of scripts: `ActiveIsWhatRuns` nothing, `OneNameOneList` that a variable has one spelling, `EventsAreServed` that
callbacks of events do not fail, `NoTraceWithoutCommand` that commands with traces are deleted by `rename` only
(`deletion`), whatever is done to those without. `Limit` is any number, so the limit is not what keeps
callbacks apart.

`PackagesProofs`. `Marked` says that the requests under way for a package are none, or one with the package's marker
being its version; `Finite`, that what is available is finite; `Chosen`, that each request's version met what was
asked. That some version is the best (`BestExists`) is the existence of a maximum of a finite set under the order of
version numbers, by the minimum principle of the well-founded inclusion of finite sets (`WFMin`, which needs no operator as
a parameter); `Compared` proves that the code's comparison, a walk along two lists with missing pieces counted as 0, is the
lexicographic order, `AlikeSatisfyAlike` that versions which compare equal meet the same requirements.

`ProcessesProofs`. `Ends` says who holds which end of which pipe in every phase: a command that runs, its three; a
thread, its own; the interpreter, while it starts commands, those it opened and the next one's input, and none after. It
gives `NobodyIsLeft`, which needs only that descriptors do not run out. `Data` says where everything written is: what
arrived at a captured place, followed by what is in its pipe, is what was written for it (`Flow`); a thread that drains has
gone only if its pipe is empty and nobody holds the other end (`Drained`), the one that feeds only if the text is out or
nobody reads (`Fed`). A reader that gave up its end early would lose what comes after; that none does is where both
invariants meet. `Where` reads the redirections once for all: the place a command's stream is connected to is the place
its words name, or the pipe on the way to it. `AllIsTold` follows for scripts without departures.

`ObjectsProofs`. Most of it is what the operators on tables do: which fields of whose records each changes, and that a
list written by `retain` or `push` still has each member once (`Relisted`). On these rest three invariants, each with
the one before. `Known`: identifiers are in range, lists are of objects there were, the work is well formed, and both ends
of every link agree; it is nearly inductive, since each command changes both ends, but for `class` with a class that is
mixed in as well (`twice`). `Kept` adds `OnceIn`: no two frames delete, and none destroy, one object, those that
delete are about exactly what is in `deleting`, and what a destructor runs for is marked. `Anchored` is for
`NothingIsLeftBehind`, which is far from inductive: when an object goes, nothing may be left that leads to it. `Told` says
where those that lead to a dying object are: before its list is gone through each of them is being deleted, on the list,
or in its destructor on top of it, and after that each is being deleted; that it stays so needs that nobody links to
what is being deleted (`join`), that links lead to classes, whose lists are told (`Classy`), that all the others
hang on what is alive (`Held`), and that lists skip only the roots, which stay and lead nowhere (`Spared`, `Rooted`).
`Acyclic` says without recursion that no set of classes leads upwards only into itself. That raising a class above others
keeps it (`Raised`) is what the check of `set_superclasses` and `set_mixins` is for: were there a set that leads into
itself, its members that have not the raised class among their ancestors would be one already.

`NotifierProofs`. Two invariants. `InTurn` is about the timers and the idle handlers: the timers are sorted by time and
then by age, tokens and generations never pass the counters, and a drain or a pass under way has kept a limit that
whatever was made since lies above. `TimersInTurn` follows. `Links` is about the queue and the loops: the storage that is
not free, followed from `first`, is one path without repetition that ends at `last` and has the mark on it (`OneList`);
each loop that serves an event has an event of its own, whose procedure is out, and the innermost may put it back (`Held`,
`Stacked`); the count of events and what the loops have put aside of it add up to the length of the path (`Counted`); and
the flag of the timers is set exactly while an event that stands for it is armed, of which there is one at most, and
for the flag of each descriptor there is one (`Flagged`). No part is
inductive without the others: whether an event that is unlinked is still there depends on `Held`, what may be put back on
`OneList`, the count on both. `ListInv` is the two with the ranges of the variables (`Ranges`), and gives `ListHolds` and
`NeverInsideItself`; and with it each step is a step of `EventQueue` or a stutter (`QueueImplemented`): `PutsIt`,
`UnlinkDeparts` and `DeletionDeparts` say which, `StepsOfTheQueue` that no other step touches the list. `From`, `Keeping` and `PutAside` are recursive functions; that they exist and what they return is shown
by the least number at which it fails (`Numbers`), since the library's induction cannot be used. The number of events is
any finite number, which in the model bounds the storage.

Assumptions: those on the constants in each module (`CoroutineAssumption`, `EventLoopAssumption`,
`ObjectsAssumption`, `SpacesAssumption`, `TracesAssumption`, `PackagesAssumption`, `ProcessesAssumption`, `EventsAssumption` and the like), which TLC evaluates on
every run; and, where a theorem says so, that `Departures` does not have a word. The words are those of §4: each theorem
excludes the ones the table gives for its property, and no others where a weaker hypothesis does.

Only model-checked: the properties of `Unwind`, `VarProjection` and `Channels`; and liveness (`ErrorSettles`, `LoopsEnd`,
`DestroyedGoes`, `HandlersRun`, `ExecAnswers`), which is beyond the prover. Every safety and action property and every
refinement of the other eight components is a theorem. None of the modules has a RECURSIVE operator, so each can be
proved about; but the regions of `Unwind` and the decoding of `Channels` are folds over operators given as parameters,
and what those return is an induction the library's theorems cannot be used for.

## 6. Not modelled, and the plan

Theorems, in order: `VarProjection` (`LinksStayBound`); `Channels` (`WritesLandWhereMeant`).

Modules, in order:

1. Call chains of objects: filters, mixins, `next`, `unknown`, and a chain under way while its class changes.
2. `ChunkCache`: hit and miss as a refinement of "compile every time", with the key's parts.
3. The exchanges at traced variables (`sync_out`, `sync_in`), composing `Traces` with `VarProjection`; aliases between
   interpreter variables, where a chunk that writes both names has a slot of each.
4. `Preserve` of the Tk host; the event loop of a `tk` build as the composition of `EventLoop` and `Notifier`.
5. The table of channels: standard channels, reference counts, sharing with `exec`.
6. The debugger's sessions; list and dictionary caches.

Left out for good: the translation from text to ops and the text commands, whose correctness is about strings (calendar
arithmetic, regular expressions, `format` and `scan` are pure functions over unbounded text or numbers, and small
instances of them say little that their tests do not); operating system calls; generated code, which is a large part of
`tk/`; and the crates outside the repository (`fusevm`). These are most of the implementation's lines, so the share of
lines the modules stand for is small; the modules cover the parts where state outlives a command or a script runs in the
middle of one.
