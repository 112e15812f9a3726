# TLA+ for Wyn

Wyn is a language whose compiler, written in C, translates a program to C and
links it with a runtime. This directory holds TLA+ modules of the parts where
interleavings, failures and long call sequences decide whether the system is
correct: spawned functions and their channels, shared objects and weak
references, the module loader, names and overloads in the type checker, the
package manager and the runtime's hash map. TLC checks them on small instances;
TLAPS checks proofs about each of them for all instances. Paths below are
those of the repository.

## The system

A program's imported modules are loaded first (`module.c`, `module_registry.c`).
It then goes through `lexer.c`, `parser.c`, `checker.c` (types, overloads,
generics; it loads imports once more), the tree passes
and `codegen.c`. The generated C file is compiled with the runtime library:
`spawn.c` (spawned functions and channels), `async_runtime.c` (await),
`arc_runtime.c` (reference counting), hash maps, strings, I/O, networking. Beside
what generated programs use, the repository keeps libraries that only its own
tests link: `async.c` (executor and futures), `threading.c`, `arc_operations.c`,
`weak_references.c`, `cycle_detection.c`, `memory_pool.c`; a package manager
(`package.c`, `registry.c`, `semver.c`), and tools (`lsp.c`, `cmd_*.c`).

| component | state | operations | what must hold | where it is hard |
|---|---|---|---|---|
| spawn scheduler, `spawn.c` 72-239 | a list and a lock per worker, `running`, a ticket counter, thread handles | init, start, enqueue, worker loop with stealing, shutdown | each spawn runs once, none is stuck in a queue nobody serves, nothing is used after shutdown frees it | workers, main and nested spawns interleave; workers look for their handle while it is being stored; counter wraps; nothing waits for spawns |
| node pools, `spawn.c` 25-69 | an array and an atomic count per worker index | alloc, free | a node belongs to one spawn at a time, indexes stay in the array | count and slot are two variables; threads allocate from pools of others |
| task channel, `spawn.c` 242-318 | ring, size, two positions, closed, mutex, two condition variables | new, send, recv, close, free | bounded FIFO, no lost wakeup, close releases everyone | one signal per operation, overtaking, spurious wakeups, close with sleepers |
| executor, `async.c` | task queue, task states, wakers with counts, futures with states | spawn, worker loop, poll, wake, block_on, shutdown, combinators | one poller per task, each task freed once, all tasks polled again | wakers outlive tasks; ids without a lock; combinators re-poll |
| await runtime, `async_runtime.c` | state and value of a future | new, ready, poll, block_on | the value is read after it is stored, a future is freed once | two plain fields, polling, freeing await |
| threading, `threading.c` | channel buffer, closed, locks | send, try_send, recv, try_recv, close, free | FIFO, close releases | free does not wait for those it wakes |
| reference counting, `arc_operations.c`, `arc_runtime.c` | count with flag bits, type, size | alloc, two kinds of retain and release, move, batch | deallocated once, at the last release | fast path, slow path and plain calls race; retain of a dying object |
| weak references, `weak_references.c` | registry chain per object | create, access, promote, destroy, nullify, cleanup | no access after deallocation | promotion against release; unlinking |
| cycle detection, `cycle_detection.c` | candidates, colours, trial counts | add, detect, collect | only garbage is collected | duplicates, interleaved mutation |
| memory pools, `memory_pool.c` | size classes with free lists | alloc, free, cleanup | no block handed out twice | cleanup with blocks in use |
| string memory, `string_memory.c` | interning table, counts | intern, assign, concat | equal strings share, counts match references | full table, self-assignment |
| module loader, `module.c`, `module_registry.c`, callers in `main.c` and `checker.c`, `parser.c` 54-64 | loading stack, registry, current path, saved parser states | load, preload, resolve, check | each module that parses and fits into the registry is parsed once, cycles are reported, parsing resumes where it stopped | recursion with bounded tables, a global path, a second loading during the check |
| package manager, `package.c`, `registry.c`, `semver.c` | registry file, directories, manifests | register, install with dependencies, remove | dependencies present, versions match, nothing forgotten | failure half way, torn files, recursion on cycles, two version matchers |
| collections, `hashmap.c`, `hashset.c`, `collections.c` | buckets of chains | insert, get, remove, iterate | behaves as a function or set | overwriting values of another type |
| scopes, checker, generics, traits, patterns | symbol chains, overload lists, instance lists | declare, look up, choose, instantiate | lookup finds the innermost, instances are made once | worklists, bounded tables |
| compiler memory, `memory.c` | ownership of tree nodes, cleanup stack | free_expr, free_stmt, cleanup | each node freed once | shared subtrees, full stack |
| lexer, parser, code generator, LLVM back end, strings, regex, JSON, TOML, net, I/O, LSP, tools | positions, buffers, operating system state | | | text to text, or calls into a library |

The parts meet at few points: generated code calls `wyn_spawn` (from
`codegen.c` 4663-4690) and never `wyn_scheduler_shutdown`; a scheduler's worker
runs the spawned function, which may spawn again and call the channel; enqueue
takes its node from the pool of the *target* worker and the worker gives it back
to the pool of the index it believes to be its own; the loader runs once before
the checker and once more inside it; deallocation of an object calls into the
registry of weak references; the code generator relies on the overload and the
scopes that the checker found. `PROJECT.json` lists every component with its
files and status, and every hazard with its line.

## Modules

| module | what it is |
|---|---|
| `BoundedFifo` | what a channel promises, whatever it is made of |
| `TaskChannel` | `WynTask`: ring, mutex, condition variables |
| `MCTaskChannel` | its instances for TLC |
| `TaskChannelProofs` | its invariants and refinement, proved |
| `SpawnScheduler` | start-up, enqueue, worker loop, stealing, shutdown, process exit |
| `SpawnSchedulerProofs` | its invariants, proved |
| `SpawnPool` | one pool of spawn nodes |
| `MCSpawnPool` | its instances for TLC |
| `SpawnPoolProofs` | how far its count drifts, and that one thread loses no node, proved |
| `ModuleLoader` | how the compiler finds, loads and checks the modules of a program |
| `MCModuleLoader` | the import graphs for TLC |
| `ModuleLoaderProofs` | its invariants, proved |
| `Objects` | reference counted objects shared by threads, and weak references to them |
| `MCObjects` | its instance for TLC |
| `ObjectsProofs` | its invariants, proved |
| `Semver` | version requirements, as two files decide them |
| `PackageManager` | `wyn install` and removal, over a file and directories that outlive the command |
| `MCPackageManager` | the packages for TLC |
| `PackageManagerProofs` | its registry, circles of dependencies, what is found and what is complete, and that the matchers of versions agree, proved |
| `TypeChecker` | symbol tables, overloads and scopes, and what the generated C sees |
| `MCTypeChecker` | its names and expressions for TLC |
| `TypeCheckerProofs` | its invariants, proved |
| `KeyedMap` | what a map promises, however it is laid out |
| `RobinHoodMap` | the open-addressing map of `collections.c`, which implements it |
| `MCRobinHoodMap` | its keys and hashes for TLC |
| `RobinHoodMapProofs` | its invariants and refinement, proved |

### TaskChannel

The variables `buffer`, `size`, `read_pos`, `write_pos`, `closed` are the fields
of `WynTask`. The mutex is implicit: everything a call does from taking the mutex
to releasing it, or to sleeping, is one action, because every field is accessed
under it. `not_full` and `not_empty` are the sets of threads asleep on the
condition variables; a thread in a call (`call`) that is in neither contends for
the mutex. A thread that was signalled competes with late callers and evaluates
its `while` again, which is how the code is written. `Signalled` wakes any one
sleeper, `SpuriousWakeup` is what POSIX allows.

`BoundedFifo` has one variable for the values and one action per effect.
`TaskChannel` maps `queue` to `Contents`, the values in the ring from `read_pos`
on; `SendWait`, `RecvWait` and `SpuriousWakeup` are stuttering steps of it. So a
send or receive takes effect at one moment between call and return, and the
values come out in order, once each, even with several threads on both ends.

Fairness is weak fairness of each thread's critical section: whoever contends
for the mutex gets it sooner or later. Nothing in the sections blocks. Nobody is
obliged to call. Under it a receiver that sees a value is served unless other
receivers empty the channel again; nothing stronger holds, a mutex does not
queue.

A capacity of 0 is in the proofs and out of the runs: `Slots` is then empty, no
send is ever stored, and only close ends a send.

### SpawnScheduler

The main thread (`Main`) is next to the workers `0 .. N-1`. `CreateWorker` and
`StoreHandle` are the two halves of `pthread_create`: the thread may run before
its handle is in `workers[]`, and `FindId` then leaves its index at 0. `TakeTicket`
is enqueue up to the lock, `Push` the section under the lock. The worker loop
is cut at its locks: `Loop` reads `running`, `PopOwn` and `OwnEmpty` are the
section on the own queue, `Steal` and `StealEmpty` one queue of the round. The
function that a spawn runs may itself spawn (`RunsProgram`); `Finish` is its
return. `Shutdown`, `JoinWorker`, `FreeScheduler` are the shutdown, `ExitProcess`
the return of main without it, which is what generated programs do. The backoff
(spin, yield, sleep) only passes time and is not state.

A handle that is not stored yet is uninitialised memory in the code; the model
takes it to be different from the worker's own handle, which a fresh block is.
What a negative queue index does is undefined; `Push` has no step for it.

Fairness: every created thread takes its next step, `pthread_create` and
`pthread_join` go on, and a spawned function returns. There is none for
`TakeTicket`, `Shutdown` and `ExitProcess`, which are the program's choice.
`EveryTaskRuns` therefore holds up to a shutdown or exit only. That everything
has run when main returns (`AllRunAtExit`) is false: nothing waits for spawns.

### SpawnPool

One pool, with the threads that take from it (they enqueue for its worker) and
those that give back (they run under its index). Every access to `count` or to a
slot is a step, the accesses being atomic (`count`) or unsynchronised (slots).
A thread may be in both sets; which program it is, is chosen once (`program`). The
heap supplies nodes from the finite set `Nodes`. A node may be in use for two
spawns at once, `out` counts them. A second thread that spawns comes from a
spawned function that spawns. With two of them the count falls below 0, and the
next `free_spawn` stores before the array, where `FreeStore` has no step:
`IndexInBounds` is therefore a promise to programs that spawn from one thread.

### ModuleLoader

`phase` follows `main.c` 733-750: the imports of the program are preloaded, then
`check_all_modules` checks the registered modules (`unit` of `count`), then the
program is checked. Each phase goes through the imports of one text: `next` is
the place in it. `preload_imports` and `load_module` call each other; the
sequence `calls` is that recursion, one record per `load_module` that waits for
its imports: the module, its own place (`p` of `preload_imports`) and
`saved_module_path`. So a step is one call of `load_module` up to its recursion
(`LoadKnown`, `LoadCircular`, `LoadMissing`, `LoadOpen`), or its rest (`LoadFinish`).
`loading_stack`, `registry` and `path` are the globals; they are kept beside
`calls` because the code's answers come from them and not from the recursion. `parsed`
is history: how often each text was parsed. A module that `parse_program` gives up on is
not registered, and one that does not fit is dropped; both are read and parsed again by
whatever imports them, and in the check once more.

A module's name is a pair of its directory and its base name. The search path is
reduced to the set of modules that have a file; `root::` names a module like any
other. An import is plain, `self::` or selective (`import { f } from m`). The scan of
the preloading goes past a selective import (`SkipSelective`), since no name follows
the word; the checker loads it (`Scanning`, `Named`). A module that is not in the
registry is looked for under a second name, with each `_` read as `/` (`Slashed`):
once `d/b` is loaded, `d_b` counts as loaded too, and is not. `NamesDiffer` excludes
such pairs from the two properties that they break. What is not in the model: the scan also sees the word
in comments and strings, and stops at a digit in a name.

Fairness: the compiler is one thread and goes on.

### Objects

An object has a count with a magic number beside it (`count`, `magic`); `held`
says which thread owns how many references, which the code does not store. There are
two kinds of retain and release for the same objects. The checked ones of `arc_operations.c`
are cut where other threads can come in between: the check of the
magic number, the read of the count, the compare-and-exchange (`Check`, `Load`,
`RetainSwap`, `ReleaseSwap`, `SwapFails`). The plain ones of `arc_runtime.c` 34-44, which
`string_memory.c` and compiled programs call, add or subtract atomically (`PlainRetain`,
`PlainRelease`). A release that leaves 0 ends the object. A checked one calls
`wyn_arc_deallocate`, which is declared and called but which no file
defines; it is marked external and does what its callers' comments say:
perhaps clear the magic number, nullify the weak references, free. A plain one runs
the destructor and frees: it looks at no magic number and nullifies nothing.

A weak reference is a node of a doubly linked chain (`ref`, `head`), the registry
has one lock and each weak reference another. All objects hash to one bucket, the
case in which chains mix. `Walk` looks at one node per step under the registry's lock and
`NullifyOne` nullifies it under its own, while other threads promote (`Promote`, then a
retain) or destroy theirs. Addresses of freed objects and weak references are used again.

Three single steps break the guarantees and are remembered in history variables:

- `revived`: a promotion raised a count from 0 (the check and the retain of
  `wyn_weak_promote` are two steps);
- `leftLinked`: a weak reference was freed while it is still in the chain
  (`wyn_weak_destroy` of a nullified one);
- `silent`: `wyn_arc_release` ended an object that had a weak reference, which now
  outlives its target.

A behaviour that touches freed memory stops with `state = "misuse"`. The properties say
that nothing else goes wrong: without the first, counts are holders and one
thread deallocates, whichever of the two kinds of release is the last; without any of them,
weak references end before their targets and no freed memory is touched.

Abstracted: the walk reads `target` without the lock that `wyn_weak_destroy` writes it under,
which C calls a data race; the model reads the old or the new value. Counts near 2^31,
where `wyn_arc_retain` has no check and the checked retain has one, are not reached, nor the
flag bits of a count.

### PackageManager and Semver

A command (`wyn install`, or a call of `package_remove`) is a process: it loads
the registry file into `mem`, works and ends. `file` and `dirs` stay. `calls` is the recursion of
`install_package_internal`, whose first element is the loop of `package_install` over
the project's dependencies. Steps are cut where a command can be killed with
something done: a copy starts (`StartCopy`: the directory exists), ends (`CopyDone`) or
fails (`CopyFails`), the file is written (`Save`). `Crash` ends the command
anywhere. `disturbed` remembers that something failed or was killed.

The registry file fails in the ways the code does not look at. `fopen(..., "w")` empties it,
and the results of `fprintf` and `fclose` are ignored: a save on a full disk and a save that
is killed leave a member of `Written`, a beginning of the file. Its last line may be torn; one
that ends in its path is read as an entry all the same. A file that does not open for reading
is an empty registry (`StartInstall`, `unread`), and the next save overwrites what is in it.

`package_remove` removes the path it has read, whatever it is. A path is modelled by what
removing it removes (`Path`): the package of its name; if it was cut short, a package whose
name its name begins with, all packages, the directory above with the registry in it, or
nothing (`CutPaths`). `rm -rf` may leave all, a part or nothing of each (`Delete`). `struck`
remembers what else than the named package was in such a path. A path that is cut a second time
is taken for a cut of the whole path; one that ends above `~/.wyn` removes what cutting it
there does, of what the model has.

The text of a dependency is both where to get a package and which version of it
is wanted, so that a requirement is an address or path, a bare version or a range. Long
addresses are cut in the registry's `version[32]` and never match again (`StoredReq`).
`Satisfies` gives the *set* of answers of `version_satisfies`, because it reads
versions with `sscanf` into uninitialised variables: a missing part is anything.

`Semver` has both matchers. `FoundAsSemver` relates them where the manager uses them.

Fairness: a command that was started goes on, or is killed. Nobody has to start one.
The model runs one command at a time: the code has no lock, and of two commands the
later to write wins.

### TypeChecker

`check_program` goes over a program three times (`pass`). The program is not given
first: the actions choose the next declaration or statement, so a behaviour is a
program together with its check. `tables` are the symbol tables, innermost last;
`add_function_overload` adds to the chain of the global symbol, an exported function
becomes a symbol of its own (`ExportFunction`); `Call` is the choice among
overloads and the validation of the chosen one. A variable has the type of its
annotation or the one that `type_inference.c` finds (`Inferred`), which of an operator's result
looks at the operator and at literals only; so it differs from what the checker finds for
the same expression (`KindOf`): the sum of two strings is inferred to be an int. A function
without a return type has what it returns looked at before its body (`EnterFunction`), so
that returning a local variable of it is an error.

Beside it, `visible` holds the names in the scopes that the generated C opens, and
`definitions` the C functions defined, which `codegen.c` decides by other rules than the
checker. `ScopesAgree` and `CalledIsDefined` relate the two. A block or loop is a scope in C
and none in the checker, a function or catch clause is one in both: `ScopesAgree` says that
whatever C sees the checker finds, and in a table that belongs to the scope of the
declaration or to one inside it, so never in an outer one.

The C types of variables are not in the model. The generator chooses them again, by rules of
its own: a for-in variable whose name begins with `name`, `str` or `text` is a `const char*` and
an int otherwise, that of a counted for always an int, another variable by the
form of its initializer (`var y = s` is an int whatever `s` is). They do agree with the
checker's for some programs only, as two looks at the source show; see the hazards.

Expressions are literals, names and binary operators over them. Left out: methods,
structs' fields, enums' cases, generics, and variables that hold functions. Statements outside
functions are the body of C's `main`; the functions of the model see what they declare, which
only asks more of the checker. A call of an overload with an argument of unknown type
dereferences NULL (`crashed`).

### KeyedMap and RobinHoodMap

`KeyedMap` is the abstract map: a call is invoked, takes effect once, returns.
`RobinHoodMap` has one step per turn of each loop: probing with `Steal` (the entry
further from home takes the bucket) and `Pass`, lookups that stop at an entry nearer
to its home, `Shift` after a removal, `Rehash` while the table doubles, and an
iterator. Its `Contents` are the entries in the table, those of the old
table still to be moved, and the one carried from bucket to bucket: with that
mapping each insertion takes effect at its first placing.

Allocations may fail as `Failures` says, but for those of the two buffers with which an
insertion exchanges entries (`collections.c` 533-534): their results are not looked at, and the
program crashes in the call, of which nothing is claimed then. A capacity of 0, which
`wyn_hashmap_with_capacity` takes and with which a home bucket is a remainder by 0, is excluded
by `HashAssumption`. The failure to allocate an entry again
while the table grows (`"rehash"`) is in the model and out of the run: the code
does not look at the result, the entry is lost, and `ImplementsMap` fails.

Fairness: a call that was begun takes its steps.

## Runs

| run | instance | shows |
|---|---|---|
| `channel` | 3 threads, 2 values, capacity 2 | ring, wakeups, refinement of `BoundedFifo`; service of receivers and senders, release by close |
| `scheduler_safety` | 3 workers, 4 spawns | each spawn is run once at most; quiet shutdown |
| `scheduler_liveness` | 3 workers, 3 spawns | up to shutdown each spawn is eventually run; shutdown ends |
| `pool` | 1 or 2 allocators, 1 or 2 freers, or one thread for both; 2 slots, 4 nodes | the sequential pool keeps account of every node, no store outside the array with one allocator, the drift of the count is bounded |
| `pool_own_node` | 1 and 1 | **fails**: a slot is read before its node is stored |
| `loader` | 5 modules, one of which reads as another: all import lists of up to 2 out of 5 or 4 for two of them, 3 for a third | what is parsed again (unparsed or dropped modules only), the order of need, nothing left out, cycles reported, `self::`, an end |
| `loader_check` | the same | **fails**: a selectively imported module is loaded and not checked |
| `packages` | 3 packages, 2 of them in a circle, one of whose names begins with another's; 3 sources, one with a long address; a registry of 2 | an undisturbed installation is complete; whatever fails, is torn or is killed, what is registered has a directory unless it was removed, and the file forgets entries in four ways only; every command ends |
| `checker` | 2 names (`f` and `f` mangled for an int), 4 types, 1 parameter, 2 global symbols, 4 scopes | overloads stay distinct, the exact one wins, what C sees the checker finds |
| `checker_calls` | the same, 2 scopes | **fails**: a call of an overload is emitted under a name nothing defines |
| `maps` | 5 keys, 2 values, a table from 2 to 8 buckets, failing allocations | refinement of `KeyedMap`, probe order, complete iterations, an end of every call |
| `objects` | 2 threads, 2 objects in one bucket, 2 weak references, symmetric | counts are holders, one thread deallocates, weak references end first, misuse has one of three causes |

The bounds. Three threads on a channel are the least in which one sleeps, one is
on its way and one overtakes it; two slots make the positions wrap apart from
each other. Three workers make a round of stealing visit two queues, so that it
can miss one; two workers that both took index 0 leave a queue without an owner;
with four spawns one is dealt to a queue that already holds another, and with the
three of the liveness run one is run while another waits and the third is being
pushed. A spawn that spawns twice is among both. `MaxSpawns` bounds the program, not
the scheduler; `EveryTaskRuns` depends on the program's making finitely many spawns,
because the queues are LIFO and later spawns overtake earlier ones. Four nodes
fill two slots with two left in use. `CHECK_DEADLOCK FALSE` stands where the
program may end (exit, freed scheduler, crash of the compiler, its end).

For the loader, three modules are the least with a circle that does not go
through the module that enters it; the fourth, `d/b`, is there to be mistaken for `b`,
the fifth, `d_b`, for `d/b`. Two imports per module let one follow a nested load. A
stack of five is long enough for five modules, as 32 is for most programs; a
registry of four drops the last of five. `CallDepth` bounds the recursion and is
above the number of modules, so that it is not what ends it.

For the packages, a registry of two with three packages is full while a circle
is still being installed, so a package has a directory and no entry. The numbers of
versions are 0 and 1, which tell all cases of two triples apart. Commands are repeated without bound; what
comes after the removal of a second name is not explored (`CONSTRAINT Explored`), one removal
being enough to strike another package, nor what comes after the removal of `~/.wyn` by a
path cut short, after which `RegisteredHasDirectory` claims nothing of any name: what the other
properties say there rests on their theorems. For the checker, an overload set of
two, one name that is the mangled form of the other, one variadic extern function beside
the exact signatures are what the rules tell apart; four scopes are the global one, a function, and a catch
clause and a loop or branch, either inside the other. For the map, five keys make a table of two grow twice; two
of them have the same home in each table, a third shares it in the smaller ones, and one is
at home in the last bucket, so that probes wrap.

`objects` does not explore what follows a revival (`CONSTRAINT Explored`): all its
properties claim nothing once `revived` is TRUE, and it stays TRUE, so no
violation is hidden. Nor does it explore what follows once `leftLinked` is TRUE, where only the
counts are still claimed: for that the theorems stand alone. Two weak references are the least that a removal or a
walk can find linked to each other; two objects let a chain hold weak references
of both. Each thread owns up to two references to an object, so a retain by one
meets a release by the other with the count above 1.

The failing runs are the findings in `PROJECT.json`, each with the line of
documentation or comment it contradicts.

Five more statements are false and have no run: each is written out in its module, and
TLC finds a counterexample when it is put in a configuration as an invariant. Three of them
are told by the repository too; what the code does instead can be read off one place in it, and the
runs are kept for what cannot.

- `AllRunAtExit` (`SpawnScheduler`): main may return with spawns queued;
  `examples/test_spawn_memory.wyn` 24 expects that all 1000 have run.
- `SelfIsCurrentDirectory` (`ModuleLoader`): during the check `self::` means the root,
  since `check_program` loads with an empty path; `docs/modules.md` 106 has it mean the
  current directory.
- `PreloadComplete` and `CyclesReported` (`ModuleLoader`) without `NamesDiffer`: `d_b` is
  taken for `d/b`, and neither it nor what it imports is loaded.
- `RecursionBounded` (`ModuleLoader`) with `StackSize = 1`: a circle entered with the stack
  full is not seen.
- `AllInstalled` (`PackageManager`): after an installation that failed or was killed,
  a later one that ends with "All packages installed successfully" (`package.c` 372) may have
  found a half-copied directory, or skipped what a registered package needs.

## Proofs

All proofs are for every value of the constants under the `ASSUME` of the module
(a positive number of workers; a finite set of threads; `NULL` is not a value, a
thread, an object or a weak reference; a thread may hold a reference; what marks a call
without a reply is no value; a manifest is a finite list of dependencies on packages
that have names, and the registry file is none of them; the checker's kinds hold int, float,
bool and string; a program's imports are a finite list). Where a theorem needs more,
its statement says so: `StackSuffices` of the loader, no failure of kind `"rehash"` in the
refinement of the map.

Data whose size is not fixed is reasoned about without induction over it. A list
that is changed in the middle has a rank for each member as a witness of its order;
reachability is membership in the least closed set; the least element of a set of
numbers exists because `<` on `Nat` is well-founded; sums and sizes are cardinalities of
sets of pairs, one member of which comes or goes in a step.

`TaskChannelProofs`. The inductive invariant is type correctness, the ring
(`write_pos` is `size` places after `read_pos`), who sleeps where, and the count
of threads on their way. The count is why one signal suffices: a value stored
adds one to `size` and one receiver to those on their way; a receiver that goes to
sleep has seen `size = 0`. From the ring follows what a store and a take do
to `Contents`, and with it that every step is a step of `BoundedFifo`
(`FifoCorrect`) or a stutter.

`SpawnSchedulerProofs`. `OnePlace` and `ExactlyOnce` are not inductive alone: a new
ticket must name a spawn nobody has (`Tracked`), a worker must hold a spawn just
while it runs one and enqueue only then, workers that were joined must have
exited, and workers not created must not move (`Control`). Each action moves at most
one spawn between ticket, queue and hand; the lemmas `PlacedTakeTicket`,
`PlacedPush`, `PlacedPop`, `PlacedFinish` say which. `FreedWhenQuiet` follows from
`Control`. They hold for any width of int: a spawn that is dealt to an index outside
the queues, as the ones after the wrap of the counter are, stops there in the model.

`SpawnPoolProofs`. The bounds on the count hold because each thread between the test
and the move of the count will move it once: the count less the threads at
`alloc_sub` is at least one less than the threads that spawn below 0, and
likewise above (`Drift`). With one spawning thread the lower bound is 0, and
every index that `free_spawn` stores at is in the array.

`NodesCorrect` is about a pool that one thread uses (`Alone`), where `EachNodeOnce` says
something. `Sequential` says how the count and the index that the thread has read
go together between its steps; `Owned`, that each node that malloc has supplied is in one
place: out in a spawn, in a slot below `Filled`, or carried by the call. Taking from
the last slot, giving back, malloc and free each move one node between two of these
places (`OwnedMalloc` and the lemmas after it). The slot above `Filled` holds an old
pointer after a take, and the one below it nothing yet between the count and the store
of a `free_spawn`: which is why more than one thread breaks it.

`ModuleLoaderProofs`. That the loader never has a module twice in its registry or in its recursion needs that the stack is
the list of waiting calls, and that they wait for different modules
(`CallsDiffer`); a module that does not wait is then pushed onto a stack without
repetitions that lacks it, so there is room if the stack is as long as there are
modules (`Room`, by `Pigeons`). That hypothesis, `StackSuffices`, is in the
statements: without it they are false: with a stack of one a circle can go unseen. With it the
recursion is bounded for every import graph, also for one that goes in circles. A module
that ends its call therefore was not registered while it waited; with `ParsedInv`, that
whatever was parsed and is not registered is no good or found the registry full, it
follows that what is registered was parsed once (`ParsedOnceCorrect`). `TypeCorrect`
needs no hypothesis.

The theorems about what depends on what are about the graph `Edges` of the modules that
have a file, and about `Gone`: the pairs of a waiting call and a module that it has
already asked for, where call 0 is the program. One step adds at most one such pair
(`GoneStep`), and a call that ends has asked for all its module needs (`GoneFinish`).
For `DependenciesFirst`: each waiting call's module leads to the next (`Chain`), what was
asked for is loading or will not be registered any more (`Settled`), so what a registered
module needs is either behind it or leads back to it (`Ordered`, `InOrder`). An import
of a loading module is therefore a circle (`BackEdge`), which is the first half of
`CyclesReported`. The second half: while nothing is reported, all that was gone through
leads into no circle (`Clean`, `CleanInv`); a module whose imports are clean is
clean (`CleanUp`). For `PreloadComplete`: some set of modules, those gone through, holds the
registry and what did not parse, and is closed but for what is loading (`Through`). When no
call waits, it is closed and holds what the program names, so it holds all that can
be reached. That set is not a variable of the code, since a module that did not parse
leaves no trace: the invariant says that one exists.

`ObjectsProofs`. The count of an object is the cardinality of its references, which are
pairs of a thread and a number (`Counted`), so that a retain adds one pair and a release
takes one away. What makes it inductive is what each call has read and still holds
(`CallsHold`): who retains or releases holds a reference of its own, a compare-and-exchange
succeeds only on the count as it is, and the plain calls are one step, so exactly one release
leaves 0, of either kind. That a thread may
promote between the last release and the end of its deallocation is the one way out
(`revived`). The weak references in the chain are ordered by a rank (`Ranked`); the walk has
passed whatever is ranked above the reference it stands at, and nobody above it still
refers to the object (`Passed`): a reference unlinked by another thread takes nothing from
that, and a new one cannot appear, because its maker would hold a reference to an object
that has none. A thread that frees after a plain release has walked nothing: that no weak
reference is left when it frees is what `silent` says for the step in which it released. `MisuseHasCause` follows from a case
for each access (`StrongCause`, `DeallocateCause`, `WeakCause`).

`PackageManagerProofs` begins with the matchers: `Compare` orders triples
lexicographically; from that they agree operator by operator (`MatchersAgreeCorrect`). The
arithmetic is linear and the cases are the three positions at which two versions may
differ first. The inductive invariant of the manager has a part on types, one on the
registry and one on calls. For `RegisteredHasDirectory` one must know where a
directory may vanish. In a copy that fails, and that copy is of a name which is in
no entry (`CopyIsUnregistered`), because copies start only where there is no
directory; or in a removal, of the name or of what else its path holds, and then the name is
`Taken` from there on. A path holds anything else only after a save that was cut short, which
`disturbed` remembers (`PathsWhole`); what a torn line still holds is known by its name and
requirement, which are whole (`WrittenKnown`). For `NoCircle`: every waiting call has a directory, so a call that begins,
which follows a copy and so followed the absence of a directory, is for another name.
`ForgetsCorrect` follows entry by entry from what the running command holds being
the file and what it appended (`NothingForgotten`), unless the command could not read the file. `FoundCorrect` rests on `MatchersAgreeCorrect`.

For `CompleteCorrect`: while nothing disturbs, a whole package lacks a dependency
only as long as a call is at work on it (`WholeClosed`). That is inductive together with
what the calls are: each reads the manifest of its package, what it has gone past is
whole, what it is at is the next call (`CallsRead`, `TriedWhole`, `CallsNested`). When
the last call returns, the whole packages are closed under need and hold what the
project names, so `Needed`, the least such set, is among them. No induction over the
graph of packages is used, and circles are no special case.

`TypeCheckerProofs`. The score of an overload is ten for each argument of exactly the
parameter's type and five for one that is converted, so the overload with the argument's types scores
highest, and the search keeps the first of the highest (`BestIsChosen`). It is the only such one
because the chain has no two of the same parameters (`Distinct`). For that the addition has
to reach the right chain: until bodies are checked there is one table (`pass < 2`). The
tables and the scopes of the generated C are compared by a climbing map from scopes to
tables (`Aligned`), which takes a scope to the table `TableOf` counts to: a function and a catch
clause have a table of their own, every other block a scope only. The names of a scope are in
its table. A lookup goes to the last table that has the name, so it ends there or further
in. Opening and closing a scope with or without a table keeps the map, whatever was declared
in between; that a value without a type is declared on neither side is `Valued`.

`RobinHoodMapProofs`. The first half is about a table and a probe alone. `Rows`: each
entry is as far from its home as it says, and keys are different. `Paths`: on the way
to an entry there are entries at least as far from theirs. `Walked`: what a probe has seen.
A removal makes a hole in `Paths` that moves up with each shift until the next entry is at
home or a bucket is free. From these a lookup may stop where the code stops, and an
insertion may displace. In the second half the same is said of the variables, with what
remains in the old table while it doubles: at most half of the new one is used, so there
is a free bucket, and a probe that was around the table would have met it (`ProbesEnd`; the
loop in the code has no bound of its own). For `MapCorrect`, `Contents` is a dictionary
whose pairs are those in the table, in the old table and the one carried (`Pairs`); each step
adds, replaces or removes a pair as `KeyedMap` says, or none. `"rehash"` is excluded: the
code drops an entry that fails to be moved, and the theorem is false with it.

Lemmas and invariants that no run has, as `TypeCorrect` of most modules, `SleepersWait` of
the channel and `OnePlace` of the scheduler, are parts of what the runs check or follow
from the refinement.

Only model-checked: liveness and what rests on fairness (`EveryTaskRuns`, `ShutdownCompletes`,
`ReceiverServed`, `SenderServed`, `CloseReleases`, `LoadingEnds`, `CommandsEnd`, `CallsReturn`),
which is out of the prover's reach. Every invariant and every action property of the passing
runs is stated by a theorem.

## Not modelled

Of the C files most lines are text: `lexer.c` is 320 lines of scanner and 13000 of
comment; parser and code generator go from text to tree and from tree to text, one
production at a time, and a model of them would be a copy. What they decide
across productions is in `ModuleLoader` and `TypeChecker`.

- LLVM back end, networking, I/O, JSON, TOML, regex, Unicode, strings, the language
  server and tools: calls of a library or functions of text.
- `async.c`, `threading.c`, `scope.c`: linked by no target of the Makefile.
  `async_runtime.c`: a future is complete before the generated function returns
  it, so an await never waits.
- `cycle_detection.c`: a simulation by its own comments, which frees nothing.
  `memory_pool.c`: locked free lists; the magic number it writes into objects is not
  the one `wyn_arc_is_valid` expects, so no object of it can be retained.
- `string_memory.c`: the assignment that releases before it retains is wrong in one
  call, without interleaving; see the hazards.
- `hashmap.c`, `hashset.c`: chains without resizing; inserting and removing are
  each a walk over one list. `WynVec`: an array.
- Generics, traits, patterns, closures, the optimizer, escape analysis: passes over a
  tree or searches of a table, each a function of its input; the last ones
  no build of the compiler runs.
- Two package commands at a time, the initialization race of the weak registry, a
  counter at 2^31: named in the hazards with the reason.

## What is left

A composition of `SpawnPool` and `SpawnScheduler` in which a node used twice corrupts a
list; a theorem that relates the names that the C generator calls and defines under the
conditions in which they agree; `CommandsEnd` and `LoadingEnds` by a measure that each
step lowers, whose lowering alone could be proved.
