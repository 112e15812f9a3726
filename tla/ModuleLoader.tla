--------------------------- MODULE ModuleLoader ---------------------------
(***************************************************************************)
(* How the compiler finds the modules of a program (src/module.c,          *)
(* src/module_registry.c, and their callers in src/main.c and              *)
(* src/checker.c).  The program's text is scanned for imports; each module *)
(* is loaded by scanning its own imports first, then parsing it, then      *)
(* registering it.  The modules registered by then are checked in that     *)
(* order, then the program is; a check loads the imports of what it checks *)
(* once more.                                                              *)
(*                                                                         *)
(* A module is named by its directory and its base name.  The recursion of *)
(* load_module through preload_imports is the sequence calls.              *)
(***************************************************************************)
EXTENDS Integers, Sequences, SequencesExt, FiniteSets

CONSTANTS
  Names,         \* names of modules: pairs of a directory and a base name
  Projects,      \* the programs to compile, see Project
  Slashed(_),    \* a name with every _ in it read as /
  StackSize,     \* the length of loading_stack
  RegistrySize,  \* the length of global_module_registry.modules
  CallDepth      \* bound: how deep the recursion fits into the C stack

(* import d.b, import self::b, import { f } from d.b                       *)
Requests == [self : BOOLEAN, name : Names, selective : BOOLEAN]

(* A program: what it imports, the modules that have a readable file, what *)
(* each of these imports, and those that parse_program gives up on.        *)
Project == [program  : Seq(Requests),
            exists   : SUBSET Names,
            imports  : [Names -> Seq(Requests)],
            unparsed : SUBSET Names]

ASSUME LoaderAssumption ==
  /\ IsFiniteSet(Names)
  /\ Projects \subseteq Project
  /\ \A m \in Names : Slashed(m) \in Names
  /\ StackSize \in Nat /\ RegistrySize \in Nat /\ CallDepth \in Nat

VARIABLES
  project,        \* the program that is compiled, chosen once
  phase,          \* preload, then modules and main (both checks), then done
  unit, count,    \* check_all_modules: the module it checks, the loop's bound
  next,           \* the next import of the text that phase goes through
  calls,          \* load_module calls that wait for their imports
  loading_stack,
  registry,       \* names of the registered modules, in order
  path,           \* current_module_path
  reported,       \* modules named last in a circular import error
  parsed          \* history: how often the text of each module was parsed

driver == <<phase, unit, count>>
vars   == <<project, driver, next, calls, loading_stack, registry, path, reported, parsed>>

NoPath == <<"", "">>

Init ==
  /\ project \in Projects
  /\ phase = "preload" /\ unit = 0 /\ count = 0 /\ next = 1
  /\ calls = <<>> /\ loading_stack = <<>> /\ registry = <<>>
  /\ path = NoPath
  /\ reported = {}
  /\ parsed = [m \in Names |-> 0]

-----------------------------------------------------------------------------
(* The imports that are being gone through: those of the module loaded     *)
(* last, or without one those of the text that phase goes through.         *)
Text ==
  IF calls # <<>> THEN project.imports[Last(calls).module]
  ELSE CASE phase = "preload" -> project.program
         [] phase = "modules" -> project.imports[registry[unit]]
         [] phase = "main"    -> project.program
         [] phase = "done"    -> <<>>

Position == IF calls # <<>> THEN Last(calls).next ELSE next

(* Mutant: self:: is read over.                                            *)
ResolvedPlain(r) == r.name

(* resolve_relative_path: self:: is the directory of current_module_path.  *)
Resolved(r) == IF r.self THEN <<path[1], r.name[2]>> ELSE r.name

(* A module's imports and the preloaded ones are found by the scan for     *)
(* "import ", in which a selective import has no name; the others are      *)
(* those of a syntax tree that is checked.                                 *)
Scanning == calls # <<>> \/ phase = "preload"
Named    == ~(Scanning /\ Text[Position].selective)

(* The module that load_module is called for next.                         *)
Asks(m) == Position <= Len(Text) /\ Named /\ m = Resolved(Text[Position])

(* The caller goes on to its next import.                                  *)
Advanced ==
  IF calls # <<>>
  THEN [calls EXCEPT ![Len(calls)].next = @ + 1]
  ELSE calls
Advance ==
  /\ calls' = Advanced
  /\ next' = IF calls # <<>> THEN next ELSE next + 1

SkipSelective ==
  /\ Position <= Len(Text) /\ ~Named
  /\ Advance
  /\ UNCHANGED <<project, driver, loading_stack, registry, path, reported, parsed>>

Registered == ToSet(registry)

(* Mutant: a module counts as loaded while it is loading.                  *)
IsLoadedOrLoading(m) == m \in Registered \cup ToSet(loading_stack)

(* is_module_loaded, by get_module.                                        *)
IsLoaded(m) == m \in Registered \/ Slashed(m) \in Registered

LoadKnown(m) ==
  /\ Asks(m) /\ IsLoaded(m)
  /\ Advance
  /\ UNCHANGED <<project, driver, loading_stack, registry, path, reported, parsed>>

(* Mutant: only a module that imports itself is found.                     *)
IsTop(m) == loading_stack # <<>> /\ Last(loading_stack) = m

IsInLoadingStack(m) == m \in ToSet(loading_stack)

LoadCircular(m) ==
  /\ Asks(m) /\ ~IsLoaded(m) /\ IsInLoadingStack(m)
  /\ reported' = reported \cup {m}
  /\ Advance
  /\ UNCHANGED <<project, driver, loading_stack, registry, path, parsed>>

(* Mutant: the last place of the stack is left free.                       *)
PushBelow(m, stack) == IF Len(stack) < StackSize - 1 THEN Append(stack, m) ELSE stack

(* push_loading_stack and pop_loading_stack: a push onto a full stack does *)
(* nothing, and the pop that belongs to it takes what is there.            *)
Push(m, stack) == IF Len(stack) < StackSize THEN Append(stack, m) ELSE stack
Pop(stack)     == IF stack # <<>> THEN Front(stack) ELSE stack

(* No file of that name on the search path, or it cannot be opened.        *)
LoadMissing(m) ==
  /\ Asks(m) /\ ~IsLoaded(m) /\ ~IsInLoadingStack(m)
  /\ m \notin project.exists
  /\ loading_stack' = Pop(Push(m, loading_stack))
  /\ Advance
  /\ UNCHANGED <<project, driver, registry, path, reported, parsed>>

(* The file is read, and its imports come first.                           *)
LoadOpen(m) ==
  /\ Asks(m) /\ ~IsLoaded(m) /\ ~IsInLoadingStack(m)
  /\ m \in project.exists /\ Len(calls) < CallDepth
  /\ loading_stack' = Push(m, loading_stack)
  /\ calls' = Append(Advanced, [module |-> m, next |-> 1, saved |-> path])
  /\ next' = IF calls # <<>> THEN next ELSE next + 1
  /\ path' = m
  /\ UNCHANGED <<project, driver, registry, reported, parsed>>

(* Mutant: the modules are kept in the reverse order.                      *)
RegisterFirst(m) ==
  registry' = IF Len(registry) < RegistrySize THEN <<m>> \o registry ELSE registry

(* register_module drops what does not fit.                                *)
Register(m) ==
  registry' = IF Len(registry) < RegistrySize THEN Append(registry, m) ELSE registry

(* Mutant: the path stays that of the module that was loaded.              *)
PathKept == path

(* set_current_module_path(saved_module_path)                              *)
PathRestored == Last(calls).saved

(* The imports are loaded: the module is parsed and registered.            *)
LoadFinish ==
  /\ calls # <<>> /\ Position > Len(Text)
  /\ LET m == Last(calls).module IN
     /\ parsed' = [parsed EXCEPT ![m] = @ + 1]
     /\ IF m \in project.unparsed THEN UNCHANGED registry ELSE Register(m)
  /\ calls' = Front(calls)
  /\ loading_stack' = Pop(loading_stack)
  /\ path' = PathRestored
  /\ UNCHANGED <<project, driver, next, reported>>

Load(m) == LoadKnown(m) \/ LoadCircular(m) \/ LoadMissing(m) \/ LoadOpen(m)

-----------------------------------------------------------------------------
(* All imports of the text are gone through.                               *)
TextDone == calls = <<>> /\ Position > Len(Text)

(* main.c: the imports are preloaded; check_all_modules checks as many     *)
(* modules as there are when it begins.                                    *)
PreloadDone ==
  /\ phase = "preload" /\ TextDone
  /\ count' = Len(registry) /\ unit' = 1 /\ next' = 1
  /\ phase' = IF count' = 0 THEN "main" ELSE "modules"
  /\ UNCHANGED <<project, calls, loading_stack, registry, path, reported, parsed>>

LastUnit == unit = count

ModuleChecked ==
  /\ phase = "modules" /\ TextDone
  /\ unit' = unit + 1 /\ next' = 1
  /\ phase' = IF LastUnit THEN "main" ELSE "modules"
  /\ UNCHANGED <<project, count, calls, loading_stack, registry, path, reported, parsed>>

ProgramChecked ==
  /\ phase = "main" /\ TextDone
  /\ phase' = "done"
  /\ UNCHANGED <<project, unit, count, next, calls, loading_stack, registry, path, reported, parsed>>

Next ==
  \/ \E m \in Names : Load(m)
  \/ SkipSelective \/ LoadFinish
  \/ PreloadDone \/ ModuleChecked \/ ProgramChecked

(* The compiler is one thread.                                             *)
SafeSpec == Init /\ [][Next]_vars
Spec     == SafeSpec /\ WF_vars(Next)

-----------------------------------------------------------------------------
(* The variables stay in their ranges.                                     *)
TypeOK ==
  /\ project \in Project
  /\ phase \in {"preload", "modules", "main", "done"}
  /\ unit \in Nat /\ count \in 0 .. RegistrySize /\ next \in Nat \ {0}
  /\ phase = "modules" => unit \in 1 .. Len(registry)
  /\ calls \in Seq([module : Names, next : Nat \ {0}, saved : Names \cup {NoPath}])
  /\ loading_stack \in Seq(Names)
  /\ registry \in Seq(Names) /\ Len(registry) <= RegistrySize
  /\ path \in Names \cup {NoPath}
  /\ reported \subseteq Names
  /\ parsed \in [Names -> Nat]

Loading == {calls[i].module : i \in DOMAIN calls}

(* The loading stack names the calls that wait, in their order: an import  *)
(* is called circular just when the module waits for its own imports.      *)
StackIsCalls ==
  /\ Len(loading_stack) = Len(calls)
  /\ \A i \in DOMAIN calls : loading_stack[i] = calls[i].module

(* Nothing is registered twice, and nothing that is waits for its imports. *)
RegisteredApart ==
  /\ IsInjective(registry)
  /\ Loading \cap Registered = {}

(* A module is read and parsed once, whoever imports it, however often and *)
(* in which circles.  Over and over only what finds no place: a module     *)
(* that parse_program gives up on, and one that the registry dropped       *)
(* because it was full.                                                    *)
ParsedOnce ==
  \A m \in Names :
    parsed[m] > 1 =>
      m \in project.unparsed \/ (m \notin Registered /\ Len(registry) = RegistrySize)

(* While a module's imports are loaded, self:: means its directory, and    *)
(* when they are, what it meant before.                                    *)
PathIsCallers ==
  /\ calls # <<>> => path = Last(calls).module
  /\ calls = <<>> => path = NoPath
  /\ \A i \in DOMAIN calls :
       calls[i].saved = IF i = 1 THEN NoPath ELSE calls[i - 1].module

(* The modules that the text of m imports as a whole, by the documented    *)
(* meaning of self::.                                                      *)
Means(r, m) == IF r.self THEN <<m[1], r.name[2]>> ELSE r.name
Whole(text) == {r \in ToSet(text) : ~r.selective}
Needs(m)    == {Means(r, m) : r \in Whole(project.imports[m])}
Wanted      == {Means(r, NoPath) : r \in Whole(project.program)}

(* The modules with a file that can be reached from those in S: the least  *)
(* set that holds these and with a module what it imports.                 *)
Closed(T)    == \A m \in T : Needs(m) \cap project.exists \subseteq T
ReachedBy(S) ==
  {m \in project.exists :
     \A T \in SUBSET project.exists :
       S \cap project.exists \subseteq T /\ Closed(T) => m \in T}

InCycle(m) == m \in ReachedBy(Needs(m))

(* No module can be taken for another, as d_b for d/b, which then is not   *)
(* loaded, nor what it imports.                                            *)
NamesDiffer ==
  \A m \in project.exists : Slashed(m) \in project.exists => Slashed(m) = m

(* The preloading finds every module that the program needs and that has a *)
(* file, circular imports or not, unless the registry is full.             *)
PreloadComplete ==
  NamesDiffer /\ phase = "modules" /\ unit = 1 /\ next = 1 /\ Len(registry) < RegistrySize =>
    \A m \in ReachedBy(Wanted) : m \in Registered \/ m \in project.unparsed

(* A module is checked after the modules that it needs, for check_all_     *)
(* modules goes by the order of registration: only modules that import     *)
(* each other in a circle can be the other way round.                      *)
DependenciesFirst ==
  \A i, j \in DOMAIN registry :
    i < j /\ registry[j] \in Needs(registry[i]) => registry[i] \in ReachedBy({registry[j]})

(* A circular import is reported, and only a circular import.              *)
CyclesReported ==
  /\ \A m \in reported : InCycle(m)
  /\ NamesDiffer /\ phase = "modules" /\ unit = 1 /\ next = 1 =>
       ((\E m \in ReachedBy(Wanted) : InCycle(m)) => reported # {})

(* Loading ends, whatever imports what.                                    *)
LoadingEnds == <>(phase = "done")

(* "Circular imports - should detect" (tests/validate_modules.sh:54): the  *)
(* recursion does not go deeper than there are modules.                    *)
RecursionBounded == Len(calls) <= Cardinality(Names)

(* "self:: - Current Directory" (docs/modules.md:106): what a check loads  *)
(* for self:: is in the directory of the module that is checked.  The      *)
(* second loading, by check_program, breaks it.                            *)
SelfIsCurrentDirectory ==
  phase = "modules" /\ calls = <<>> /\ Position <= Len(Text) =>
    Resolved(Text[Position]) = Means(Text[Position], registry[unit])

(* "Type check all loaded modules" (src/module.c:333).                     *)
AllModulesChecked == phase = "done" => count = Len(registry)
=============================================================================
