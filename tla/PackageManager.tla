--------------------------- MODULE PackageManager ---------------------------
(***************************************************************************)
(* The package manager of package.c: `wyn install` and package_remove.     *)
(*                                                                         *)
(* A command is a process of its own: it loads the registry file, installs *)
(* what wyn.toml names, each package with what its own wyn.toml names, and *)
(* saves the registry after every registration.  It may be killed between  *)
(* any two steps, clones and copies may fail, the file may not open, and   *)
(* what is written of it may end anywhere, in the middle of a line too.    *)
(* The file and the installed directories stay.                            *)
(***************************************************************************)
EXTENDS Semver, FiniteSets, SequencesExt

CONSTANTS Names,            \* package names
          Sources,          \* git addresses and local paths
          Long,             \* those whose text is cut in PackageInfo.version[32]
          Manifest,         \* what the wyn.toml of each source names
          Projects,         \* what the wyn.toml of a project may name
          MaxPackages,      \* 256: the length of global_registry.packages
          Starts,           \* for each name, the names that it begins with
          RegistryFile,     \* registry.txt, when something removes it
          Absent            \* no directory

(***************************************************************************)
(* "name = requirement" in a wyn.toml.  The text of the requirement is at  *)
(* once where to get the package and which version of it is wanted: op is  *)
(* "at" for an address or path, "=" for a bare version, and "cut" for what *)
(* the registry holds of a long address.                                   *)
(***************************************************************************)
Requirements == [op : {"at", "cut"}, of : Sources]
                  \cup [op : RangeOps \cup {"="}, of : UNION {[1 .. n -> Numbers] : n \in 0 .. 3}]
Dependency == [name : Names, req : Requirements]

(***************************************************************************)
(* A line "name|version|path" of the registry.  A path is what removing it *)
(* removes: the package of the name.  A path cut short is that of a name   *)
(* the name begins with, of ~/.wyn/packages, of a directory above, which   *)
(* holds the registry too, or of nothing.                                  *)
(***************************************************************************)
Path == SUBSET (Names \cup {RegistryFile})
Entry == [name : Names, req : Requirements, path : Path]
CutPaths(name) == {{}, Names, Names \cup {RegistryFile}} \cup {{n} : n \in Starts[name]}

ASSUME PackageAssumption ==
  /\ MaxPackages \in Nat \ {0}
  /\ Absent \notin Sources
  /\ RegistryFile \notin Names
  /\ Starts \in [Names -> SUBSET Names]
  /\ Long \subseteq Sources
  /\ Manifest \in [Sources -> Seq(Dependency)]
  /\ Projects \subseteq Seq(Dependency)

VARIABLES file,             \* the entries of registry.txt
          dirs,             \* ~/.wyn/packages/<name>: Absent or where it is from, and if whole
          mem,              \* global_registry of the running command
          calls,            \* install_package_internal's stack, package_install's loop first
          step,             \* what the command does next
          failed,           \* a dependency of the project failed
          report,           \* how the last command ended
          project,          \* the dependencies it was to install
          unread,           \* the running command could not open the file
          removed,          \* names package_remove was called for
          struck,           \* what else was removed, by a path cut short
          disturbed         \* a command was killed, or a step of one failed

vars == <<file, dirs, mem, calls, step, failed, report, project, unread, removed, struck, disturbed>>

NoDir == [from |-> Absent, whole |-> FALSE]
Saving == {"saveNew", "saveFound", "saveRemoved"}

Top == calls[Len(calls)]
Wanted == Top.deps[Top.at]

-----------------------------------------------------------------------------
\* The version of an entry is the text it was required by; its numbers, if any.
Read(req) == IF req.op = "=" THEN req.of ELSE <<>>

\* The answers of version_satisfies for a registered text and a required one.
Satisfies(ver, req) ==
  IF req.op \in {"at", "="} THEN {ver = req} ELSE Answers(req.op, Read(ver), req.of)

\* find_package: some entry of that name satisfies, or none does.
MayFind(d) == \E i \in DOMAIN mem : mem[i].name = d.name /\ TRUE \in Satisfies(mem[i].req, d.req)
MayMiss(d) == \A i \in DOMAIN mem : mem[i].name = d.name => FALSE \in Satisfies(mem[i].req, d.req)

Full == Len(mem) >= MaxPackages

\* An entry of that name and version, the first one.
Same(i, d) == mem[i].name = d.name /\ mem[i].req = d.req
First(i, d) == Same(i, d) /\ \A j \in 1 .. i - 1 : ~Same(j, d)
Registered(d) == \E i \in DOMAIN mem : Same(i, d)

\* strncpy into version[32]: a long address is not what it was.
StoredReq(req) == IF req.op = "at" /\ req.of \in Long THEN [op |-> "cut", of |-> req.of] ELSE req
Stored(d) == [name |-> d.name, req |-> StoredReq(d.req), path |-> {d.name}]

\* register_package: nothing when full; an entry that is there keeps its
\* place and gets the path anew.
Register(d) ==
  IF Full THEN mem
  ELSE IF Registered(d)
    THEN [i \in DOMAIN mem |-> IF First(i, d) THEN [mem[i] EXCEPT !.path = {d.name}] ELSE mem[i]]
    ELSE Append(mem, Stored(d))

\* Mutant: what failed is tried again.
ReturnRetry(ok) == /\ calls' = [calls EXCEPT ![Len(calls)].at = IF ok THEN @ + 1 ELSE @]
                   /\ failed' = (failed \/ (~ok /\ Len(calls) = 1))

\* The call in progress returns: package_install counts, a caller ignores.
Return(ok) == /\ calls' = [calls EXCEPT ![Len(calls)].at = @ + 1]
              /\ failed' = (failed \/ (~ok /\ Len(calls) = 1))

\* Mutant: one line too few is read.
LoadedShort == SubSeq(file, 1, IF Len(file) < MaxPackages THEN Len(file) ELSE MaxPackages - 1)

\* load_registry reads no more lines than the array holds.
Loaded == SubSeq(file, 1, IF Len(file) < MaxPackages THEN Len(file) ELSE MaxPackages)

\* What a save may leave, killed or with the disk full: whole lines, and
\* perhaps one with its path cut short; load_registry skips a line without one.
Written(m) ==
  {SubSeq(m, 1, n) : n \in 0 .. Len(m)}
    \cup UNION {{Append(SubSeq(m, 1, n - 1), [m[n] EXCEPT !.path = p]) : p \in CutPaths(m[n].name)} :
                  n \in 1 .. Len(m)}

-----------------------------------------------------------------------------
\* `wyn install` up to the loop over the dependencies of the project.  A file
\* that does not open, for whatever reason, is an empty registry.
StartInstall(deps) ==
  /\ step = "idle"
  /\ \E opened \in BOOLEAN :
       /\ mem' = IF opened THEN Loaded ELSE <<>>
       /\ unread' = ~opened
       /\ disturbed' = (disturbed \/ ~opened)
  /\ calls' = <<[name |-> Absent, deps |-> deps, at |-> 1]>>
  /\ step' = "next"
  /\ failed' = FALSE
  /\ report' = "none"
  /\ project' = deps
  /\ UNCHANGED <<file, dirs, removed, struck>>

AtDependency == step = "next" /\ Top.at <= Len(Top.deps)

\* "Already installed", says the registry.
AlreadyInstalled ==
  /\ AtDependency
  /\ MayFind(Wanted)
  /\ Return(TRUE)
  /\ UNCHANGED <<file, dirs, mem, step, report, project, unread, removed, struck, disturbed>>

\* "Already exists, just register it": whatever the directory holds.
FoundDirectory ==
  /\ AtDependency
  /\ MayMiss(Wanted)
  /\ dirs[Wanted.name] # NoDir
  /\ mem' = Register(Wanted)
  /\ IF Full
       THEN Return(FALSE) /\ disturbed' = TRUE /\ UNCHANGED step
       ELSE step' = "saveFound" /\ UNCHANGED <<calls, failed, disturbed>>
  /\ UNCHANGED <<file, dirs, report, project, unread, removed, struck>>

\* Mutant: the directory is not looked for.
StartCopyAgain ==
  /\ AtDependency
  /\ MayMiss(Wanted)
  /\ Wanted.req.op = "at"
  /\ dirs' = [dirs EXCEPT ![Wanted.name] = [from |-> Wanted.req.of, whole |-> FALSE]]
  /\ step' = "copy"
  /\ UNCHANGED <<file, mem, calls, failed, report, project, unread, removed, struck, disturbed>>

\* git clone or cp starts: the directory is there, and is not whole yet.
StartCopy ==
  /\ AtDependency
  /\ MayMiss(Wanted)
  /\ dirs[Wanted.name] = NoDir
  /\ Wanted.req.op = "at"
  /\ dirs' = [dirs EXCEPT ![Wanted.name] = [from |-> Wanted.req.of, whole |-> FALSE]]
  /\ step' = "copy"
  /\ UNCHANGED <<file, mem, calls, failed, report, project, unread, removed, struck, disturbed>>

\* A version alone is not a place to install from.
UnknownSource ==
  /\ AtDependency
  /\ MayMiss(Wanted)
  /\ dirs[Wanted.name] = NoDir
  /\ Wanted.req.op # "at"
  /\ Return(FALSE)
  /\ disturbed' = TRUE
  /\ UNCHANGED <<file, dirs, mem, step, report, project, unread, removed, struck>>

\* Mutant: a package is registered before its copy is known to be there.
CopyFailsRegistered ==
  /\ step = "copy"
  /\ \E left \in {NoDir, dirs[Wanted.name]} : dirs' = [dirs EXCEPT ![Wanted.name] = left]
  /\ mem' = Register(Wanted)
  /\ step' = "next"
  /\ Return(FALSE)
  /\ disturbed' = TRUE
  /\ UNCHANGED <<file, report, project, unread, removed, struck>>

\* git removes what it began, cp leaves it; a missing source leaves nothing.
CopyFails ==
  /\ step = "copy"
  /\ \E left \in {NoDir, dirs[Wanted.name]} : dirs' = [dirs EXCEPT ![Wanted.name] = left]
  /\ step' = "next"
  /\ Return(FALSE)
  /\ disturbed' = TRUE
  /\ UNCHANGED <<file, mem, report, project, unread, removed, struck>>

\* Mutant: the first dependency is skipped.
DescendFromSecond(d) == calls' = Append(calls, [name |-> d.name, deps |-> Manifest[dirs[d.name].from], at |-> 2])

\* The package is registered, then its own dependencies are installed.
Descend(d) == calls' = Append(calls, [name |-> d.name, deps |-> Manifest[dirs[d.name].from], at |-> 1])

CopyDone ==
  /\ step = "copy"
  /\ dirs' = [dirs EXCEPT ![Wanted.name].whole = TRUE]
  /\ mem' = Register(Wanted)
  /\ IF Full THEN Descend(Wanted) /\ step' = "next"
             ELSE step' = "saveNew" /\ UNCHANGED calls
  /\ UNCHANGED <<file, failed, report, project, unread, removed, struck, disturbed>>

\* The command ends, and with it what it had in memory.
Exit ==
  /\ mem' = <<>>
  /\ calls' = <<>>
  /\ step' = "idle"
  /\ failed' = FALSE
  /\ unread' = FALSE

\* save_registry, and what follows it in its caller: only a file that does not
\* open is noticed, and by one caller alone.
Save ==
  /\ step \in Saving
  /\ \E opened \in BOOLEAN :
       /\ file' \in IF opened THEN Written(mem) ELSE {file}
       /\ disturbed' = (disturbed \/ ~opened \/ file' # mem)
       /\ \/ step = "saveNew" /\ Descend(Wanted) /\ step' = "next" /\ UNCHANGED <<mem, failed, report, unread>>
          \/ step = "saveFound" /\ Return(opened) /\ step' = "next" /\ UNCHANGED <<mem, report, unread>>
          \/ step = "saveRemoved" /\ Exit /\ report' = "removed"
  /\ UNCHANGED <<dirs, project, removed, struck>>

\* All dependencies of a package were tried: back to who wanted the package.
LeavePackage ==
  /\ step = "next"
  /\ Len(calls) > 1
  /\ Top.at > Len(Top.deps)
  /\ calls' = [Front(calls) EXCEPT ![Len(calls) - 1].at = @ + 1]
  /\ UNCHANGED <<file, dirs, mem, step, failed, report, project, unread, removed, struck, disturbed>>

FinishInstall ==
  /\ step = "next"
  /\ Len(calls) = 1
  /\ Top.at > Len(Top.deps)
  /\ Exit
  /\ report' = IF failed THEN "failed" ELSE "installed"
  /\ UNCHANGED <<file, dirs, project, removed, struck, disturbed>>

\* rm -rf, which may leave all or a part of what it was to remove.
Delete(path) ==
  \E left \in [path -> {"none", "part", "all"}] :
    /\ dirs' = [n \in Names |->
                 IF n \notin path \/ left[n] = "all" THEN dirs[n]
                 ELSE IF left[n] = "none" THEN NoDir ELSE [dirs[n] EXCEPT !.whole = FALSE]]
    /\ file' = IF RegistryFile \notin path \/ left[RegistryFile] # "none" THEN file ELSE <<>>

\* package_remove: the path of the first entry of that name, then the entry.
\* Without ~/.wyn there is nowhere to save and nobody to tell.
RemovePackage(name) ==
  /\ step = "idle"
  /\ \E i \in DOMAIN Loaded :
       /\ Loaded[i].name = name
       /\ \A j \in 1 .. i - 1 : Loaded[j].name # name
       /\ Delete(Loaded[i].path)
       /\ struck' = struck \cup (Loaded[i].path \ {name})
       /\ \/ /\ mem' = RemoveAt(Loaded, i)
             /\ step' = "saveRemoved"
             /\ report' = "none"
             /\ UNCHANGED <<calls, failed, unread>>
          \/ RegistryFile \in Loaded[i].path /\ file' = <<>> /\ Exit /\ report' = "removed"
  /\ removed' = removed \cup {name}
  /\ project' = <<>>
  /\ UNCHANGED disturbed

\* The command is killed; fopen(..., "w") emptied the file it was writing.
Crash ==
  /\ step # "idle"
  /\ file' \in {file} \cup (IF step \in Saving THEN Written(mem) ELSE {})
  /\ Exit
  /\ report' = "none"
  /\ project' = <<>>
  /\ disturbed' = TRUE
  /\ UNCHANGED <<dirs, removed, struck>>

-----------------------------------------------------------------------------
Init ==
  /\ file = <<>>
  /\ dirs = [n \in Names |-> NoDir]
  /\ mem = <<>>
  /\ calls = <<>>
  /\ step = "idle"
  /\ failed = FALSE
  /\ report = "none"
  /\ project = <<>>
  /\ unread = FALSE
  /\ removed = {}
  /\ struck = {}
  /\ disturbed = FALSE

InstallStep == \/ AlreadyInstalled \/ FoundDirectory \/ StartCopy \/ UnknownSource
               \/ CopyFails \/ CopyDone \/ Save \/ LeavePackage \/ FinishInstall

Next == \/ \E p \in Projects : StartInstall(p)
        \/ \E n \in Names : RemovePackage(n)
        \/ InstallStep
        \/ Crash

Spec == Init /\ [][Next]_vars

\* A command goes on until it ends; nobody has to start one.
FairSpec == Spec /\ WF_vars(InstallStep)

-----------------------------------------------------------------------------
\* What is registered, wherever its path leads.
Core(e) == [name |-> e.name, req |-> e.req]
Known(s) == {Core(s[i]) : i \in DOMAIN s}
Entries == Known(file)

TypeOK ==
  /\ \A e \in ToSet(file) \cup ToSet(mem) :
       e.name \in Names /\ e.path \in Path /\ DOMAIN e = {"name", "req", "path"}
  /\ dirs \in [Names -> [from : Sources \cup {Absent}, whole : BOOLEAN]]
  /\ Len(file) <= MaxPackages /\ Len(mem) <= MaxPackages
  /\ \A i \in DOMAIN calls : calls[i].at \in 1 .. Len(calls[i].deps) + 1
  /\ step \in {"idle", "next", "copy"} \cup Saving
  /\ failed \in BOOLEAN /\ unread \in BOOLEAN /\ disturbed \in BOOLEAN
  /\ report \in {"none", "installed", "failed", "removed"}
  /\ project \in Projects \cup {<<>>}
  /\ removed \subseteq Names /\ struck \in Path

\* The packages a project needs, by the manifests of what is installed.
Closed(S) == /\ \A i \in DOMAIN project : project[i].name \in S
             /\ \A n \in S : dirs[n] # NoDir =>
                  \A i \in DOMAIN Manifest[dirs[n].from] : Manifest[dirs[n].from][i].name \in S
Needed == {n \in Names : \A S \in SUBSET Names : Closed(S) => n \in S}

(***************************************************************************)
(* As long as nothing failed, was killed or removed, a command that says   *)
(* that all was installed has installed every package the project needs,   *)
(* through circular dependencies, several versions of a package and a full *)
(* registry: the calls skip what is there and nothing else.                *)
(***************************************************************************)
CompleteUnlessDisturbed ==
  report = "installed" /\ ~disturbed /\ removed = {} =>
    \A n \in Needed : dirs[n].whole

(***************************************************************************)
(* A registered package has a directory, whole or not, unless a version of *)
(* it was removed, or, after a save that was cut short, another package    *)
(* whose line lost the end of its path; so has, in the running command,    *)
(* what is registered and not saved.  No other crash or failure between    *)
(* copying, registering and saving breaks it.                              *)
(***************************************************************************)
RegisteredHasDirectory ==
  \A e \in Entries \cup Known(mem) :
    dirs[e.name] # NoDir \/ e.name \in removed \/ (disturbed /\ e.name \in struck)

(***************************************************************************)
(* No package is being installed twice at a time: the calls in progress    *)
(* are for different names, so dependencies in a circle end, even when the *)
(* registry is full and registering is not what ends them.                 *)
(***************************************************************************)
NoCircle == \A i, j \in 2 .. Len(calls) : calls[i].name = calls[j].name => i = j

(***************************************************************************)
(* Entries leave the registry file by package_remove, which takes one      *)
(* entry of a name it was called for; by a save that is cut short, or that *)
(* overwrites what the command could not read; and with the directory the  *)
(* file is in, by package_remove of an entry whose path was cut short.  A  *)
(* save that is written whole by a command that read the file forgets      *)
(* nothing else.                                                           *)
(***************************************************************************)
OnlyRemoveForgets ==
  [][\A e \in Entries \ Entries' :
       \/ step = "saveRemoved" /\ e.name \in removed /\ Cardinality(Entries \ Entries') = 1
       \/ step \in Saving /\ file' \in Written(mem) \ {mem}
       \/ step \in {"saveNew", "saveFound"} /\ unread
       \/ step = "idle" /\ RegistryFile \in struck' /\ disturbed /\ file' = <<>>]_vars

\* Every command ends, whatever needs what.
CommandsEnd == step # "idle" ~> step = "idle"

(***************************************************************************)
(* find_package finds a registered version whenever semver.c accepts it,   *)
(* and an only entry by ^ and >= whenever semver.c does and no other time. *)
(***************************************************************************)
FoundAsSemver ==
  \A i \in DOMAIN mem : \A w \in Complete :
    LET v == mem[i].req.of
        only == \A j \in DOMAIN mem : mem[j].name = mem[i].name => j = i
        By(op) == [name |-> mem[i].name, req |-> [op |-> op, of |-> w]]
    IN mem[i].req.op = "=" /\ DOMAIN v = Parts =>
         /\ \A op \in {"^", "~", ">="} : SemverSatisfies(v, op, w) => ~MayMiss(By(op))
         /\ \A op \in {"^", ">="} : only /\ MayFind(By(op)) => SemverSatisfies(v, op, w)

(***************************************************************************)
(* What the message "All packages installed successfully" says.  It does   *)
(* not hold after an installation that failed or was cut short.            *)
(***************************************************************************)
AllInstalled == report = "installed" => \A n \in Needed : dirs[n].whole
=============================================================================
