------------------------ MODULE PackageManagerProofs ------------------------
(***************************************************************************)
(* The two matchers of version requirements, for all versions; what the    *)
(* package manager keeps true of its file, its directories and its calls,  *)
(* for all manifests, projects and lengths of the registry; and that an    *)
(* installation that nothing disturbs is complete.                         *)
(***************************************************************************)
EXTENDS PackageManager, FiniteSetTheorems, SequenceTheorems, TLAPS

LEMMA CompleteVersions ==
  ASSUME NEW v \in Complete
  PROVE  v[1] \in Int /\ v[2] \in Int /\ v[3] \in Int
<1>1. v \in [1 .. 3 -> Numbers]
  BY DEF Complete, Parts
<1>2. v[1] \in Numbers /\ v[2] \in Numbers /\ v[3] \in Numbers
  BY <1>1
<1> QED BY <1>2, NumbersAssumption

(* What is written in full is read as written.                             *)
LEMMA ReadingComplete ==
  ASSUME NEW v \in Complete
  PROVE  Readings(v) = {v}
<1>1. DOMAIN v = Parts /\ v = [p \in Parts |-> v[p]]
  BY DEF Complete
<1>2. \A held : [p \in Parts |-> IF p \in DOMAIN v THEN v[p] ELSE held[p]] = v
  BY <1>1
<1>3. [p \in Parts \ DOMAIN v |-> v[p]] \in [Parts \ DOMAIN v -> Numbers]
  BY <1>1
<1>4. \A w \in Readings(v) : w = v
  BY <1>2 DEF Readings
<1>5. v \in Readings(v)
  BY <1>2, <1>3 DEF Readings
<1> QED BY <1>4, <1>5

LEMMA AnswerComplete ==
  ASSUME NEW v \in Complete, NEW w \in Complete, NEW op \in RangeOps
  PROVE  Answers(op, v, w) = {Matches(op, v, w)}
BY ReadingComplete DEF Answers

(* What is cut off may have been there all the same.                       *)
LEMMA ReadingCut ==
  ASSUME NEW v \in Complete, NEW cut \in {1, 2}
  PROVE  v \in Readings(SubSeq(v, 1, cut))
<1>0. v \in [1 .. 3 -> Numbers]
  BY DEF Complete, Parts
<1>1. v \in Seq(Numbers)
  <2>1. 3 \in Nat /\ [1 .. 3 -> Numbers] \in {[1 .. n -> Numbers] : n \in Nat}
    OBVIOUS
  <2> QED BY <1>0, <2>1, SeqDef, Zenon
<1>3. Len(v) = 3
  BY <1>0, <1>1, LenProperties
<1>2. \A i \in DOMAIN SubSeq(v, 1, cut) : v[i] = SubSeq(v, 1, cut)[i]
  BY <1>1, <1>3
<1>4. PICK held : held = [p \in Parts \ DOMAIN SubSeq(v, 1, cut) |-> v[p]]
  OBVIOUS
<1>5. held \in [Parts \ DOMAIN SubSeq(v, 1, cut) -> Numbers]
  BY <1>0, <1>4 DEF Parts
<1>6. [p \in Parts |-> IF p \in DOMAIN SubSeq(v, 1, cut) THEN SubSeq(v, 1, cut)[p] ELSE held[p]] = v
  BY <1>2, <1>4 DEF Complete
<1> QED BY <1>5, <1>6 DEF Readings

(* Numbers decide as Before does without them.                             *)
LEMMA CompareOrders ==
  ASSUME NEW v \in Complete, NEW w \in Complete
  PROVE  /\ Compare(v, w) < 0 <=> Before(v, w)
         /\ Compare(v, w) > 0 <=> Before(w, v)
         /\ Compare(v, w) = 0 <=> v = w
<1> USE CompleteVersions
<1>1. ASSUME NEW a \in Complete, NEW b \in Complete
      PROVE  Before(a, b) <=> \/ a[1] < b[1]
                              \/ a[1] = b[1] /\ a[2] < b[2]
                              \/ a[1] = b[1] /\ a[2] = b[2] /\ a[3] < b[3]
  <2>1. (1 .. 0) = {} /\ (1 .. 1) = {1} /\ (1 .. 2) = {1, 2}
    OBVIOUS
  <2>2. Parts = {1, 2, 3} /\ 1 - 1 = 0 /\ 2 - 1 = 1 /\ 3 - 1 = 2
    BY DEF Parts
  <2>3. Before(a, b) <=> \/ a[1] < b[1] /\ \A j \in 1 .. 0 : a[j] = b[j]
                         \/ a[2] < b[2] /\ \A j \in 1 .. 1 : a[j] = b[j]
                         \/ a[3] < b[3] /\ \A j \in 1 .. 2 : a[j] = b[j]
    BY <2>2 DEF Before
  <2> QED BY <2>1, <2>3
<1>2. v = w <=> v[1] = w[1] /\ v[2] = w[2] /\ v[3] = w[3]
  BY DEF Complete, Parts
<1>3. (Compare(v, w) < 0 <=> Before(v, w)) /\ (Compare(v, w) > 0 <=> Before(w, v))
  BY <1>1 DEF Compare
<1>4. Compare(v, w) = 0 <=> v = w
  BY <1>2 DEF Compare
<1> QED BY <1>3, <1>4

(***************************************************************************)
(* version_satisfies and semver_satisfies agree on complete versions, but  *)
(* for ~, and both order versions lexicographically.                       *)
(***************************************************************************)
THEOREM MatchersAgreeCorrect == MatchersAgree
<1> SUFFICES ASSUME NEW v \in Complete, NEW w \in Complete
    PROVE /\ \A op \in {"^", ">="} : Answers(op, v, w) = {SemverSatisfies(v, op, w)}
          /\ SemverSatisfies(v, "~", w) => Answers("~", v, w) = {TRUE}
          /\ Matches("<", v, w) = Before(v, w)
          /\ Matches(">", v, w) = Before(w, v)
          /\ SemverSatisfies(v, "=", w) = (v = w)
          /\ \A op \in RangeOps, cut \in {1, 2} :
                Matches(op, v, w) \in Answers(op, SubSeq(v, 1, cut), w)
  BY DEF MatchersAgree
<1>1. ASSUME NEW op \in {"^", ">="} PROVE Answers(op, v, w) = {SemverSatisfies(v, op, w)}
  <2>1. Answers(op, v, w) = {Matches(op, v, w)}
    BY AnswerComplete DEF RangeOps
  <2>2. Matches(op, v, w) = SemverSatisfies(v, op, w)
    BY DEF Matches, SemverSatisfies
  <2> QED BY <2>1, <2>2
<1>2. ASSUME SemverSatisfies(v, "~", w) PROVE Answers("~", v, w) = {TRUE}
  <2>1. Answers("~", v, w) = {Matches("~", v, w)}
    BY AnswerComplete DEF RangeOps
  <2>2. Matches("~", v, w)
    BY <1>2 DEF Matches, SemverSatisfies
  <2>3. Matches("~", v, w) = (v[1] = w[1] /\ v[2] = w[2])
    BY DEF Matches
  <2> QED BY <2>1, <2>2, <2>3
<1>3. /\ Matches("<", v, w) \in BOOLEAN /\ Matches(">", v, w) \in BOOLEAN
      /\ Matches("<", v, w) <=> Compare(v, w) < 0
      /\ Matches(">", v, w) <=> Compare(v, w) > 0
  <2>1. Matches("<", v, w) \in BOOLEAN /\ Matches(">", v, w) \in BOOLEAN
    BY DEF Matches
  <2>2. Matches("<", v, w) <=> Compare(v, w) < 0
    BY DEF Matches
  <2>3. Matches(">", v, w) <=> Compare(v, w) > 0
    BY DEF Matches
  <2> QED BY <2>1, <2>2, <2>3
<1>4. SemverSatisfies(v, "=", w) = (Compare(v, w) = 0)
  BY DEF SemverSatisfies
<1>5. Before(v, w) \in BOOLEAN /\ Before(w, v) \in BOOLEAN
  BY DEF Before
<1>6. ASSUME NEW op \in RangeOps, NEW cut \in {1, 2}
      PROVE  Matches(op, v, w) \in Answers(op, SubSeq(v, 1, cut), w)
  BY ReadingCut, ReadingComplete DEF Answers
<1>7. Matches("<", v, w) = Before(v, w) /\ Matches(">", v, w) = Before(w, v)
  BY <1>3, <1>5, CompareOrders
<1>8. SemverSatisfies(v, "=", w) = (v = w)
  BY <1>4, CompareOrders
<1> QED BY <1>1, <1>2, <1>6, <1>7, <1>8

-----------------------------------------------------------------------------
(* The registry file, the directories and the calls.                       *)
Installing == {"next", "copy", "saveNew", "saveFound"}
CallRecord == [name : Names \cup {Absent}, deps : Seq(Dependency), at : Nat \ {0}]
Directory == [from : Sources \cup {Absent}, whole : BOOLEAN]

(* Types, and when there is a dependency to speak of.                      *)
PackageTypes ==
  /\ file \in Seq(Entry) /\ Len(file) <= MaxPackages
  /\ mem \in Seq(Entry) /\ Len(mem) <= MaxPackages
  /\ dirs \in [Names -> Directory]
  /\ calls \in Seq(CallRecord)
  /\ \A i \in 2 .. Len(calls) : calls[i].name \in Names
  /\ step \in Installing \cup {"idle", "saveRemoved"}
  /\ step \in Installing <=> calls # <<>>
  /\ step \in {"copy", "saveNew", "saveFound"} => Top.at <= Len(Top.deps)
  /\ step \in {"copy", "saveNew"} => dirs[Wanted.name].from \in Sources
  /\ removed \subseteq Names

(* What has been taken away: a package that was removed, or struck.        *)
Taken(n) == n \in removed \/ (disturbed /\ n \in struck)

(* What is being copied is in the registry only under a name that was      *)
(* taken, so that a failed copy takes no registered directory away.        *)
CopyIsUnregistered ==
  step = "copy" => \A e \in Entries \cup Known(mem) : e.name = Wanted.name => Taken(e.name)

(* Paths are whole until something failed.                                 *)
PathsWhole == ~disturbed => \A e \in ToSet(file) \cup ToSet(mem) : e.path = {e.name}

(* What is being copied, or was just copied, is not what a call is for:    *)
(* those have their directories.                                           *)
CopyIsNew == step \in {"copy", "saveNew"} => \A i \in 2 .. Len(calls) : calls[i].name # Wanted.name
CallersHaveDirectories == \A i \in 2 .. Len(calls) : dirs[calls[i].name] # NoDir

(* What the running command has done to the registry.                      *)
NothingForgotten ==
  /\ step \in Installing /\ ~unread => Entries \subseteq Known(mem)
  /\ step = "saveRemoved" => \E d \in Dependency : d.name \in removed /\ Entries \ Known(mem) \subseteq {d}

-----------------------------------------------------------------------------
\* Sequences and what is in them.

LEMMA InSequence ==
  ASSUME NEW S, NEW s \in Seq(S)
  PROVE  /\ ToSet(s) = {s[i] : i \in 1 .. Len(s)}
         /\ ToSet(s) \subseteq S
BY DEF ToSet

LEMMA PrefixSet ==
  ASSUME NEW S, NEW s \in Seq(S), NEW n \in 0 .. Len(s)
  PROVE  /\ SubSeq(s, 1, n) \in Seq(S) /\ Len(SubSeq(s, 1, n)) = n
         /\ \A i \in 1 .. n : SubSeq(s, 1, n)[i] = s[i]
         /\ ToSet(SubSeq(s, 1, n)) \subseteq ToSet(s)
<1>1. /\ SubSeq(s, 1, n) \in Seq(S) /\ Len(SubSeq(s, 1, n)) = n
      /\ \A i \in 1 .. n : SubSeq(s, 1, n)[i] = s[i]
  OBVIOUS
<1>2. ASSUME NEW e \in ToSet(SubSeq(s, 1, n)) PROVE e \in ToSet(s)
  <2>1. PICK i \in 1 .. n : e = SubSeq(s, 1, n)[i]
    <3>1. ToSet(SubSeq(s, 1, n)) = {SubSeq(s, 1, n)[i] : i \in 1 .. n}
      BY <1>1, InSequence
    <3> QED BY <3>1
  <2>2. e = s[i] /\ i \in 1 .. Len(s)
    BY <1>1, <2>1
  <2>3. ToSet(s) = {s[j] : j \in 1 .. Len(s)}
    BY InSequence
  <2> QED BY <2>2, <2>3
<1> QED BY <1>1, <1>2

LEMMA AppendSet ==
  ASSUME NEW S, NEW s \in Seq(S), NEW e \in S
  PROVE  ToSet(Append(s, e)) = ToSet(s) \cup {e}
<1>1. /\ Append(s, e) \in Seq(S) /\ Len(Append(s, e)) = Len(s) + 1
      /\ \A i \in 1 .. Len(s) : Append(s, e)[i] = s[i]
      /\ Append(s, e)[Len(s) + 1] = e
  BY AppendProperties
<1>2. ToSet(Append(s, e)) = {Append(s, e)[i] : i \in 1 .. Len(s) + 1}
  BY <1>1, InSequence
<1>3. 1 .. Len(s) + 1 = (1 .. Len(s)) \cup {Len(s) + 1}
  OBVIOUS
<1>4. ToSet(s) = {s[i] : i \in 1 .. Len(s)}
  BY InSequence
<1> QED BY <1>1, <1>2, <1>3, <1>4

LEMMA RemoveAtSet ==
  ASSUME NEW S, NEW s \in Seq(S), NEW i \in 1 .. Len(s)
  PROVE  /\ RemoveAt(s, i) \in Seq(S)
         /\ Len(RemoveAt(s, i)) = Len(s) - 1
         /\ ToSet(RemoveAt(s, i)) \subseteq ToSet(s)
         /\ ToSet(s) \ ToSet(RemoveAt(s, i)) \subseteq {s[i]}
<1> DEFINE a == SubSeq(s, 1, i - 1)
           b == SubSeq(s, i + 1, Len(s))
           r == a \o b
<1>1. /\ a \in Seq(S) /\ Len(a) = i - 1
      /\ \A j \in 1 .. i - 1 : a[j] = s[j]
  OBVIOUS
<1>2. /\ b \in Seq(S) /\ Len(b) = Len(s) - i
      /\ \A j \in 1 .. Len(s) - i : b[j] = s[i + j]
  OBVIOUS
<1> HIDE DEF a, b
<1>3. /\ r \in Seq(S) /\ Len(r) = Len(s) - 1
      /\ \A j \in 1 .. Len(s) - 1 : r[j] = IF j <= i - 1 THEN a[j] ELSE b[j - (i - 1)]
  <2>1. /\ r \in Seq(S) /\ Len(r) = Len(a) + Len(b)
        /\ \A j \in 1 .. Len(a) + Len(b) : r[j] = IF j <= Len(a) THEN a[j] ELSE b[j - Len(a)]
    BY <1>1, <1>2, ConcatProperties
  <2>2. Len(a) + Len(b) = Len(s) - 1
    BY <1>1, <1>2
  <2> HIDE DEF r
  <2> QED BY <1>1, <2>1, <2>2
<1> HIDE DEF r
<1>4. \A j \in 1 .. Len(s) - 1 : r[j] = IF j < i THEN s[j] ELSE s[j + 1]
  <2> SUFFICES ASSUME NEW j \in 1 .. Len(s) - 1 PROVE r[j] = IF j < i THEN s[j] ELSE s[j + 1]
    OBVIOUS
  <2>1. CASE j < i
    <3>1. j \in 1 .. i - 1 /\ r[j] = a[j]
      BY <1>3, <2>1
    <3> QED BY <1>1, <2>1, <3>1
  <2>2. CASE ~(j < i)
    <3>1. j - (i - 1) \in 1 .. Len(s) - i /\ r[j] = b[j - (i - 1)] /\ i + (j - (i - 1)) = j + 1
      BY <1>3, <2>2
    <3>2. b[j - (i - 1)] = s[i + (j - (i - 1))]
      BY <1>2, <3>1
    <3> QED BY <2>2, <3>1, <3>2
  <2> QED BY <2>1, <2>2
<1>5. /\ ToSet(s) = {s[j] : j \in 1 .. Len(s)}
      /\ ToSet(r) = {r[j] : j \in 1 .. Len(s) - 1}
  BY <1>3, InSequence
<1>6. ToSet(r) \subseteq ToSet(s)
  BY <1>4, <1>5
<1>7. ASSUME NEW j \in 1 .. Len(s), j # i PROVE s[j] \in ToSet(r)
  <2>1. CASE j < i
    BY <1>4, <1>5, <2>1
  <2>2. CASE j > i
    <3>1. j - 1 \in 1 .. Len(s) - 1 /\ r[j - 1] = s[j]
      BY <1>4, <2>2
    <3> QED BY <1>5, <3>1
  <2> QED BY <1>7, <2>1, <2>2
<1>8. ToSet(s) \ ToSet(r) \subseteq {s[i]}
  BY <1>5, <1>7
<1>9. r = RemoveAt(s, i)
  BY DEF RemoveAt, r, a, b
<1> QED BY <1>3, <1>6, <1>8, <1>9

(* What is registered, by name and requirement.                            *)
LEMMA CoreOfEntry ==
  ASSUME NEW e \in Entry
  PROVE  Core(e) \in Dependency /\ Core(e).name = e.name /\ Core(e).req = e.req
BY DEF Entry, Dependency, Core

LEMMA KnownSet ==
  ASSUME NEW s \in Seq(Entry)
  PROVE  /\ Known(s) = {Core(e) : e \in ToSet(s)}
         /\ Known(s) \subseteq Dependency
<1>1. ToSet(s) = {s[i] : i \in 1 .. Len(s)} /\ ToSet(s) \subseteq Entry
  BY InSequence
<1>2. Known(s) = {Core(s[i]) : i \in 1 .. Len(s)}
  BY DEF Known
<1>3. Known(s) = {Core(e) : e \in ToSet(s)}
  BY <1>1, <1>2
<1> QED BY <1>1, <1>3, CoreOfEntry

-----------------------------------------------------------------------------
\* What the helpers of the actions do.

LEMMA LoadedPrefix ==
  ASSUME PackageTypes
  PROVE  Loaded \in Seq(Entry) /\ Loaded = file
<1>1. file = SubSeq(file, 1, Len(file))
  BY DEF PackageTypes
<1>2. Len(file) \in Nat /\ MaxPackages \in Nat /\ Len(file) <= MaxPackages
  BY PackageAssumption DEF PackageTypes
<1>3. (IF Len(file) < MaxPackages THEN Len(file) ELSE MaxPackages) = Len(file)
  BY <1>2
<1>4. Loaded = file
  BY <1>1, <1>3, Zenon DEF Loaded
<1> QED BY <1>4 DEF PackageTypes

(* What a save leaves is in memory, but for the end of a path.             *)
LEMMA WrittenKnown ==
  ASSUME PackageTypes, NEW f \in Written(mem)
  PROVE  /\ f \in Seq(Entry) /\ Len(f) <= MaxPackages
         /\ Known(f) \subseteq Known(mem)
<1>0. mem \in Seq(Entry) /\ Len(mem) \in Nat /\ Len(mem) <= MaxPackages /\ MaxPackages \in Nat
  BY PackageAssumption DEF PackageTypes
<1>1. ASSUME NEW n \in 0 .. Len(mem), f = SubSeq(mem, 1, n)
      PROVE  f \in Seq(Entry) /\ Len(f) <= MaxPackages /\ Known(f) \subseteq Known(mem)
  <2>1. f \in Seq(Entry) /\ Len(f) = n /\ ToSet(f) \subseteq ToSet(mem)
    BY <1>0, <1>1, PrefixSet
  <2> QED BY <1>0, <2>1, KnownSet
<1>2. ASSUME NEW n \in 1 .. Len(mem), NEW p \in CutPaths(mem[n].name),
             f = Append(SubSeq(mem, 1, n - 1), [mem[n] EXCEPT !.path = p])
      PROVE  f \in Seq(Entry) /\ Len(f) <= MaxPackages /\ Known(f) \subseteq Known(mem)
  <2>1. PICK b : b = SubSeq(mem, 1, n - 1)
    OBVIOUS
  <2>2. n - 1 \in 0 .. Len(mem)
    BY <1>0
  <2>3. b \in Seq(Entry) /\ Len(b) = n - 1 /\ ToSet(b) \subseteq ToSet(mem)
    BY <1>0, <2>1, <2>2, PrefixSet
  <2>4. mem[n] \in Entry /\ mem[n] \in ToSet(mem)
    BY <1>0, InSequence
  <2>5. p \in Path
    BY <2>4, PackageAssumption DEF CutPaths, Entry, Path
  <2>6. PICK e : e = [mem[n] EXCEPT !.path = p]
    OBVIOUS
  <2>7. e \in Entry /\ Core(e) = Core(mem[n])
    BY <2>4, <2>5, <2>6 DEF Entry, Core
  <2>8. f = Append(b, e)
    BY <1>2, <2>1, <2>6
  <2>9. f \in Seq(Entry) /\ Len(f) = n /\ ToSet(f) = ToSet(b) \cup {e}
    BY <2>3, <2>7, <2>8, AppendSet, AppendProperties
  <2> QED BY <1>0, <2>3, <2>4, <2>7, <2>9, KnownSet
<1>3. \/ \E n \in 0 .. Len(mem) : f = SubSeq(mem, 1, n)
      \/ \E n \in 1 .. Len(mem) : \E p \in CutPaths(mem[n].name) :
           f = Append(SubSeq(mem, 1, n - 1), [mem[n] EXCEPT !.path = p])
  BY DEF Written
<1> QED BY <1>1, <1>2, <1>3

LEMMA WantedIsDependency ==
  ASSUME PackageTypes, calls # <<>>, Top.at <= Len(Top.deps)
  PROVE  Wanted \in Dependency /\ Wanted.name \in Names
<1>1. Top \in CallRecord
  BY DEF PackageTypes, Top
<1>2. Top.deps \in Seq(Dependency) /\ Top.at \in 1 .. Len(Top.deps)
  BY <1>1 DEF CallRecord
<1>3. Wanted \in Dependency
  BY <1>2 DEF Wanted
<1> QED BY <1>3 DEF Dependency

LEMMA StoredName ==
  ASSUME NEW d \in Dependency
  PROVE  Stored(d) \in Entry /\ Stored(d).name = d.name /\ Stored(d).path = {d.name}
<1>1. d.name \in Names /\ {d.name} \in Path
  BY DEF Dependency, Path
<1>2. StoredReq(d.req) \in Requirements
  <2>1. CASE d.req.op = "at" /\ d.req.of \in Long
    BY <2>1, PackageAssumption DEF StoredReq, Requirements
  <2>2. CASE ~(d.req.op = "at" /\ d.req.of \in Long)
    BY <2>2 DEF StoredReq, Dependency
  <2> QED BY <2>1, <2>2
<1> QED BY <1>1, <1>2 DEF Stored, Entry

LEMMA RegisterAdds ==
  ASSUME PackageTypes, NEW d \in Dependency
  PROVE  /\ Register(d) \in Seq(Entry) /\ Len(Register(d)) <= MaxPackages
         /\ Known(mem) \subseteq Known(Register(d))
         /\ \A e \in Known(Register(d)) : e \in Known(mem) \/ e.name = d.name
         /\ \A e \in ToSet(Register(d)) : e \in ToSet(mem) \/ e.path = {e.name}
<1>0. mem \in Seq(Entry) /\ Len(mem) \in Nat /\ Len(mem) <= MaxPackages /\ MaxPackages \in Nat
  BY PackageAssumption DEF PackageTypes
<1>1. CASE Full
  <2>1. Register(d) = mem
    BY <1>1 DEF Register
  <2> QED BY <1>0, <2>1
<1>2. CASE ~Full /\ Registered(d)
  <2>1. PICK r : r = [i \in DOMAIN mem |-> IF First(i, d) THEN [mem[i] EXCEPT !.path = {d.name}] ELSE mem[i]]
    OBVIOUS
  <2>2. Register(d) = r
    BY <1>2, <2>1 DEF Register
  <2>3. DOMAIN mem = 1 .. Len(mem)
    BY <1>0
  <2>4. ASSUME NEW i \in 1 .. Len(mem)
        PROVE  r[i] \in Entry /\ Core(r[i]) = Core(mem[i]) /\ (r[i] = mem[i] \/ r[i].path = {r[i].name})
    <3>1. mem[i] \in Entry /\ {d.name} \in Path
      BY <1>0 DEF Dependency, Path
    <3>2. CASE First(i, d)
      <4>1. r[i] = [mem[i] EXCEPT !.path = {d.name}] /\ mem[i].name = d.name
        BY <2>1, <2>3, <3>2 DEF First, Same
      <4> QED BY <3>1, <4>1 DEF Entry, Core
    <3>3. CASE ~First(i, d)
      BY <2>1, <2>3, <3>1, <3>3
    <3> QED BY <3>2, <3>3
  <2>5. r \in Seq(Entry) /\ Len(r) = Len(mem)
    <3>1. r \in [1 .. Len(mem) -> Entry]
      BY <2>1, <2>3, <2>4
    <3>2. r \in Seq(Entry)
      <4>1. Len(mem) \in Nat /\ [1 .. Len(mem) -> Entry] \in {[1 .. n -> Entry] : n \in Nat}
        BY <1>0
      <4> QED BY <3>1, <4>1, SeqDef, Zenon
    <3> QED BY <1>0, <3>1, <3>2, LenProperties
  <2>6. Known(r) = Known(mem)
    BY <2>3, <2>4, <2>5 DEF Known
  <2>7. \A e \in ToSet(r) : e \in ToSet(mem) \/ e.path = {e.name}
    <3>1. ToSet(r) = {r[i] : i \in 1 .. Len(mem)} /\ ToSet(mem) = {mem[i] : i \in 1 .. Len(mem)}
      BY <1>0, <2>5, InSequence
    <3> QED BY <2>4, <3>1
  <2> QED BY <1>0, <2>2, <2>5, <2>6, <2>7
<1>3. CASE ~Full /\ ~Registered(d)
  <2>1. Register(d) = Append(mem, Stored(d))
    BY <1>3 DEF Register
  <2>2. Stored(d) \in Entry /\ Stored(d).name = d.name /\ Stored(d).path = {d.name}
    BY StoredName
  <2>3. Append(mem, Stored(d)) \in Seq(Entry) /\ Len(Append(mem, Stored(d))) = Len(mem) + 1
    BY <1>0, <2>2, AppendProperties
  <2>4. Len(mem) + 1 <= MaxPackages
    BY <1>0, <1>3 DEF Full
  <2>5. ToSet(Append(mem, Stored(d))) = ToSet(mem) \cup {Stored(d)}
    BY <1>0, <2>2, AppendSet
  <2>6. Core(Stored(d)).name = d.name
    BY <2>2, CoreOfEntry
  <2>7. Known(Append(mem, Stored(d))) = Known(mem) \cup {Core(Stored(d))}
    BY <1>0, <2>3, <2>5, KnownSet
  <2>8. PICK r : r = Append(mem, Stored(d))
    OBVIOUS
  <2>9. r \in Seq(Entry) /\ Len(r) <= MaxPackages
    BY <2>3, <2>4, <2>8
  <2>10. /\ Known(mem) \subseteq Known(r)
         /\ \A e \in Known(r) : e \in Known(mem) \/ e.name = d.name
    BY <2>6, <2>7, <2>8
  <2>11. \A e \in ToSet(r) : e \in ToSet(mem) \/ e.path = {e.name}
    BY <2>2, <2>5, <2>8
  <2>12. Register(d) = r
    BY <2>1, <2>8
  <2> QED BY <2>9, <2>10, <2>11, <2>12
<1> QED BY <1>1, <1>2, <1>3

LEMMA Advance ==
  ASSUME NEW c \in CallRecord
  PROVE  /\ [c EXCEPT !.at = @ + 1] \in CallRecord
         /\ [c EXCEPT !.at = @ + 1].name = c.name
         /\ [c EXCEPT !.at = @ + 1].deps = c.deps
         /\ [c EXCEPT !.at = @ + 1].at = c.at + 1
BY DEF CallRecord

(* The call in progress goes on to its next dependency; the others stay.   *)
LEMMA ReturnCalls ==
  ASSUME PackageTypes, calls # <<>>, calls' = [calls EXCEPT ![Len(calls)].at = @ + 1]
  PROVE  /\ calls' \in Seq(CallRecord) /\ Len(calls') = Len(calls) /\ calls' # <<>>
         /\ \A i \in 1 .. Len(calls) : calls'[i].name = calls[i].name
         /\ \A i \in 1 .. Len(calls) : calls'[i].deps = calls[i].deps
         /\ \A i \in 1 .. Len(calls) - 1 : calls'[i] = calls[i]
         /\ calls'[Len(calls)].at = Top.at + 1
<1>1. Len(calls) \in 1 .. Len(calls) /\ calls[Len(calls)] \in CallRecord
  BY DEF PackageTypes
<1>2. PICK r \in CallRecord : /\ r = [calls[Len(calls)] EXCEPT !.at = @ + 1]
                              /\ r.name = calls[Len(calls)].name
                              /\ r.deps = calls[Len(calls)].deps
                              /\ r.at = calls[Len(calls)].at + 1
  BY <1>1, Advance
<1>3. calls' = [calls EXCEPT ![Len(calls)] = r]
  BY <1>2, Zenon
<1>4. calls \in Seq(CallRecord)
  BY DEF PackageTypes
<1>5. calls' \in Seq(CallRecord) /\ Len(calls') = Len(calls)
  BY <1>1, <1>3, <1>4
<1>6. calls' # <<>>
  BY <1>1, <1>5
<1>7. /\ \A i \in 1 .. Len(calls) - 1 : calls'[i] = calls[i]
      /\ calls'[Len(calls)] = r
  BY <1>1, <1>3, <1>4
<1>8. \A i \in 1 .. Len(calls) : i \in 1 .. Len(calls) - 1 \/ i = Len(calls)
  BY <1>1
<1>9. \A i \in 1 .. Len(calls) : calls'[i].name = calls[i].name /\ calls'[i].deps = calls[i].deps
  BY <1>2, <1>7, <1>8
<1> QED BY <1>2, <1>5, <1>6, <1>7, <1>9 DEF Top

(* A call for a package is added, or the last one is taken away.           *)
LEMMA DescendCalls ==
  ASSUME PackageTypes, NEW d \in Dependency, dirs[d.name].from \in Sources, Descend(d)
  PROVE  /\ calls' \in Seq(CallRecord) /\ Len(calls') = Len(calls) + 1 /\ calls' # <<>>
         /\ \A i \in 1 .. Len(calls) : calls'[i] = calls[i]
         /\ calls'[Len(calls) + 1] = [name |-> d.name, deps |-> Manifest[dirs[d.name].from], at |-> 1]
         /\ calls'[Len(calls) + 1].name = d.name
         /\ \A i \in 2 .. Len(calls') : calls'[i].name \in Names
<1>1. PICK r : r = [name |-> d.name, deps |-> Manifest[dirs[d.name].from], at |-> 1]
  OBVIOUS
<1>2. Manifest[dirs[d.name].from] \in Seq(Dependency) /\ d.name \in Names
  BY PackageAssumption DEF Dependency
<1>3. r \in CallRecord /\ r.name = d.name
  BY <1>1, <1>2 DEF CallRecord
<1>4. calls' = Append(calls, r)
  BY <1>1 DEF Descend
<1>5. /\ calls' \in Seq(CallRecord) /\ Len(calls') = Len(calls) + 1 /\ calls' # <<>>
      /\ \A i \in 1 .. Len(calls) : calls'[i] = calls[i]
      /\ calls'[Len(calls) + 1] = r
  BY <1>3, <1>4, AppendProperties DEF PackageTypes
<1>6. ASSUME NEW i \in 2 .. Len(calls') PROVE calls'[i].name \in Names
  <2>1. CASE i = Len(calls) + 1
    BY <1>2, <1>3, <1>5, <2>1
  <2>2. CASE i # Len(calls) + 1
    <3>1. i \in 2 .. Len(calls)
      BY <1>5, <2>2 DEF PackageTypes
    <3> QED BY <1>5, <3>1 DEF PackageTypes
  <2> QED BY <2>1, <2>2
<1> QED BY <1>1, <1>3, <1>5, <1>6

LEMMA LeaveCalls ==
  ASSUME PackageTypes, LeavePackage
  PROVE  /\ calls' \in Seq(CallRecord) /\ Len(calls') = Len(calls) - 1 /\ calls' # <<>>
         /\ \A i \in 1 .. Len(calls) - 1 : calls'[i].name = calls[i].name
         /\ \A i \in 1 .. Len(calls) - 1 : calls'[i].deps = calls[i].deps
         /\ \A i \in 1 .. Len(calls) - 2 : calls'[i] = calls[i]
         /\ calls'[Len(calls) - 1].at = calls[Len(calls) - 1].at + 1
<1> DEFINE n == Len(calls) - 1
           f == Front(calls)
<1>1. n \in 1 .. Len(calls) /\ n \in 0 .. Len(calls) /\ f = SubSeq(calls, 1, n)
  BY DEF LeavePackage, PackageTypes, Front
<1>2. f \in Seq(CallRecord) /\ Len(f) = n /\ \A i \in 1 .. n : f[i] = calls[i]
  BY <1>1, PrefixSet DEF PackageTypes
<1>3. calls' = [f EXCEPT ![n].at = @ + 1]
  BY DEF LeavePackage
<1> HIDE DEF f
<1>4. n \in 1 .. Len(f) /\ f[n] \in CallRecord
  BY <1>1, <1>2
<1>5. PICK r \in CallRecord : /\ r = [f[n] EXCEPT !.at = @ + 1]
                              /\ r.name = f[n].name /\ r.deps = f[n].deps /\ r.at = f[n].at + 1
  BY <1>4, Advance
<1>7. calls' = [f EXCEPT ![n] = r]
  BY <1>3, <1>5, Zenon
<1> HIDE DEF n
<1>8. calls' \in Seq(CallRecord) /\ Len(calls') = n
  BY <1>2, <1>4, <1>5, <1>7
<1>9. calls' # <<>>
  BY <1>4, <1>2, <1>8
<1>10. calls'[n] = r /\ \A i \in 1 .. n - 1 : calls'[i] = f[i]
  BY <1>2, <1>4, <1>5, <1>7
<1>11. n \in Nat /\ \A i \in 1 .. n : i \in 1 .. n - 1 \/ i = n
  BY <1>2, <1>4
<1>12. \A i \in 1 .. n : calls'[i].name = f[i].name /\ calls'[i].deps = f[i].deps
  BY <1>5, <1>10, <1>11
<1>13. /\ \A i \in 1 .. n : calls'[i].name = calls[i].name /\ calls'[i].deps = calls[i].deps
       /\ \A i \in 1 .. n - 1 : calls'[i] = calls[i]
       /\ calls'[n].at = calls[n].at + 1
  BY <1>1, <1>2, <1>5, <1>10, <1>11, <1>12
<1>14. n - 1 = Len(calls) - 2
  BY DEF n, PackageTypes
<1> QED BY <1>8, <1>9, <1>13, <1>14 DEF n

(* A copy that ends leaves a directory that is whole and as it was.        *)
LEMMA CopiedDirectory ==
  ASSUME PackageTypes, NEW n \in Names, dirs' = [dirs EXCEPT ![n].whole = TRUE]
  PROVE  /\ dirs' \in [Names -> Directory]
         /\ dirs'[n].from = dirs[n].from
         /\ \A m \in Names : m # n => dirs'[m] = dirs[m]
<1>1. dirs[n] \in Directory
  BY DEF PackageTypes
<1>2. [dirs[n] EXCEPT !.whole = TRUE] \in Directory /\ [dirs[n] EXCEPT !.whole = TRUE].from = dirs[n].from
  BY <1>1 DEF Directory
<1>3. PICK w \in Directory : w = [dirs[n] EXCEPT !.whole = TRUE] /\ w.from = dirs[n].from
  BY <1>2
<1>4. dirs' = [dirs EXCEPT ![n] = w]
  BY <1>3, Zenon
<1>5. dirs \in [Names -> Directory]
  BY DEF PackageTypes
<1> QED BY <1>3, <1>4, <1>5

LEMMA NoDirectory == NoDir \in Directory /\ \A d \in Directory : d.from \in Sources => d # NoDir
BY PackageAssumption DEF NoDir, Directory

(* What rm -rf leaves.                                                     *)
LEMMA DeletedDirectories ==
  ASSUME PackageTypes, NEW path, Delete(path)
  PROVE  /\ dirs' \in [Names -> Directory] /\ file' \in {file, <<>>}
         /\ \A n \in Names : n \notin path => dirs'[n] = dirs[n]
         /\ RegistryFile \notin path => file' = file
<1>1. PICK left \in [path -> {"none", "part", "all"}] :
        /\ dirs' = [n \in Names |->
                     IF n \notin path \/ left[n] = "all" THEN dirs[n]
                     ELSE IF left[n] = "none" THEN NoDir ELSE [dirs[n] EXCEPT !.whole = FALSE]]
        /\ file' = IF RegistryFile \notin path \/ left[RegistryFile] # "none" THEN file ELSE <<>>
  BY DEF Delete
<1>2. ASSUME NEW n \in Names PROVE dirs'[n] \in Directory /\ (n \notin path => dirs'[n] = dirs[n])
  <2>1. dirs[n] \in Directory /\ [dirs[n] EXCEPT !.whole = FALSE] \in Directory
    BY DEF PackageTypes, Directory
  <2>2. dirs'[n] \in {dirs[n], NoDir, [dirs[n] EXCEPT !.whole = FALSE]} /\ (n \notin path => dirs'[n] = dirs[n])
    BY <1>1
  <2> QED BY <2>1, <2>2, NoDirectory
<1>3. DOMAIN dirs' = Names /\ dirs' = [n \in Names |-> dirs'[n]]
  BY <1>1
<1>4. dirs' \in [Names -> Directory]
  BY <1>2, <1>3
<1> QED BY <1>1, <1>2, <1>4

-----------------------------------------------------------------------------
LEMMA TypesInit == Init => PackageTypes
<1> SUFFICES ASSUME Init PROVE PackageTypes
  OBVIOUS
<1>1. file = <<>> /\ mem = <<>> /\ calls = <<>> /\ step = "idle" /\ removed = {}
  BY DEF Init
<1>2. dirs \in [Names -> Directory]
  BY NoDirectory DEF Init
<1> QED BY <1>1, <1>2, PackageAssumption DEF PackageTypes, Installing

LEMMA AtSource ==
  ASSUME NEW d \in Dependency, d.req.op = "at"
  PROVE  d.req.of \in Sources
BY DEF Dependency, Requirements, RangeOps

(* There is a dependency to work on.                                       *)
LEMMA Working ==
  ASSUME PackageTypes, AtDependency \/ step \in {"copy", "saveNew", "saveFound"}
  PROVE  /\ calls # <<>> /\ step \in Installing
         /\ Top.at <= Len(Top.deps)
         /\ Wanted \in Dependency /\ Wanted.name \in Names
<1>1. step \in Installing /\ Top.at <= Len(Top.deps)
  BY DEF PackageTypes, AtDependency, Installing
<1>2. calls # <<>>
  BY <1>1 DEF PackageTypes
<1> QED BY <1>1, <1>2, WantedIsDependency

(* While the calls stay, so does what they want.                           *)
LEMMA SameWanted ==
  ASSUME UNCHANGED calls
  PROVE  Top' = Top /\ Wanted' = Wanted
BY DEF Top, Wanted

LEMMA TypesNext == PackageTypes /\ [Next]_vars => PackageTypes'
<1> SUFFICES ASSUME PackageTypes, [Next]_vars PROVE PackageTypes'
  OBVIOUS
<1>0. /\ file \in Seq(Entry) /\ Len(file) <= MaxPackages
      /\ mem \in Seq(Entry) /\ Len(mem) <= MaxPackages
      /\ dirs \in [Names -> Directory]
      /\ calls \in Seq(CallRecord)
      /\ \A i \in 2 .. Len(calls) : calls[i].name \in Names
      /\ step \in Installing <=> calls # <<>>
      /\ removed \subseteq Names
      /\ {"next", "copy", "saveNew", "saveFound"} = Installing
      /\ Len(calls) \in Nat
  BY DEF PackageTypes, Installing
<1>1. ASSUME NEW p \in Projects, StartInstall(p) PROVE PackageTypes'
  <2>1. [name |-> Absent, deps |-> p, at |-> 1] \in CallRecord
    BY PackageAssumption DEF CallRecord
  <2>2. calls' = <<[name |-> Absent, deps |-> p, at |-> 1]>> /\ mem' \in {Loaded, <<>>} /\ step' = "next"
        /\ UNCHANGED <<file, dirs, removed>>
    BY <1>1 DEF StartInstall
  <2>3. calls' \in Seq(CallRecord) /\ Len(calls') = 1 /\ calls' # <<>>
    BY <2>1, <2>2
  <2>4. mem' \in Seq(Entry) /\ Len(mem') <= MaxPackages
    <3>1. mem' \in {file, <<>>}
      BY <2>2, LoadedPrefix
    <3>2. CASE mem' = file
      BY <1>0, <3>2
    <3>3. CASE mem' = <<>>
      <4>1. Len(mem') = 0 /\ mem' \in Seq(Entry)
        BY <3>3
      <4> QED BY <4>1, PackageAssumption
    <3> QED BY <3>1, <3>2, <3>3
  <2> QED BY <1>0, <2>2, <2>3, <2>4 DEF PackageTypes, Installing
<1>2. ASSUME NEW n \in Names, RemovePackage(n) PROVE PackageTypes'
  <2>1. PICK i \in DOMAIN Loaded :
          /\ Delete(Loaded[i].path)
          /\ \/ mem' = RemoveAt(Loaded, i) /\ step' = "saveRemoved" /\ UNCHANGED calls
             \/ file' = <<>> /\ Exit
    BY <1>2 DEF RemovePackage
  <2>2. Loaded = file /\ i \in 1 .. Len(file)
    BY <1>0, <2>1, LoadedPrefix
  <2>3. dirs' \in [Names -> Directory] /\ file' \in {file, <<>>}
    BY <1>0, <2>1, DeletedDirectories
  <2>4. step = "idle" /\ removed' \subseteq Names /\ calls = <<>>
    BY <1>0, <1>2 DEF RemovePackage, Installing
  <2>5. CASE mem' = RemoveAt(Loaded, i) /\ step' = "saveRemoved" /\ UNCHANGED calls
    <3>1. mem' \in Seq(Entry) /\ Len(mem') <= MaxPackages
      BY <1>0, <2>2, <2>5, RemoveAtSet, PackageAssumption
    <3>2. file' \in Seq(Entry) /\ Len(file') <= MaxPackages
      <4>1. CASE file' = file
        BY <1>0, <4>1
      <4>2. CASE file' = <<>>
        <5>1. Len(file') = 0 /\ file' \in Seq(Entry)
          BY <4>2
        <5> QED BY <5>1, PackageAssumption
      <4> QED BY <2>3, <4>1, <4>2
    <3>3. calls' = <<>> /\ step' = "saveRemoved"
      BY <2>4, <2>5
    <3> QED BY <2>3, <2>4, <3>1, <3>2, <3>3 DEF PackageTypes, Installing
  <2>6. CASE file' = <<>> /\ Exit
    BY <1>0, <2>3, <2>4, <2>6, PackageAssumption DEF PackageTypes, Installing, Exit
  <2> QED BY <2>1, <2>5, <2>6
<1>3. ASSUME AlreadyInstalled PROVE PackageTypes'
  <2>1. calls # <<>> /\ step = "next"
    BY <1>3, Working DEF AlreadyInstalled, AtDependency
  <2>2. /\ calls' = [calls EXCEPT ![Len(calls)].at = @ + 1]
        /\ UNCHANGED <<file, dirs, mem, step, removed>>
    BY <1>3 DEF AlreadyInstalled, Return
  <2>3. /\ calls' \in Seq(CallRecord) /\ Len(calls') = Len(calls) /\ calls' # <<>>
        /\ \A i \in 1 .. Len(calls) : calls'[i].name = calls[i].name
    BY <2>1, <2>2, ReturnCalls
  <2> QED BY <1>0, <2>1, <2>2, <2>3 DEF PackageTypes, Installing
<1>4. ASSUME FoundDirectory PROVE PackageTypes'
  <2>1. calls # <<>> /\ step = "next" /\ Wanted \in Dependency /\ Top.at <= Len(Top.deps)
    BY <1>4, Working DEF FoundDirectory, AtDependency
  <2>2. mem' = Register(Wanted) /\ UNCHANGED <<file, dirs, removed>>
    BY <1>4 DEF FoundDirectory
  <2>3. mem' \in Seq(Entry) /\ Len(mem') <= MaxPackages
    BY <2>1, <2>2, RegisterAdds
  <2>4. CASE Full
    <3>1. calls' = [calls EXCEPT ![Len(calls)].at = @ + 1] /\ UNCHANGED step
      BY <1>4, <2>4 DEF FoundDirectory, Return
    <3>2. /\ calls' \in Seq(CallRecord) /\ Len(calls') = Len(calls) /\ calls' # <<>>
          /\ \A i \in 1 .. Len(calls) : calls'[i].name = calls[i].name
      BY <2>1, <3>1, ReturnCalls
    <3> QED BY <1>0, <2>1, <2>2, <2>3, <3>1, <3>2 DEF PackageTypes, Installing
  <2>5. CASE ~Full
    <3>1. step' = "saveFound" /\ UNCHANGED calls
      BY <1>4, <2>5 DEF FoundDirectory
    <3>2. Top' = Top
      BY <3>1, SameWanted
    <3> QED BY <1>0, <2>1, <2>2, <2>3, <3>1, <3>2 DEF PackageTypes, Installing
  <2> QED BY <2>4, <2>5
<1>5. ASSUME StartCopy PROVE PackageTypes'
  <2>1. calls # <<>> /\ Wanted \in Dependency /\ Wanted.name \in Names /\ Top.at <= Len(Top.deps)
    BY <1>5, Working DEF StartCopy
  <2>2. /\ dirs' = [dirs EXCEPT ![Wanted.name] = [from |-> Wanted.req.of, whole |-> FALSE]]
        /\ step' = "copy" /\ UNCHANGED <<file, mem, calls, removed>> /\ Wanted.req.op = "at"
    BY <1>5 DEF StartCopy
  <2>3. Wanted.req.of \in Sources
    BY <2>1, <2>2, AtSource
  <2>4. [from |-> Wanted.req.of, whole |-> FALSE] \in Directory
    BY <2>3 DEF Directory
  <2>5. dirs' \in [Names -> Directory] /\ dirs'[Wanted.name].from \in Sources
    BY <1>0, <2>1, <2>2, <2>3, <2>4
  <2>6. Top' = Top /\ Wanted' = Wanted
    BY <2>2, SameWanted
  <2> QED BY <1>0, <2>1, <2>2, <2>5, <2>6 DEF PackageTypes, Installing
<1>6. ASSUME UnknownSource PROVE PackageTypes'
  <2>1. calls # <<>> /\ step = "next"
    BY <1>6, Working DEF UnknownSource, AtDependency
  <2>2. /\ calls' = [calls EXCEPT ![Len(calls)].at = @ + 1]
        /\ UNCHANGED <<file, dirs, mem, step, removed>>
    BY <1>6 DEF UnknownSource, Return
  <2>3. /\ calls' \in Seq(CallRecord) /\ Len(calls') = Len(calls) /\ calls' # <<>>
        /\ \A i \in 1 .. Len(calls) : calls'[i].name = calls[i].name
    BY <2>1, <2>2, ReturnCalls
  <2> QED BY <1>0, <2>1, <2>2, <2>3 DEF PackageTypes, Installing
<1>7. ASSUME CopyFails PROVE PackageTypes'
  <2>1. calls # <<>> /\ Wanted.name \in Names
    BY <1>7, Working DEF CopyFails
  <2>2. /\ calls' = [calls EXCEPT ![Len(calls)].at = @ + 1]
        /\ step' = "next" /\ UNCHANGED <<file, mem, removed>>
    BY <1>7 DEF CopyFails, Return
  <2>3. dirs' \in [Names -> Directory]
    BY <1>0, <1>7, <2>1, NoDirectory DEF CopyFails
  <2>4. /\ calls' \in Seq(CallRecord) /\ Len(calls') = Len(calls) /\ calls' # <<>>
        /\ \A i \in 1 .. Len(calls) : calls'[i].name = calls[i].name
    BY <2>1, <2>2, ReturnCalls
  <2> QED BY <1>0, <2>1, <2>2, <2>3, <2>4 DEF PackageTypes, Installing
<1>8. ASSUME CopyDone PROVE PackageTypes'
  <2>1. /\ calls # <<>> /\ Wanted \in Dependency /\ Wanted.name \in Names /\ Top.at <= Len(Top.deps)
        /\ dirs[Wanted.name].from \in Sources
    BY <1>8, Working DEF CopyDone, PackageTypes
  <2>2. /\ dirs' = [dirs EXCEPT ![Wanted.name].whole = TRUE]
        /\ mem' = Register(Wanted) /\ UNCHANGED <<file, removed>>
    BY <1>8 DEF CopyDone
  <2>3. mem' \in Seq(Entry) /\ Len(mem') <= MaxPackages
    BY <2>1, <2>2, RegisterAdds
  <2>4. dirs' \in [Names -> Directory] /\ dirs'[Wanted.name].from = dirs[Wanted.name].from
    BY <2>1, <2>2, CopiedDirectory
  <2>5. CASE Full
    <3>1. Descend(Wanted) /\ step' = "next"
      BY <1>8, <2>5 DEF CopyDone
    <3>2. /\ calls' \in Seq(CallRecord) /\ Len(calls') = Len(calls) + 1 /\ calls' # <<>>
          /\ \A i \in 1 .. Len(calls) : calls'[i] = calls[i]
          /\ calls'[Len(calls) + 1].name = Wanted.name
          /\ \A i \in 2 .. Len(calls') : calls'[i].name \in Names
      BY <2>1, <3>1, DescendCalls
    <3> QED BY <1>0, <2>2, <2>3, <2>4, <3>1, <3>2 DEF PackageTypes, Installing
  <2>6. CASE ~Full
    <3>1. step' = "saveNew" /\ UNCHANGED calls
      BY <1>8, <2>6 DEF CopyDone
    <3>2. Top' = Top /\ Wanted' = Wanted
      BY <3>1, SameWanted
    <3> QED BY <1>0, <2>1, <2>2, <2>3, <2>4, <3>1, <3>2 DEF PackageTypes, Installing
  <2> QED BY <2>5, <2>6
<1>9. ASSUME Save PROVE PackageTypes'
  <2>1. file' \in Seq(Entry) /\ Len(file') <= MaxPackages /\ UNCHANGED <<dirs, removed>>
    <3>1. file' = file \/ file' \in Written(mem)
      BY <1>9 DEF Save
    <3> QED BY <1>0, <1>9, <3>1, WrittenKnown DEF Save
  <2>2. ASSUME step = "saveNew", Descend(Wanted), step' = "next", UNCHANGED mem PROVE PackageTypes'
    <3>1. calls # <<>> /\ Wanted \in Dependency /\ Wanted.name \in Names /\ dirs[Wanted.name].from \in Sources
      BY <2>2, Working DEF PackageTypes
    <3>2. /\ calls' \in Seq(CallRecord) /\ Len(calls') = Len(calls) + 1 /\ calls' # <<>>
          /\ \A i \in 1 .. Len(calls) : calls'[i] = calls[i]
          /\ calls'[Len(calls) + 1].name = Wanted.name
          /\ \A i \in 2 .. Len(calls') : calls'[i].name \in Names
      BY <2>2, <3>1, DescendCalls
    <3> QED BY <1>0, <2>1, <2>2, <3>2 DEF PackageTypes, Installing
  <2>3. ASSUME NEW opened \in BOOLEAN, step = "saveFound", Return(opened), step' = "next", UNCHANGED mem
        PROVE  PackageTypes'
    <3>1. calls # <<>>
      BY <2>3, Working
    <3>2. calls' = [calls EXCEPT ![Len(calls)].at = @ + 1]
      BY <2>3 DEF Return
    <3> QED BY <1>0, <2>1, <2>3, <3>1, <3>2, ReturnCalls DEF PackageTypes, Installing
  <2>4. ASSUME step = "saveRemoved", Exit PROVE PackageTypes'
    BY <1>0, <2>1, <2>4, PackageAssumption DEF PackageTypes, Installing, Exit
  <2> QED BY <1>9, <2>2, <2>3, <2>4 DEF Save
<1>10. ASSUME LeavePackage PROVE PackageTypes'
  <2>1. step = "next" /\ UNCHANGED <<file, dirs, mem, step, removed>>
    BY <1>10 DEF LeavePackage
  <2>2. /\ calls' \in Seq(CallRecord) /\ Len(calls') = Len(calls) - 1 /\ calls' # <<>>
        /\ \A i \in 1 .. Len(calls) - 1 : calls'[i].name = calls[i].name
    BY <1>10, LeaveCalls
  <2>3. \A i \in 2 .. Len(calls') : calls'[i].name \in Names
    BY <1>0, <2>2
  <2> QED BY <1>0, <2>1, <2>2, <2>3 DEF PackageTypes, Installing
<1>11. ASSUME FinishInstall PROVE PackageTypes'
  BY <1>0, <1>11, PackageAssumption DEF FinishInstall, Exit, PackageTypes, Installing
<1>12. ASSUME Crash PROVE PackageTypes'
  <2>1. file' \in Seq(Entry) /\ Len(file') <= MaxPackages
    <3>1. file' = file \/ file' \in Written(mem)
      BY <1>12 DEF Crash
    <3> QED BY <1>0, <3>1, WrittenKnown
  <2>2. mem' = <<>> /\ calls' = <<>> /\ step' = "idle" /\ UNCHANGED <<dirs, removed>>
    BY <1>12 DEF Crash, Exit
  <2> QED BY <1>0, <2>1, <2>2, PackageAssumption DEF PackageTypes, Installing
<1>13. ASSUME UNCHANGED vars PROVE PackageTypes'
  <2>1. UNCHANGED <<file, dirs, mem, calls, step, removed>>
    BY <1>13 DEF vars
  <2>2. Top' = Top /\ Wanted' = Wanted
    BY <2>1, SameWanted
  <2> QED BY <2>1, <2>2 DEF PackageTypes, Installing
<1> QED BY <1>1, <1>2, <1>3, <1>4, <1>5, <1>6, <1>7, <1>8, <1>9, <1>10, <1>11, <1>12, <1>13 DEF Next, InstallStep

-----------------------------------------------------------------------------
\* Directories of what is registered.

LEMMA EntriesAreDependencies ==
  ASSUME PackageTypes
  PROVE  \A e \in Entries \cup Known(mem) : e \in Dependency /\ e.name \in Names
<1>1. Entries \subseteq Dependency /\ Known(mem) \subseteq Dependency
  BY KnownSet DEF PackageTypes, Entries
<1> QED BY <1>1 DEF Dependency

(* What was disturbed stays so.                                            *)
LEMMA DisturbedStays ==
  ASSUME [Next]_vars, disturbed
  PROVE  disturbed'
<1>1. ASSUME NEW p \in Projects, StartInstall(p) PROVE disturbed'
  BY <1>1 DEF StartInstall
<1>2. ASSUME NEW n \in Names, RemovePackage(n) PROVE disturbed'
  BY <1>2 DEF RemovePackage
<1>3. ASSUME FoundDirectory PROVE disturbed'
  BY <1>3, Zenon DEF FoundDirectory
<1>4. ASSUME Save PROVE disturbed'
  BY <1>4 DEF Save
<1>5. ASSUME UnknownSource \/ CopyFails \/ Crash PROVE disturbed'
  BY <1>5 DEF UnknownSource, CopyFails, Crash
<1>6. ASSUME AlreadyInstalled \/ StartCopy \/ CopyDone \/ LeavePackage \/ FinishInstall \/ UNCHANGED vars
      PROVE  disturbed'
  BY <1>6 DEF AlreadyInstalled, StartCopy, CopyDone, LeavePackage, FinishInstall, vars
<1> QED BY <1>1, <1>2, <1>3, <1>4, <1>5, <1>6 DEF Next, InstallStep

(* What is taken stays so.                                                 *)
LEMMA TakenStays ==
  ASSUME [Next]_vars, NEW n, Taken(n)
  PROVE  Taken(n)'
<1>1. removed \subseteq removed'
  BY DEF Next, InstallStep, vars, StartInstall, RemovePackage, AlreadyInstalled, FoundDirectory, StartCopy,
         UnknownSource, CopyFails, CopyDone, Save, LeavePackage, FinishInstall, Crash
<1>2. struck \subseteq struck'
  <2>1. ASSUME NEW m \in Names, RemovePackage(m) PROVE struck \subseteq struck'
    BY <2>1 DEF RemovePackage
  <2> QED BY <2>1 DEF Next, InstallStep, vars, StartInstall, AlreadyInstalled, FoundDirectory, StartCopy,
         UnknownSource, CopyFails, CopyDone, Save, LeavePackage, FinishInstall, Crash
<1>3. disturbed => disturbed'
  BY DisturbedStays
<1> QED BY <1>1, <1>2, <1>3 DEF Taken

(* A step that registers nothing new, takes no directory away and starts   *)
(* no copy.                                                                *)
LEMMA RegistryShrinks ==
  ASSUME RegisteredHasDirectory, [Next]_vars, UNCHANGED dirs, step' # "copy",
         Entries' \cup Known(mem') \subseteq Entries \cup Known(mem)
  PROVE  RegisteredHasDirectory' /\ CopyIsUnregistered'
<1>1. \A e \in Entries \cup Known(mem) : dirs[e.name] # NoDir \/ Taken(e.name)
  BY DEF RegisteredHasDirectory, Taken
<1>2. \A e \in Entries \cup Known(mem) : dirs'[e.name] # NoDir \/ Taken(e.name)'
  BY <1>1, TakenStays
<1> QED BY <1>2 DEF RegisteredHasDirectory, CopyIsUnregistered, Taken

LEMMA RegistryInit == Init => RegisteredHasDirectory /\ CopyIsUnregistered /\ PathsWhole
BY DEF Init, RegisteredHasDirectory, CopyIsUnregistered, PathsWhole, Entries, Known, ToSet

LEMMA RegistryNext ==
  PackageTypes /\ PathsWhole /\ RegisteredHasDirectory /\ CopyIsUnregistered /\ [Next]_vars
    => RegisteredHasDirectory' /\ CopyIsUnregistered'
<1> SUFFICES ASSUME PackageTypes, PathsWhole, RegisteredHasDirectory, CopyIsUnregistered, [Next]_vars
             PROVE  RegisteredHasDirectory' /\ CopyIsUnregistered'
  OBVIOUS
<1>0. \A e \in Entries \cup Known(mem) :
        /\ e.name \in Names
        /\ dirs[e.name] # NoDir \/ Taken(e.name)
  BY EntriesAreDependencies DEF RegisteredHasDirectory, Taken
<1>t. dirs \in [Names -> Directory]
  BY DEF PackageTypes
<1>k. \A n : Taken(n) => Taken(n)'
  BY TakenStays
<1>1. ASSUME NEW p \in Projects, StartInstall(p) PROVE RegisteredHasDirectory' /\ CopyIsUnregistered'
  <2>1. mem' \in {file, <<>>} /\ step' # "copy" /\ UNCHANGED <<file, dirs>>
    BY <1>1, LoadedPrefix DEF StartInstall
  <2>2. Known(mem') \subseteq Entries /\ Entries' = Entries
    BY <2>1 DEF Entries, Known
  <2> QED BY <2>1, <2>2, RegistryShrinks
<1>2. ASSUME NEW n \in Names, RemovePackage(n) PROVE RegisteredHasDirectory' /\ CopyIsUnregistered'
  <2>1. PICK i \in DOMAIN Loaded :
          /\ Loaded[i].name = n
          /\ Delete(Loaded[i].path)
          /\ struck' = struck \cup (Loaded[i].path \ {n})
          /\ \/ mem' = RemoveAt(Loaded, i) /\ step' = "saveRemoved"
             \/ file' = <<>> /\ mem' = <<>> /\ step' = "idle"
    BY <1>2 DEF RemovePackage, Exit
  <2>2. Loaded = file /\ i \in 1 .. Len(file) /\ file \in Seq(Entry)
    BY <2>1, LoadedPrefix DEF PackageTypes
  <2>3. Known(mem') \subseteq Entries
    <3>1. CASE mem' = RemoveAt(Loaded, i)
      <4>1. mem' \in Seq(Entry) /\ ToSet(mem') \subseteq ToSet(file)
        BY <2>2, <3>1, RemoveAtSet
      <4> QED BY <2>2, <4>1, KnownSet DEF Entries
    <3>2. CASE mem' = <<>>
      BY <3>2 DEF Known
    <3> QED BY <2>1, <3>1, <3>2
  <2>4. Entries' \subseteq Entries
    <3>1. file' \in {file, <<>>}
      BY <2>1, DeletedDirectories
    <3> QED BY <3>1 DEF Entries, Known
  <2>5. \A m \in Names : m \notin file[i].path => dirs'[m] = dirs[m]
    BY <2>1, <2>2, DeletedDirectories
  <2>6. removed' = removed \cup {n} /\ disturbed' = disturbed
    BY <1>2 DEF RemovePackage
  <2>7. ASSUME NEW m \in Names, m \in file[i].path PROVE Taken(m)'
    <3>1. CASE m = n
      BY <2>6, <3>1 DEF Taken
    <3>2. CASE m # n
      <4>1. m \in struck' /\ file[i].path # {n} /\ file[i].name = n
        BY <2>1, <2>2, <2>7, <3>2
      <4>2. file[i] \in ToSet(file)
        BY <2>2, InSequence
      <4>3. disturbed
        BY <4>1, <4>2 DEF PathsWhole
      <4> QED BY <2>6, <4>1, <4>3 DEF Taken
    <3> QED BY <3>1, <3>2
  <2>8. \A e \in Entries' \cup Known(mem') : dirs'[e.name] # NoDir \/ Taken(e.name)'
    BY <1>0, <1>k, <2>3, <2>4, <2>5, <2>7
  <2>9. step' # "copy"
    BY <2>1
  <2> QED BY <2>8, <2>9 DEF CopyIsUnregistered, RegisteredHasDirectory, Taken
<1>3. ASSUME AlreadyInstalled \/ UnknownSource PROVE RegisteredHasDirectory' /\ CopyIsUnregistered'
  <2>1. step' # "copy" /\ UNCHANGED <<file, mem, dirs>>
    BY <1>3 DEF AlreadyInstalled, UnknownSource, AtDependency
  <2> QED BY <2>1, RegistryShrinks DEF Entries
<1>4. ASSUME FoundDirectory PROVE RegisteredHasDirectory' /\ CopyIsUnregistered'
  <2>1. Wanted \in Dependency /\ dirs[Wanted.name] # NoDir /\ mem' = Register(Wanted)
        /\ step' # "copy" /\ UNCHANGED <<file, dirs>>
    BY <1>4, Working DEF FoundDirectory, AtDependency
  <2>2. \A e \in Known(mem') : e \in Known(mem) \/ e.name = Wanted.name
    BY <2>1, RegisterAdds
  <2>3. Entries' = Entries
    BY <2>1 DEF Entries
  <2>4. \A e \in Entries' \cup Known(mem') : dirs'[e.name] # NoDir \/ Taken(e.name)'
    BY <1>0, <1>k, <2>1, <2>2, <2>3
  <2> QED BY <2>1, <2>4 DEF RegisteredHasDirectory, CopyIsUnregistered, Taken
<1>5. ASSUME StartCopy PROVE RegisteredHasDirectory' /\ CopyIsUnregistered'
  <2>1. Wanted \in Dependency /\ Wanted.name \in Names
    BY <1>5, Working DEF StartCopy
  <2>2. /\ dirs' = [dirs EXCEPT ![Wanted.name] = [from |-> Wanted.req.of, whole |-> FALSE]]
        /\ dirs[Wanted.name] = NoDir /\ Wanted.req.op = "at"
        /\ UNCHANGED <<file, mem, calls>>
    BY <1>5 DEF StartCopy
  <2>3. [from |-> Wanted.req.of, whole |-> FALSE] # NoDir
    BY <2>1, <2>2, AtSource, PackageAssumption DEF NoDir
  <2>4. Wanted' = Wanted /\ Entries' = Entries /\ Known(mem') = Known(mem)
    BY <2>2, SameWanted DEF Entries
  <2>5. \A e \in Entries \cup Known(mem) : dirs'[e.name] # NoDir \/ Taken(e.name)'
    BY <1>0, <1>t, <1>k, <2>1, <2>2, <2>3
  <2>6. \A e \in Entries \cup Known(mem) : e.name = Wanted.name => Taken(e.name)'
    BY <1>0, <1>k, <2>2
  <2> QED BY <2>4, <2>5, <2>6 DEF RegisteredHasDirectory, CopyIsUnregistered, Taken
<1>6. ASSUME CopyFails PROVE RegisteredHasDirectory' /\ CopyIsUnregistered'
  <2>1. Wanted.name \in Names /\ step = "copy"
    BY <1>6, Working DEF CopyFails
  <2>2. /\ \A m \in Names : m # Wanted.name => dirs'[m] = dirs[m]
        /\ step' = "next" /\ UNCHANGED <<file, mem>>
    BY <1>6, <1>t, <2>1 DEF CopyFails
  <2>3. \A e \in Entries \cup Known(mem) : e.name = Wanted.name => Taken(e.name)
    BY <2>1 DEF CopyIsUnregistered
  <2>4. Entries' = Entries /\ Known(mem') = Known(mem)
    BY <2>2 DEF Entries
  <2>5. \A e \in Entries \cup Known(mem) : dirs'[e.name] # NoDir \/ Taken(e.name)'
    BY <1>0, <1>k, <2>2, <2>3
  <2> QED BY <2>2, <2>4, <2>5 DEF RegisteredHasDirectory, CopyIsUnregistered, Taken
<1>7. ASSUME CopyDone PROVE RegisteredHasDirectory' /\ CopyIsUnregistered'
  <2>1. Wanted \in Dependency /\ Wanted.name \in Names /\ dirs[Wanted.name].from \in Sources
    BY <1>7, Working DEF CopyDone, PackageTypes
  <2>2. /\ dirs' = [dirs EXCEPT ![Wanted.name].whole = TRUE]
        /\ mem' = Register(Wanted) /\ step' # "copy" /\ UNCHANGED file
    BY <1>7 DEF CopyDone
  <2>3. /\ dirs' \in [Names -> Directory] /\ dirs'[Wanted.name].from \in Sources
        /\ \A m \in Names : m # Wanted.name => dirs'[m] = dirs[m]
    BY <2>1, <2>2, CopiedDirectory
  <2>4. dirs'[Wanted.name] # NoDir
    BY <2>1, <2>3, NoDirectory
  <2>5. \A e \in Known(mem') : e \in Known(mem) \/ e.name = Wanted.name
    BY <2>1, <2>2, RegisterAdds
  <2>6. Entries' = Entries
    BY <2>2 DEF Entries
  <2>7. \A e \in Entries' \cup Known(mem') : dirs'[e.name] # NoDir \/ Taken(e.name)'
    BY <1>0, <1>k, <2>3, <2>4, <2>5, <2>6
  <2> QED BY <2>2, <2>7 DEF RegisteredHasDirectory, CopyIsUnregistered, Taken
<1>8. ASSUME Save \/ Crash PROVE RegisteredHasDirectory' /\ CopyIsUnregistered'
  <2>1. (file' = file \/ file' \in Written(mem)) /\ mem' \in {mem, <<>>} /\ step' # "copy" /\ UNCHANGED dirs
    BY <1>8 DEF Save, Crash, Exit
  <2>2. Entries' \subseteq Entries \cup Known(mem)
    BY <2>1, WrittenKnown DEF Entries
  <2>3. Known(mem') \subseteq Known(mem)
    BY <2>1 DEF Known
  <2> QED BY <2>1, <2>2, <2>3, RegistryShrinks
<1>9. ASSUME LeavePackage \/ FinishInstall PROVE RegisteredHasDirectory' /\ CopyIsUnregistered'
  <2>1. step' # "copy" /\ UNCHANGED <<file, dirs>> /\ mem' \in {mem, <<>>}
    BY <1>9 DEF LeavePackage, FinishInstall, Exit
  <2>2. Entries' = Entries /\ Known(mem') \subseteq Known(mem)
    BY <2>1 DEF Entries, Known
  <2> QED BY <2>1, <2>2, RegistryShrinks
<1>10. ASSUME UNCHANGED vars PROVE RegisteredHasDirectory' /\ CopyIsUnregistered'
  <2>1. UNCHANGED <<file, dirs, mem, calls, step, removed, struck, disturbed>>
    BY <1>10 DEF vars
  <2>2. Wanted' = Wanted /\ Entries' = Entries /\ Known(mem') = Known(mem)
    BY <2>1, SameWanted DEF Entries
  <2> QED BY <2>1, <2>2 DEF RegisteredHasDirectory, CopyIsUnregistered, Taken
<1> QED BY <1>1, <1>2, <1>3, <1>4, <1>5, <1>6, <1>7, <1>8, <1>9, <1>10
        DEF Next, InstallStep

LEMMA PathsNext == PackageTypes /\ PathsWhole /\ [Next]_vars => PathsWhole'
<1> SUFFICES ASSUME PackageTypes, PathsWhole, [Next]_vars, ~disturbed'
             PROVE  \A e \in ToSet(file)' \cup ToSet(mem)' : e.path = {e.name}
  BY DEF PathsWhole
<1>0. \A e \in ToSet(file) \cup ToSet(mem) : e.path = {e.name}
  BY DisturbedStays DEF PathsWhole
<1>e. ToSet(<<>>) = {}
  BY DEF ToSet
<1>s. ASSUME ToSet(file') \subseteq ToSet(file) \cup ToSet(mem), ToSet(mem') \subseteq ToSet(file) \cup ToSet(mem)
      PROVE  \A e \in ToSet(file)' \cup ToSet(mem)' : e.path = {e.name}
  BY <1>0, <1>s
<1>1. ASSUME NEW p \in Projects, StartInstall(p) PROVE \A e \in ToSet(file)' \cup ToSet(mem)' : e.path = {e.name}
  <2>1. mem' \in {file, <<>>} /\ file' = file
    BY <1>1, LoadedPrefix DEF StartInstall
  <2> QED BY <1>e, <1>s, <2>1
<1>2. ASSUME NEW n \in Names, RemovePackage(n) PROVE \A e \in ToSet(file)' \cup ToSet(mem)' : e.path = {e.name}
  <2>1. PICK i \in DOMAIN Loaded :
          /\ Delete(Loaded[i].path)
          /\ mem' = RemoveAt(Loaded, i) \/ mem' = <<>>
    BY <1>2 DEF RemovePackage, Exit
  <2>2. Loaded = file /\ i \in 1 .. Len(file) /\ file \in Seq(Entry)
    BY <2>1, LoadedPrefix DEF PackageTypes
  <2>3. ToSet(mem') \subseteq ToSet(file)
    BY <1>e, <2>1, <2>2, RemoveAtSet
  <2>4. file' \in {file, <<>>}
    BY <2>1, DeletedDirectories
  <2> QED BY <1>e, <1>s, <2>3, <2>4
<1>3. ASSUME FoundDirectory \/ CopyDone PROVE \A e \in ToSet(file)' \cup ToSet(mem)' : e.path = {e.name}
  <2>1. Wanted \in Dependency
    BY <1>3, Working DEF FoundDirectory, CopyDone
  <2>2. file' = file /\ mem' = Register(Wanted)
    BY <1>3 DEF FoundDirectory, CopyDone
  <2>3. \A e \in ToSet(mem') : e \in ToSet(mem) \/ e.path = {e.name}
    BY <2>1, <2>2, RegisterAdds
  <2> QED BY <1>0, <2>2, <2>3
<1>4. ASSUME Save PROVE \A e \in ToSet(file)' \cup ToSet(mem)' : e.path = {e.name}
  <2>1. file' = mem /\ mem' \in {mem, <<>>}
    BY <1>4 DEF Save, Exit
  <2> QED BY <1>e, <1>s, <2>1
<1>5. ~UnknownSource /\ ~CopyFails /\ ~Crash
  BY DEF UnknownSource, CopyFails, Crash
<1>6. ASSUME AlreadyInstalled \/ StartCopy \/ LeavePackage \/ FinishInstall \/ UNCHANGED vars
      PROVE  \A e \in ToSet(file)' \cup ToSet(mem)' : e.path = {e.name}
  <2>1. file' = file /\ mem' \in {mem, <<>>}
    BY <1>6 DEF AlreadyInstalled, StartCopy, LeavePackage, FinishInstall, Exit, vars
  <2> QED BY <1>e, <1>s, <2>1
<1> QED BY <1>1, <1>2, <1>3, <1>4, <1>5, <1>6 DEF Next, InstallStep

-----------------------------------------------------------------------------
\* The calls in progress.

CallsInv == NoCircle /\ CopyIsNew /\ CallersHaveDirectories

LEMMA CallsInit == Init => CallsInv
BY DEF Init, CallsInv, NoCircle, CopyIsNew, CallersHaveDirectories

(* A step that adds no call, takes no caller's directory away and starts   *)
(* no copy.                                                                *)
LEMMA CallsShrink ==
  ASSUME CallsInv, Len(calls) \in Nat, Len(calls') \in Nat, Len(calls') <= Len(calls),
         \A i \in 1 .. Len(calls') : calls'[i].name = calls[i].name,
         \A i \in 2 .. Len(calls) : dirs'[calls[i].name] # NoDir,
         step' \notin {"copy", "saveNew"}
  PROVE  CallsInv'
<1>1. \A i \in 2 .. Len(calls') : i \in 2 .. Len(calls) /\ i \in 1 .. Len(calls')
  OBVIOUS
<1>2. NoCircle'
  BY <1>1 DEF CallsInv, NoCircle
<1>3. CallersHaveDirectories'
  BY <1>1 DEF CallersHaveDirectories
<1> QED BY <1>2, <1>3 DEF CallsInv, CopyIsNew

(* A call is added for a package that none is for.                         *)
LEMMA CallsGrow ==
  ASSUME PackageTypes, CallsInv, step \in {"copy", "saveNew"}, Wanted \in Dependency,
         dirs[Wanted.name].from \in Sources, dirs'[Wanted.name] # NoDir,
         \A n \in Names : n # Wanted.name => dirs'[n] = dirs[n],
         Descend(Wanted), step' = "next"
  PROVE  CallsInv'
<1>1. /\ Len(calls') = Len(calls) + 1
      /\ \A i \in 1 .. Len(calls) : calls'[i] = calls[i]
      /\ calls'[Len(calls) + 1].name = Wanted.name
  BY DescendCalls
<1>2. /\ Len(calls) \in Nat
      /\ \A i \in 2 .. Len(calls) : calls[i].name \in Names /\ calls[i].name # Wanted.name
  BY DEF PackageTypes, CallsInv, CopyIsNew
<1>3. \A i \in 2 .. Len(calls') : i = Len(calls) + 1 \/ i \in 2 .. Len(calls)
  BY <1>1, <1>2
<1>4. ASSUME NEW i \in 2 .. Len(calls'), NEW j \in 2 .. Len(calls'), calls'[i].name = calls'[j].name
      PROVE  i = j
  <2>1. \A k \in 2 .. Len(calls) : calls'[k].name = calls[k].name
    BY <1>1
  <2>2. CASE i \in 2 .. Len(calls) /\ j \in 2 .. Len(calls)
    BY <1>4, <2>1, <2>2 DEF CallsInv, NoCircle
  <2>3. CASE i = Len(calls) + 1 \/ j = Len(calls) + 1
    BY <1>1, <1>2, <1>3, <1>4, <2>1, <2>3
  <2> QED BY <1>3, <2>2, <2>3
<1>5. ASSUME NEW i \in 2 .. Len(calls') PROVE dirs'[calls'[i].name] # NoDir
  <2>1. CASE i = Len(calls) + 1
    BY <1>1, <2>1
  <2>2. CASE i \in 2 .. Len(calls)
    BY <1>1, <1>2, <2>2 DEF CallsInv, CallersHaveDirectories
  <2> QED BY <1>3, <2>1, <2>2
<1> QED BY <1>4, <1>5 DEF CallsInv, NoCircle, CallersHaveDirectories, CopyIsNew

LEMMA CallsNext == PackageTypes /\ CallsInv /\ [Next]_vars => CallsInv'
<1> SUFFICES ASSUME PackageTypes, CallsInv, [Next]_vars PROVE CallsInv'
  OBVIOUS
<1>0. /\ Len(calls) \in Nat
      /\ \A i \in 2 .. Len(calls) : calls[i].name \in Names /\ dirs[calls[i].name] # NoDir
      /\ dirs \in [Names -> Directory]
      /\ step \notin Installing => Len(calls) = 0
  BY DEF PackageTypes, CallsInv, CallersHaveDirectories
<1>1. ASSUME NEW p \in Projects, StartInstall(p) PROVE CallsInv'
  <2>1. Len(calls') = 1 /\ step' = "next"
    BY <1>1 DEF StartInstall
  <2> QED BY <2>1 DEF CallsInv, NoCircle, CopyIsNew, CallersHaveDirectories
<1>2. ASSUME NEW n \in Names, RemovePackage(n) PROVE CallsInv'
  <2>1. Len(calls) = 0 /\ (calls' = calls \/ calls' = <<>>) /\ step' \in {"saveRemoved", "idle"}
    BY <1>0, <1>2 DEF RemovePackage, Installing, Exit
  <2>2. Len(calls') = 0
    BY <2>1
  <2> QED BY <2>1, <2>2 DEF CallsInv, NoCircle, CopyIsNew, CallersHaveDirectories
<1>3. ASSUME AlreadyInstalled \/ UnknownSource PROVE CallsInv'
  <2>1. calls # <<>> /\ step' = "next" /\ dirs' = dirs /\ calls' = [calls EXCEPT ![Len(calls)].at = @ + 1]
    BY <1>3, Working DEF AlreadyInstalled, UnknownSource, AtDependency, Return
  <2>2. Len(calls') = Len(calls) /\ \A i \in 1 .. Len(calls) : calls'[i].name = calls[i].name
    BY <2>1, ReturnCalls
  <2> QED BY <1>0, <2>1, <2>2, CallsShrink
<1>4. ASSUME FoundDirectory PROVE CallsInv'
  <2>1. calls # <<>> /\ step = "next" /\ dirs' = dirs
    BY <1>4, Working DEF FoundDirectory, AtDependency
  <2>2. CASE Full
    <3>1. calls' = [calls EXCEPT ![Len(calls)].at = @ + 1] /\ step' = step
      BY <1>4, <2>2 DEF FoundDirectory, Return
    <3>2. Len(calls') = Len(calls) /\ \A i \in 1 .. Len(calls) : calls'[i].name = calls[i].name
      BY <2>1, <3>1, ReturnCalls
    <3> QED BY <1>0, <2>1, <3>1, <3>2, CallsShrink
  <2>3. CASE ~Full
    <3>1. calls' = calls /\ step' = "saveFound"
      BY <1>4, <2>3 DEF FoundDirectory
    <3> QED BY <1>0, <2>1, <3>1, CallsShrink
  <2> QED BY <2>2, <2>3
<1>5. ASSUME StartCopy PROVE CallsInv'
  <2>1. Wanted.name \in Names
    BY <1>5, Working DEF StartCopy
  <2>2. /\ dirs' = [dirs EXCEPT ![Wanted.name] = [from |-> Wanted.req.of, whole |-> FALSE]]
        /\ dirs[Wanted.name] = NoDir /\ calls' = calls
    BY <1>5 DEF StartCopy
  <2>3. Wanted' = Wanted
    BY <2>2, SameWanted
  <2>4. \A i \in 2 .. Len(calls) : calls[i].name # Wanted.name
    BY <1>0, <2>2
  <2>5. \A i \in 2 .. Len(calls) : dirs'[calls[i].name] = dirs[calls[i].name]
    BY <1>0, <2>2, <2>4
  <2> QED BY <1>0, <2>2, <2>3, <2>4, <2>5 DEF CallsInv, NoCircle, CopyIsNew, CallersHaveDirectories
<1>6. ASSUME CopyFails PROVE CallsInv'
  <2>1. calls # <<>> /\ Wanted.name \in Names /\ step = "copy"
    BY <1>6, Working DEF CopyFails
  <2>2. /\ \A m \in Names : m # Wanted.name => dirs'[m] = dirs[m]
        /\ step' = "next" /\ calls' = [calls EXCEPT ![Len(calls)].at = @ + 1]
    BY <1>0, <1>6, <2>1 DEF CopyFails, Return
  <2>3. Len(calls') = Len(calls) /\ \A i \in 1 .. Len(calls) : calls'[i].name = calls[i].name
    BY <2>1, <2>2, ReturnCalls
  <2>4. \A i \in 2 .. Len(calls) : calls[i].name # Wanted.name
    BY <2>1 DEF CallsInv, CopyIsNew
  <2> QED BY <1>0, <2>2, <2>3, <2>4, CallsShrink
<1>7. ASSUME CopyDone PROVE CallsInv'
  <2>1. Wanted \in Dependency /\ Wanted.name \in Names /\ dirs[Wanted.name].from \in Sources /\ step = "copy"
    BY <1>7, Working DEF CopyDone, PackageTypes
  <2>2. dirs' = [dirs EXCEPT ![Wanted.name].whole = TRUE]
    BY <1>7 DEF CopyDone
  <2>3. /\ dirs' \in [Names -> Directory] /\ dirs'[Wanted.name].from \in Sources
        /\ \A m \in Names : m # Wanted.name => dirs'[m] = dirs[m]
    BY <2>1, <2>2, CopiedDirectory
  <2>4. dirs'[Wanted.name] # NoDir
    BY <2>1, <2>3, NoDirectory
  <2>5. CASE Full
    <3>1. Descend(Wanted) /\ step' = "next"
      BY <1>7, <2>5 DEF CopyDone
    <3> QED BY <2>1, <2>3, <2>4, <3>1, CallsGrow
  <2>6. CASE ~Full
    <3>1. step' = "saveNew" /\ calls' = calls
      BY <1>7, <2>6 DEF CopyDone
    <3>2. Wanted' = Wanted
      BY <3>1, SameWanted
    <3>3. \A i \in 2 .. Len(calls) : calls[i].name # Wanted.name
      BY <2>1 DEF CallsInv, CopyIsNew
    <3>4. \A i \in 2 .. Len(calls) : dirs'[calls[i].name] # NoDir
      BY <1>0, <2>3, <3>3
    <3> QED BY <3>1, <3>2, <3>3, <3>4 DEF CallsInv, NoCircle, CopyIsNew, CallersHaveDirectories
  <2> QED BY <2>5, <2>6
<1>8. ASSUME Save PROVE CallsInv'
  <2>1. dirs' = dirs
    BY <1>8 DEF Save
  <2>2. ASSUME step = "saveNew", Descend(Wanted), step' = "next" PROVE CallsInv'
    <3>1. Wanted \in Dependency /\ dirs[Wanted.name].from \in Sources
      BY <2>2, Working DEF PackageTypes
    <3>2. dirs'[Wanted.name] # NoDir
      BY <2>1, <3>1, NoDirectory DEF PackageTypes, Dependency
    <3> QED BY <2>1, <2>2, <3>1, <3>2, CallsGrow
  <2>3. ASSUME NEW opened \in BOOLEAN, step = "saveFound", Return(opened), step' = "next" PROVE CallsInv'
    <3>1. calls # <<>> /\ calls' = [calls EXCEPT ![Len(calls)].at = @ + 1]
      BY <2>3, Working DEF Return
    <3>2. Len(calls') = Len(calls) /\ \A i \in 1 .. Len(calls) : calls'[i].name = calls[i].name
      BY <3>1, ReturnCalls
    <3> QED BY <1>0, <2>1, <2>3, <3>2, CallsShrink
  <2>4. ASSUME Exit PROVE CallsInv'
    <3>1. Len(calls') = 0 /\ step' = "idle"
      BY <2>4 DEF Exit
    <3> QED BY <3>1 DEF CallsInv, NoCircle, CopyIsNew, CallersHaveDirectories
  <2> QED BY <1>8, <2>2, <2>3, <2>4 DEF Save
<1>9. ASSUME LeavePackage PROVE CallsInv'
  <2>1. step' = "next" /\ dirs' = dirs
    BY <1>9 DEF LeavePackage
  <2>2. /\ Len(calls') = Len(calls) - 1 /\ calls' \in Seq(CallRecord)
        /\ \A i \in 1 .. Len(calls) - 1 : calls'[i].name = calls[i].name
    BY <1>9, LeaveCalls
  <2>3. Len(calls') \in Nat
    BY <2>2
  <2> QED BY <1>0, <2>1, <2>2, <2>3, CallsShrink
<1>10. ASSUME FinishInstall \/ Crash PROVE CallsInv'
  <2>1. Len(calls') = 0 /\ step' = "idle"
    BY <1>10 DEF FinishInstall, Crash, Exit
  <2> QED BY <2>1 DEF CallsInv, NoCircle, CopyIsNew, CallersHaveDirectories
<1>11. ASSUME UNCHANGED vars PROVE CallsInv'
  <2>1. UNCHANGED <<dirs, calls, step>>
    BY <1>11 DEF vars
  <2>2. Wanted' = Wanted
    BY <2>1, SameWanted
  <2> QED BY <2>1, <2>2 DEF CallsInv, NoCircle, CopyIsNew, CallersHaveDirectories
<1> QED BY <1>1, <1>2, <1>3, <1>4, <1>5, <1>6, <1>7, <1>8, <1>9, <1>10, <1>11 DEF Next, InstallStep

-----------------------------------------------------------------------------
\* What a command forgets.

LEMMA ForgottenInit == Init => NothingForgotten
BY DEF Init, NothingForgotten, Installing

(* A step of an installation that writes no file.                          *)
LEMMA RegistryGrows ==
  ASSUME NothingForgotten, file' = file, unread' = unread, Known(mem) \subseteq Known(mem'),
         step \in Installing, step' # "saveRemoved"
  PROVE  NothingForgotten'
BY DEF NothingForgotten, Entries

LEMMA ForgottenNext == PackageTypes /\ NothingForgotten /\ [Next]_vars => NothingForgotten'
<1> SUFFICES ASSUME PackageTypes, NothingForgotten, [Next]_vars PROVE NothingForgotten'
  OBVIOUS
<1> USE DEF Installing
<1>1. ASSUME NEW p \in Projects, StartInstall(p) PROVE NothingForgotten'
  <2>1. (unread' \/ mem' = file) /\ file' = file /\ step' = "next"
    BY <1>1, LoadedPrefix DEF StartInstall
  <2> QED BY <2>1 DEF NothingForgotten, Entries
<1>2. ASSUME NEW n \in Names, RemovePackage(n) PROVE NothingForgotten'
  <2>1. PICK i \in DOMAIN Loaded :
          /\ Loaded[i].name = n
          /\ Delete(Loaded[i].path)
          /\ \/ mem' = RemoveAt(Loaded, i) /\ step' = "saveRemoved"
             \/ step' = "idle"
    BY <1>2 DEF RemovePackage, Exit
  <2>2. Loaded = file /\ i \in 1 .. Len(file) /\ file \in Seq(Entry)
    BY <2>1, LoadedPrefix DEF PackageTypes
  <2>3. file[i] \in Entry /\ Core(file[i]) \in Dependency /\ Core(file[i]).name = n
    BY <2>1, <2>2, CoreOfEntry
  <2>4. Entries' \subseteq Entries
    <3>1. file' \in {file, <<>>}
      BY <2>1, DeletedDirectories
    <3> QED BY <3>1 DEF Entries, Known
  <2>5. CASE mem' = RemoveAt(Loaded, i) /\ step' = "saveRemoved"
    <3>1. PICK r : r = RemoveAt(file, i)
      OBVIOUS
    <3>2. r \in Seq(Entry) /\ ToSet(file) \ ToSet(r) \subseteq {file[i]} /\ mem' = r
      BY <2>2, <2>5, <3>1, RemoveAtSet
    <3>3. Entries = {Core(e) : e \in ToSet(file)} /\ Known(mem') = {Core(e) : e \in ToSet(r)}
      BY <2>2, <3>2, KnownSet DEF Entries
    <3>4. Entries \ Known(mem') \subseteq {Core(file[i])}
      BY <3>2, <3>3
    <3>5. n \in removed'
      BY <1>2 DEF RemovePackage
    <3> QED BY <2>3, <2>4, <2>5, <3>4, <3>5 DEF NothingForgotten
  <2>6. CASE step' = "idle"
    BY <2>6 DEF NothingForgotten
  <2> QED BY <2>1, <2>5, <2>6
<1>3. ASSUME AlreadyInstalled \/ UnknownSource \/ StartCopy \/ CopyFails \/ LeavePackage PROVE NothingForgotten'
  <2>1. file' = file /\ mem' = mem /\ unread' = unread /\ step \in Installing /\ step' # "saveRemoved"
    BY <1>3 DEF AlreadyInstalled, UnknownSource, StartCopy, CopyFails, LeavePackage, AtDependency
  <2> QED BY <2>1, RegistryGrows
<1>4. ASSUME FoundDirectory \/ CopyDone PROVE NothingForgotten'
  <2>1. Wanted \in Dependency
    BY <1>4, Working DEF FoundDirectory, CopyDone
  <2>2. file' = file /\ mem' = Register(Wanted) /\ unread' = unread /\ step \in Installing /\ step' # "saveRemoved"
    BY <1>4 DEF FoundDirectory, CopyDone, AtDependency
  <2>3. Known(mem) \subseteq Known(mem')
    BY <2>1, <2>2, RegisterAdds
  <2> QED BY <2>2, <2>3, RegistryGrows
<1>5. ASSUME Save PROVE NothingForgotten'
  <2>1. file' = file \/ file' \in Written(mem)
    BY <1>5 DEF Save
  <2>2. CASE step = "saveRemoved"
    <3>1. step' = "idle"
      BY <1>5, <2>2 DEF Save, Exit
    <3> QED BY <3>1 DEF NothingForgotten
  <2>3. CASE step # "saveRemoved"
    <3>1. step \in Installing /\ step' = "next" /\ unread' = unread /\ mem' = mem
      BY <1>5, <2>3 DEF Save
    <3>2. ~unread => Entries' \subseteq Known(mem)
      BY <2>1, <3>1, WrittenKnown DEF NothingForgotten, Entries
    <3> QED BY <3>1, <3>2 DEF NothingForgotten
  <2> QED BY <2>2, <2>3
<1>6. ASSUME FinishInstall \/ Crash PROVE NothingForgotten'
  <2>1. step' = "idle"
    BY <1>6 DEF FinishInstall, Crash, Exit
  <2> QED BY <2>1 DEF NothingForgotten
<1>7. ASSUME UNCHANGED vars PROVE NothingForgotten'
  <2>1. UNCHANGED <<file, mem, step, unread, removed>>
    BY <1>7 DEF vars
  <2> QED BY <2>1 DEF NothingForgotten, Entries
<1> QED BY <1>1, <1>2, <1>3, <1>4, <1>5, <1>6, <1>7 DEF Next, InstallStep

(* The file is written by Save, and by Crash in place of it, and removed   *)
(* by RemovePackage.                                                       *)
LEMMA WhoWrites ==
  ASSUME [Next]_vars, file' # file
  PROVE  \/ Save
         \/ Crash /\ step \in Saving
         \/ \E n \in Names : RemovePackage(n)
<1>1. \A p \in Projects : ~StartInstall(p)
  BY DEF StartInstall
<1>3. ~AlreadyInstalled /\ ~FoundDirectory /\ ~StartCopy /\ ~UnknownSource
  BY DEF AlreadyInstalled, FoundDirectory, StartCopy, UnknownSource
<1>4. ~CopyFails /\ ~CopyDone /\ ~LeavePackage /\ ~FinishInstall
  BY DEF CopyFails, CopyDone, LeavePackage, FinishInstall
<1>5. Crash => step \in Saving
  BY DEF Crash
<1>6. ~UNCHANGED vars
  BY DEF vars
<1>7. InstallStep => Save
  BY <1>3, <1>4 DEF InstallStep
<1>8. Next => InstallStep \/ Crash \/ \E n \in Names : RemovePackage(n)
  BY <1>1 DEF Next
<1>9. Next
  BY <1>6
<1> QED BY <1>5, <1>7, <1>8, <1>9

LEMMA ForgetsByRemoval ==
  ASSUME PackageTypes, PathsWhole, NothingForgotten, [Next]_vars, NEW e \in Entries \ Entries'
  PROVE  \/ step = "saveRemoved" /\ e.name \in removed /\ Cardinality(Entries \ Entries') = 1
         \/ step \in Saving /\ file' \in Written(mem) \ {mem}
         \/ step \in {"saveNew", "saveFound"} /\ unread
         \/ step = "idle" /\ RegistryFile \in struck' /\ disturbed /\ file' = <<>>
<1>1. file' # file
  BY DEF Entries
<1>2. ASSUME Save \/ (Crash /\ step \in Saving)
      PROVE  \/ step = "saveRemoved" /\ e.name \in removed /\ Cardinality(Entries \ Entries') = 1
             \/ step \in Saving /\ file' \in Written(mem) \ {mem}
             \/ step \in {"saveNew", "saveFound"} /\ unread
  <2>1. file' \in Written(mem) /\ step \in Saving
    BY <1>1, <1>2 DEF Save, Crash
  <2>2. CASE file' # mem
    BY <2>1, <2>2
  <2>3. CASE file' = mem /\ step # "saveRemoved"
    <3>1. step \in {"saveNew", "saveFound"} /\ step \in Installing /\ Entries' = Known(mem)
      BY <2>1, <2>3 DEF Saving, Installing, Entries
    <3>2. unread
      BY <3>1 DEF NothingForgotten
    <3> QED BY <3>1, <3>2
  <2>4. CASE file' = mem /\ step = "saveRemoved"
    <3>1. PICK d \in Dependency : d.name \in removed /\ Entries \ Known(mem) \subseteq {d}
      BY <2>4 DEF NothingForgotten
    <3>2. Entries' = Known(mem)
      BY <2>4 DEF Entries
    <3>3. Entries \ Entries' = {d} /\ e = d
      BY <3>1, <3>2
    <3> QED BY <2>4, <3>1, <3>3, FS_Singleton
  <2> QED BY <2>2, <2>3, <2>4
<1>3. ASSUME NEW n \in Names, RemovePackage(n)
      PROVE  step = "idle" /\ RegistryFile \in struck' /\ disturbed /\ file' = <<>>
  <2>1. PICK i \in DOMAIN Loaded :
          /\ Loaded[i].name = n
          /\ Delete(Loaded[i].path)
          /\ struck' = struck \cup (Loaded[i].path \ {n})
    BY <1>3 DEF RemovePackage
  <2>2. Loaded = file /\ i \in 1 .. Len(file) /\ file \in Seq(Entry)
    BY <2>1, LoadedPrefix DEF PackageTypes
  <2>3. file' = <<>> /\ RegistryFile \in file[i].path /\ RegistryFile # n
    BY <1>1, <2>1, <2>2, DeletedDirectories, PackageAssumption
  <2>4. file[i] \in ToSet(file) /\ file[i].path # {file[i].name}
    BY <2>1, <2>2, <2>3, InSequence
  <2>5. disturbed
    BY <2>4 DEF PathsWhole
  <2>6. RegistryFile \in struck' /\ step = "idle"
    BY <1>3, <2>1, <2>2, <2>3 DEF RemovePackage
  <2> QED BY <2>3, <2>5, <2>6
<1> QED BY <1>1, <1>2, <1>3, WhoWrites

-----------------------------------------------------------------------------
\* The theorems.

PackageInv == /\ PackageTypes /\ PathsWhole
              /\ RegisteredHasDirectory /\ CopyIsUnregistered
              /\ CallsInv
              /\ NothingForgotten

LEMMA PackageInvariant == Spec => []PackageInv
<1>1. Init => PackageInv
  BY TypesInit, RegistryInit, CallsInit, ForgottenInit DEF PackageInv
<1>2. PackageInv /\ [Next]_vars => PackageInv'
  BY TypesNext, PathsNext, RegistryNext, CallsNext, ForgottenNext DEF PackageInv
<1> QED BY <1>1, <1>2, PTL DEF Spec

(* A registered package has a directory, whatever fails and wherever       *)
(* commands are killed, unless a version of it was removed or, after a     *)
(* save cut short, its directory was removed for that of another package.  *)
THEOREM RegisteredCorrect == Spec => []RegisteredHasDirectory
<1>1. PackageInv => RegisteredHasDirectory
  BY DEF PackageInv
<1> QED BY <1>1, PackageInvariant, PTL

(* No package is being installed twice at a time, whatever needs what.     *)
THEOREM NoCircleCorrect == Spec => []NoCircle
<1>1. PackageInv => NoCircle
  BY DEF PackageInv, CallsInv
<1> QED BY <1>1, PackageInvariant, PTL

(* A save that is written whole, by a command that could read the file,    *)
(* takes from it the one entry package_remove was called for and no other; *)
(* a file cut short, not read, or removed with its directory is the only   *)
(* other way to lose an entry.                                             *)
THEOREM ForgetsCorrect == Spec => OnlyRemoveForgets
<1>1. PackageInv /\ [Next]_vars =>
        [\A e \in Entries \ Entries' :
           \/ step = "saveRemoved" /\ e.name \in removed /\ Cardinality(Entries \ Entries') = 1
           \/ step \in Saving /\ file' \in Written(mem) \ {mem}
           \/ step \in {"saveNew", "saveFound"} /\ unread
           \/ step = "idle" /\ RegistryFile \in struck' /\ disturbed /\ file' = <<>>]_vars
  BY ForgetsByRemoval DEF PackageInv
<1> QED BY <1>1, PackageInvariant, PTL DEF Spec, OnlyRemoveForgets

(* What semver.c accepts the package manager finds, and by ^ and >= it     *)
(* finds nothing else, for all versions of three numbers.                  *)
THEOREM FoundCorrect == Spec => []FoundAsSemver
<1>1. PackageInv => FoundAsSemver
  <2> SUFFICES ASSUME PackageInv PROVE FoundAsSemver
    OBVIOUS
  <2> DEFINE By(i, op, w) == [name |-> mem[i].name, req |-> [op |-> op, of |-> w]]
             only(i) == \A j \in DOMAIN mem : mem[j].name = mem[i].name => j = i
  <2>1. ASSUME NEW i \in DOMAIN mem, NEW w \in Complete, mem[i].req.op = "=", DOMAIN mem[i].req.of = Parts
        PROVE  /\ \A op \in {"^", "~", ">="} : SemverSatisfies(mem[i].req.of, op, w) => ~MayMiss(By(i, op, w))
               /\ \A op \in {"^", ">="} : only(i) /\ MayFind(By(i, op, w)) => SemverSatisfies(mem[i].req.of, op, w)
    <3> DEFINE v == mem[i].req.of
    <3>1. v \in Complete
      <4>1. mem[i] \in Entry
        BY DEF PackageInv, PackageTypes
      <4>2. mem[i].req \in [op : RangeOps \cup {"="}, of : UNION {[1 .. n -> Numbers] : n \in 0 .. 3}]
        BY <2>1, <4>1 DEF Entry, Requirements
      <4>3. PICK n \in 0 .. 3 : v \in [1 .. n -> Numbers]
        BY <4>2
      <4> QED BY <2>1, <4>3 DEF Complete
    <3>2. \A op \in {"^", "~", ">="} : Satisfies(mem[i].req, [op |-> op, of |-> w]) = Answers(op, v, w)
      BY <2>1 DEF Satisfies, Read
    <3>3. /\ \A op \in {"^", ">="} : Answers(op, v, w) = {SemverSatisfies(v, op, w)}
          /\ SemverSatisfies(v, "~", w) => Answers("~", v, w) = {TRUE}
      BY <2>1, <3>1, MatchersAgreeCorrect DEF MatchersAgree
    <3> HIDE DEF v
    <3>4. ASSUME NEW op \in {"^", "~", ">="}, SemverSatisfies(v, op, w) PROVE ~MayMiss(By(i, op, w))
      <4>1. Answers(op, v, w) = {TRUE}
        <5>1. CASE op = "~"
          BY <3>3, <3>4, <5>1
        <5>2. CASE op \in {"^", ">="}
          <6>1. SemverSatisfies(v, op, w) = TRUE
            BY <3>4 DEF SemverSatisfies
          <6> QED BY <3>3, <5>2, <6>1
        <5> QED BY <5>1, <5>2
      <4>2. FALSE \notin Satisfies(mem[i].req, [op |-> op, of |-> w])
        BY <3>2, <4>1
      <4> QED BY <4>2 DEF MayMiss
    <3>5. ASSUME NEW op \in {"^", ">="}, only(i), MayFind(By(i, op, w)) PROVE SemverSatisfies(v, op, w)
      <4>1. TRUE \in Satisfies(mem[i].req, [op |-> op, of |-> w])
        BY <3>5 DEF MayFind
      <4>2. TRUE \in {SemverSatisfies(v, op, w)}
        BY <3>2, <3>3, <4>1
      <4> QED BY <4>2
    <3> QED BY <3>4, <3>5 DEF v
  <2> QED BY <2>1 DEF FoundAsSemver
<1> QED BY <1>1, PackageInvariant, PTL

-----------------------------------------------------------------------------
(* An installation that nothing disturbs, circular manifests included.     *)
Calm == ~disturbed /\ removed = {}

WholePackages == {n \in Names : dirs[n].whole}

(* A directory is whole or being copied.                                   *)
DirectoriesWhole ==
  /\ \A n \in Names : dirs[n] # NoDir => n \in WholePackages \/ (step = "copy" /\ n = Wanted.name)
  /\ \A n \in WholePackages : dirs[n].from \in Sources
  /\ step \in {"saveNew", "saveFound"} => Wanted.name \in WholePackages

(* Each call goes through the manifest of a package that is there.         *)
CallsRead ==
  /\ project \in Seq(Dependency)
  /\ calls # <<>> => calls[1].deps = project
  /\ \A i \in 2 .. Len(calls) : /\ calls[i].name \in WholePackages
                                /\ calls[i].deps = Manifest[dirs[calls[i].name].from]

(* What a call has tried is there, what it is trying is the next call.     *)
TriedWhole == \A i \in 1 .. Len(calls) : \A k \in 1 .. Len(calls[i].deps) :
                 k < calls[i].at => calls[i].deps[k].name \in WholePackages
CallsNested == \A i \in 1 .. Len(calls) - 1 : calls[i].deps[calls[i].at].name = calls[i + 1].name

(* A package lacks a dependency only while it is being installed.          *)
WholeClosed ==
  \A n \in WholePackages :
    \/ \A k \in 1 .. Len(Manifest[dirs[n].from]) : Manifest[dirs[n].from][k].name \in WholePackages
    \/ \E i \in 2 .. Len(calls) : calls[i].name = n
    \/ step = "saveNew" /\ n = Wanted.name

ReportWhole ==
  report = "installed" => /\ step = "idle"
                          /\ \A k \in 1 .. Len(project) : project[k].name \in WholePackages

CompleteInv == DirectoriesWhole /\ CallsRead /\ TriedWhole /\ CallsNested /\ WholeClosed /\ ReportWhole
CalmInv == Calm => CompleteInv
-----------------------------------------------------------------------------
LEMMA CallTypes ==
  ASSUME PackageTypes
  PROVE  /\ Len(calls) \in Nat
         /\ calls # <<>> <=> Len(calls) >= 1
         /\ \A i \in 1 .. Len(calls) :
              /\ calls[i] \in CallRecord /\ calls[i].at \in Nat \ {0}
              /\ calls[i].deps \in Seq(Dependency) /\ Len(calls[i].deps) \in Nat
              /\ \A k \in 1 .. Len(calls[i].deps) : calls[i].deps[k].name \in Names
         /\ dirs \in [Names -> Directory]
<1>1. /\ Len(calls) \in Nat /\ calls \in Seq(CallRecord) /\ calls # <<>> <=> Len(calls) >= 1
      /\ dirs \in [Names -> Directory]
  BY DEF PackageTypes
<1>2. ASSUME NEW i \in 1 .. Len(calls)
      PROVE  /\ calls[i] \in CallRecord /\ calls[i].at \in Nat \ {0}
             /\ calls[i].deps \in Seq(Dependency) /\ Len(calls[i].deps) \in Nat
             /\ \A k \in 1 .. Len(calls[i].deps) : calls[i].deps[k].name \in Names
  <2>1. calls[i] \in CallRecord
    BY <1>1
  <2>2. calls[i].at \in Nat \ {0} /\ calls[i].deps \in Seq(Dependency) /\ Len(calls[i].deps) \in Nat
    BY <2>1 DEF CallRecord
  <2>3. \A k \in 1 .. Len(calls[i].deps) : calls[i].deps[k] \in Dependency
    BY <2>2
  <2> QED BY <2>1, <2>2, <2>3 DEF Dependency
<1> QED BY <1>1, <1>2

(* The call in progress has dealt with what it wanted.                     *)
LEMMA ReturnComplete ==
  ASSUME PackageTypes, CompleteInv, calls # <<>>, Wanted.name \in WholePackages,
         calls' = [calls EXCEPT ![Len(calls)].at = @ + 1], step \in {"next", "saveFound"}, step' = "next",
         UNCHANGED <<dirs, project, report>>
  PROVE  CompleteInv'
<1>1. /\ Len(calls') = Len(calls)
      /\ \A i \in 1 .. Len(calls) : calls'[i].name = calls[i].name /\ calls'[i].deps = calls[i].deps
      /\ \A i \in 1 .. Len(calls) - 1 : calls'[i] = calls[i]
      /\ calls'[Len(calls)].at = Top.at + 1
  BY ReturnCalls
<1>2. WholePackages' = WholePackages
  BY DEF WholePackages
<1>3. DirectoriesWhole'
  BY <1>2 DEF CompleteInv, DirectoriesWhole
<1>4. CallsRead'
  BY <1>1, <1>2, CallTypes DEF CompleteInv, CallsRead
<1>5. TriedWhole'
  <2>1. SUFFICES ASSUME NEW i \in 1 .. Len(calls'), NEW k \in 1 .. Len(calls'[i].deps), k < calls'[i].at
                 PROVE  calls'[i].deps[k].name \in WholePackages'
    BY DEF TriedWhole
  <2>2. i \in 1 .. Len(calls) /\ k \in 1 .. Len(calls[i].deps) /\ calls'[i].deps = calls[i].deps
    BY <1>1
  <2>3. CASE k < calls[i].at
    BY <1>2, <2>2, <2>3 DEF CompleteInv, TriedWhole
  <2>4. CASE ~(k < calls[i].at)
    <3>1. i = Len(calls) /\ k = Top.at
      <4>1. i # Len(calls) => calls'[i] = calls[i]
        BY <1>1, <2>2, CallTypes
      <4>2. i = Len(calls)
        BY <2>1, <2>4, <4>1
      <4>3. calls[i].at = Top.at /\ Top.at \in Nat
        BY <2>2, <4>2, CallTypes DEF Top
      <4> QED BY <1>1, <2>1, <2>2, <2>4, <4>2, <4>3
    <3>2. calls[i].deps[k] = Wanted
      BY <3>1 DEF Wanted, Top
    <3> QED BY <1>2, <2>2, <3>2
  <2> QED BY <2>3, <2>4
<1>6. CallsNested'
  BY <1>1, CallTypes DEF CompleteInv, CallsNested
<1>7. WholeClosed'
  BY <1>1, <1>2 DEF CompleteInv, WholeClosed
<1>8. ReportWhole'
  BY DEF CompleteInv, ReportWhole
<1> QED BY <1>3, <1>4, <1>5, <1>6, <1>7, <1>8 DEF CompleteInv

(* A package that is there now has its own dependencies installed.         *)
LEMMA DescendComplete ==
  ASSUME PackageTypes, CompleteInv, step \in {"copy", "saveNew"}, Wanted \in Dependency,
         dirs[Wanted.name].from \in Sources, Descend(Wanted), step' = "next",
         WholePackages' = WholePackages \cup {Wanted.name},
         \A n \in Names : n # Wanted.name => dirs'[n] = dirs[n],
         dirs'[Wanted.name].from = dirs[Wanted.name].from,
         UNCHANGED <<project, report>>
  PROVE  CompleteInv'
<1>1. /\ Len(calls') = Len(calls) + 1
      /\ \A i \in 1 .. Len(calls) : calls'[i] = calls[i]
      /\ calls'[Len(calls) + 1] = [name |-> Wanted.name, deps |-> Manifest[dirs[Wanted.name].from], at |-> 1]
  BY DescendCalls
<1>2. /\ calls'[Len(calls) + 1].name = Wanted.name
      /\ calls'[Len(calls) + 1].deps = Manifest[dirs[Wanted.name].from]
      /\ calls'[Len(calls) + 1].at = 1
  BY <1>1
<1>3. /\ Len(calls) \in Nat /\ Len(calls) >= 1 /\ Wanted.name \in Names
      /\ \A i \in 1 .. Len(calls') : i = Len(calls) + 1 \/ i \in 1 .. Len(calls)
  BY <1>1, CallTypes, Working
<1>4. \A n \in Names : dirs'[n].from = dirs[n].from
  OBVIOUS
<1>5. WholePackages \subseteq Names /\ WholePackages \subseteq WholePackages'
  BY DEF WholePackages
<1>6. DirectoriesWhole'
  BY <1>3, <1>4, <1>5 DEF CompleteInv, DirectoriesWhole
<1>7. CallsRead'
  <2>1. calls'[1].deps = project' /\ project' \in Seq(Dependency)
    BY <1>1, <1>3, CallTypes DEF CompleteInv, CallsRead
  <2>2. ASSUME NEW i \in 2 .. Len(calls')
        PROVE  /\ calls'[i].name \in WholePackages'
               /\ calls'[i].deps = Manifest[dirs'[calls'[i].name].from]
    <3>1. CASE i = Len(calls) + 1
      BY <1>2, <1>4, <1>3, <3>1
    <3>2. CASE i # Len(calls) + 1
      <4>1. i \in 2 .. Len(calls) /\ calls'[i] = calls[i]
        BY <1>1, <1>3, <3>2
      <4> QED BY <1>4, <1>5, <4>1 DEF CompleteInv, CallsRead
    <3> QED BY <3>1, <3>2
  <2> QED BY <2>1, <2>2 DEF CallsRead
<1>8. TriedWhole'
  <2>1. SUFFICES ASSUME NEW i \in 1 .. Len(calls'), NEW k \in 1 .. Len(calls'[i].deps), k < calls'[i].at
                 PROVE  calls'[i].deps[k].name \in WholePackages'
    BY DEF TriedWhole
  <2>2. i # Len(calls) + 1
    BY <1>2, <2>1
  <2>3. i \in 1 .. Len(calls) /\ calls'[i] = calls[i]
    BY <1>1, <1>3, <2>2
  <2> QED BY <1>5, <2>1, <2>3 DEF CompleteInv, TriedWhole
<1>9. CallsNested'
  <2>1. SUFFICES ASSUME NEW i \in 1 .. Len(calls') - 1
                 PROVE  calls'[i].deps[calls'[i].at].name = calls'[i + 1].name
    BY DEF CallsNested
  <2>2. i \in 1 .. Len(calls) /\ calls'[i] = calls[i]
    BY <1>1, <1>3
  <2>3. CASE i = Len(calls)
    BY <1>2, <2>2, <2>3 DEF Wanted, Top
  <2>4. CASE i # Len(calls)
    <3>1. i \in 1 .. Len(calls) - 1 /\ calls'[i + 1] = calls[i + 1]
      BY <1>1, <1>3, <2>2, <2>4
    <3> QED BY <2>2, <3>1 DEF CompleteInv, CallsNested
  <2> QED BY <2>3, <2>4
<1>10. WholeClosed'
  <2>1. SUFFICES ASSUME NEW n \in WholePackages', n # Wanted.name
                 PROVE  \/ \A k \in 1 .. Len(Manifest[dirs'[n].from]) : Manifest[dirs'[n].from][k].name \in WholePackages'
                        \/ \E i \in 2 .. Len(calls') : calls'[i].name = n
    <3>1. \E i \in 2 .. Len(calls') : calls'[i].name = Wanted.name
      BY <1>1, <1>2, <1>3
    <3> QED BY <3>1 DEF WholeClosed
  <2>2. n \in WholePackages /\ dirs'[n].from = dirs[n].from
    BY <1>4, <1>5, <2>1
  <2>3. \A i \in 2 .. Len(calls) : i \in 2 .. Len(calls') /\ calls'[i] = calls[i]
    BY <1>1, <1>3
  <2> QED BY <1>5, <2>1, <2>2, <2>3 DEF CompleteInv, WholeClosed
<1>11. ReportWhole'
  BY DEF CompleteInv, ReportWhole
<1> QED BY <1>6, <1>7, <1>8, <1>9, <1>10, <1>11 DEF CompleteInv
(* All that a package needs was tried: it lacks nothing any more.          *)
LEMMA LeaveComplete ==
  ASSUME PackageTypes, CompleteInv, LeavePackage
  PROVE  CompleteInv'
<1> DEFINE n == Len(calls)
<1>1. /\ Len(calls') = n - 1
      /\ \A i \in 1 .. n - 1 : calls'[i].name = calls[i].name /\ calls'[i].deps = calls[i].deps
      /\ \A i \in 1 .. n - 2 : calls'[i] = calls[i]
      /\ calls'[n - 1].at = calls[n - 1].at + 1
  BY LeaveCalls
<1>2. /\ n \in Nat /\ n > 1 /\ step = "next" /\ step' = "next"
      /\ calls[n].at > Len(calls[n].deps)
      /\ UNCHANGED <<dirs, project, report>>
  BY CallTypes DEF LeavePackage, Top
<1>3. WholePackages' = WholePackages
  BY <1>2 DEF WholePackages
<1>4. \A k \in 1 .. Len(calls[n].deps) : calls[n].deps[k].name \in WholePackages
  <2>1. n \in 1 .. n /\ calls[n].at \in Nat /\ Len(calls[n].deps) \in Nat
    BY <1>2, CallTypes
  <2> QED BY <1>2, <2>1 DEF CompleteInv, TriedWhole
<1>5. calls[n].name \in WholePackages /\ calls[n].deps = Manifest[dirs[calls[n].name].from]
  BY <1>2 DEF CompleteInv, CallsRead
<1> HIDE DEF n
<1>6. DirectoriesWhole'
  BY <1>2, <1>3 DEF CompleteInv, DirectoriesWhole
<1>7. CallsRead'
  <2>1. calls # <<>> /\ calls'[1].deps = calls[1].deps
    BY <1>1, <1>2, CallTypes DEF n
  <2>2. \A i \in 2 .. Len(calls') : i \in 2 .. Len(calls) /\ i \in 1 .. n - 1
    BY <1>1, <1>2 DEF n
  <2> QED BY <1>1, <1>2, <1>3, <2>1, <2>2 DEF CompleteInv, CallsRead
<1>8. TriedWhole'
  <2>1. SUFFICES ASSUME NEW i \in 1 .. Len(calls'), NEW k \in 1 .. Len(calls'[i].deps), k < calls'[i].at
                 PROVE  calls'[i].deps[k].name \in WholePackages'
    BY DEF TriedWhole
  <2>2. i \in 1 .. n - 1 /\ k \in 1 .. Len(calls[i].deps) /\ calls'[i].deps = calls[i].deps
    BY <1>1
  <2>3. i \in 1 .. Len(calls) /\ calls[i].at \in Nat
    BY <1>2, <2>2, CallTypes DEF n
  <2>4. CASE k < calls[i].at
    BY <1>3, <2>2, <2>3, <2>4 DEF CompleteInv, TriedWhole
  <2>5. CASE ~(k < calls[i].at)
    <3>1. i = n - 1
      <4>1. i # n - 1 => calls'[i] = calls[i]
        BY <1>1, <1>2, <2>2
      <4> QED BY <2>1, <2>5, <4>1
    <3>2. k = calls[i].at
      BY <1>1, <2>1, <2>2, <2>3, <2>5, <3>1
    <3>3. calls[i].deps[calls[i].at].name = calls[i + 1].name /\ i + 1 = n
      BY <1>2, <2>2, <3>1 DEF n, CompleteInv, CallsNested
    <3> QED BY <1>3, <1>5, <2>2, <3>2, <3>3
  <2> QED BY <2>4, <2>5
<1>9. CallsNested'
  <2>1. ASSUME NEW i \in 1 .. Len(calls') - 1 PROVE calls'[i].deps[calls'[i].at].name = calls'[i + 1].name
    <3>1. i \in 1 .. n - 2 /\ i + 1 \in 1 .. n - 1 /\ i \in 1 .. Len(calls) - 1
      BY <1>1, <1>2 DEF n
    <3> QED BY <1>1, <3>1 DEF CompleteInv, CallsNested
  <2> QED BY <2>1 DEF CallsNested
<1>10. WholeClosed'
  <2>1. ASSUME NEW m \in WholePackages
        PROVE  \/ \A k \in 1 .. Len(Manifest[dirs[m].from]) : Manifest[dirs[m].from][k].name \in WholePackages
               \/ \E i \in 2 .. Len(calls') : calls'[i].name = m
    <3>1. CASE \E i \in 2 .. Len(calls) : calls[i].name = m
      <4>1. PICK i \in 2 .. Len(calls) : calls[i].name = m
        BY <3>1
      <4>2. CASE i = n
        BY <1>4, <1>5, <4>1, <4>2
      <4>3. CASE i # n
        <5>1. i \in 1 .. n - 1 /\ i \in 2 .. Len(calls')
          BY <1>1, <1>2, <4>3 DEF n
        <5> QED BY <1>1, <4>1, <5>1
      <4> QED BY <4>2, <4>3
    <3>2. CASE ~\E i \in 2 .. Len(calls) : calls[i].name = m
      BY <1>2, <3>2 DEF CompleteInv, WholeClosed
    <3> QED BY <3>1, <3>2
  <2> QED BY <1>2, <1>3, <2>1 DEF WholeClosed
<1>11. ReportWhole'
  BY <1>2 DEF CompleteInv, ReportWhole
<1> QED BY <1>6, <1>7, <1>8, <1>9, <1>10, <1>11 DEF CompleteInv

(* The calls stay, and packages stay whole.                                *)
LEMMA SameCallsComplete ==
  ASSUME PackageTypes, CompleteInv, UNCHANGED <<calls, project, report>>, DirectoriesWhole',
         step \notin {"idle", "saveNew"},
         WholePackages \subseteq WholePackages',
         WholePackages' \subseteq WholePackages \/ (step' = "saveNew" /\ WholePackages' \subseteq WholePackages \cup {Wanted.name}),
         \A n \in WholePackages : dirs'[n].from = dirs[n].from
  PROVE  CompleteInv'
<1>1. Wanted' = Wanted
  BY SameWanted
<1>2. CallsRead'
  BY DEF CompleteInv, CallsRead
<1>3. TriedWhole' /\ CallsNested' /\ ReportWhole'
  BY DEF CompleteInv, TriedWhole, CallsNested, ReportWhole
<1>4. WholeClosed'
  <2>1. SUFFICES ASSUME NEW n \in WholePackages
                 PROVE  \/ \A k \in 1 .. Len(Manifest[dirs'[n].from]) : Manifest[dirs'[n].from][k].name \in WholePackages'
                        \/ \E i \in 2 .. Len(calls') : calls'[i].name = n
    BY <1>1 DEF WholeClosed
  <2> QED BY <2>1 DEF CompleteInv, WholeClosed
<1> QED BY <1>2, <1>3, <1>4 DEF CompleteInv

(* What is calm was calm.                                                  *)
LEMMA CalmBefore ==
  ASSUME PackageTypes, [Next]_vars, Calm'
  PROVE  /\ Calm
         /\ ~UnknownSource /\ ~CopyFails /\ ~Crash
         /\ \A n \in Names : ~RemovePackage(n)
<1>1. ~UnknownSource /\ ~CopyFails /\ ~Crash
  BY DEF Calm, UnknownSource, CopyFails, Crash
<1>2. \A n \in Names : ~RemovePackage(n)
  BY DEF Calm, RemovePackage
<1>3. ~disturbed
  BY DisturbedStays DEF Calm
<1>4. \A p \in Projects : StartInstall(p) => UNCHANGED removed
  BY DEF StartInstall
<1>5. InstallStep \/ UNCHANGED vars => UNCHANGED removed
  BY DEF InstallStep, AlreadyInstalled, FoundDirectory, StartCopy, UnknownSource, CopyFails, CopyDone, Save,
         LeavePackage, FinishInstall, vars
<1>6. UNCHANGED removed
  BY <1>1, <1>2, <1>4, <1>5 DEF Next
<1> QED BY <1>1, <1>2, <1>3, <1>6 DEF Calm

LEMMA CompleteInit == Init => CompleteInv
<1> SUFFICES ASSUME Init PROVE CompleteInv
  OBVIOUS
<1>1. /\ calls = <<>> /\ Len(calls) = 0 /\ step = "idle" /\ report = "none" /\ project = <<>>
      /\ \A n \in Names : dirs[n] = NoDir
  BY DEF Init
<1>2. WholePackages = {}
  BY <1>1 DEF WholePackages, NoDir
<1> QED BY <1>1, <1>2 DEF CompleteInv, DirectoriesWhole, CallsRead, TriedWhole, CallsNested, WholeClosed, ReportWhole

(* While nothing is copied, what has a directory is whole.                 *)
LEMMA FoundIsWhole ==
  ASSUME CompleteInv, step # "copy", NEW n \in Names, dirs[n] # NoDir
  PROVE  n \in WholePackages
BY DEF CompleteInv, DirectoriesWhole

LEMMA CompleteNext ==
  ASSUME PackageInv, CalmInv, [Next]_vars, Calm'
  PROVE  CompleteInv'
<1>0. PackageTypes /\ CompleteInv /\ removed = {} /\ ~disturbed
  BY CalmBefore DEF PackageInv, CalmInv, Calm
<1>t. dirs \in [Names -> Directory] /\ Len(calls) \in Nat
  BY <1>0 DEF PackageTypes
<1>1. ASSUME NEW p \in Projects, StartInstall(p) PROVE CompleteInv'
  <2>1. /\ calls' = <<[name |-> Absent, deps |-> p, at |-> 1]>> /\ project' = p
        /\ step = "idle" /\ step' = "next" /\ report' = "none" /\ dirs' = dirs
    BY <1>1 DEF StartInstall
  <2>2. /\ Len(calls') = 1 /\ calls' # <<>> /\ calls'[1].deps = p /\ calls'[1].at = 1
        /\ WholePackages' = WholePackages
    BY <2>1 DEF WholePackages
  <2>3. Len(calls) = 0
    BY <1>0, <2>1, CallTypes DEF PackageTypes, Installing
  <2>4. DirectoriesWhole' /\ CallsRead' /\ ReportWhole'
    BY <1>0, <2>1, <2>2, PackageAssumption DEF CompleteInv, DirectoriesWhole, CallsRead, ReportWhole
  <2>5. TriedWhole' /\ CallsNested'
    BY <2>2 DEF TriedWhole, CallsNested
  <2>6. WholeClosed'
    BY <1>0, <2>1, <2>2, <2>3 DEF CompleteInv, WholeClosed
  <2> QED BY <2>4, <2>5, <2>6 DEF CompleteInv
<1>2. ASSUME AlreadyInstalled PROVE CompleteInv'
  <2>1. /\ step = "next" /\ MayFind(Wanted) /\ calls' = [calls EXCEPT ![Len(calls)].at = @ + 1]
        /\ UNCHANGED <<dirs, step, project, report>>
    BY <1>2 DEF AlreadyInstalled, AtDependency, Return
  <2>2. calls # <<>> /\ Wanted.name \in Names
    BY <1>0, <1>2, Working DEF AlreadyInstalled
  <2>3. PICK i \in DOMAIN mem : mem[i].name = Wanted.name
    BY <2>1 DEF MayFind
  <2>4. Core(mem[i]) \in Known(mem) /\ Core(mem[i]).name = Wanted.name
    <3>1. mem[i] \in Entry
      BY <1>0, <2>3 DEF PackageTypes
    <3> QED BY <2>3, <3>1, CoreOfEntry DEF Known
  <2>5. dirs[Wanted.name] # NoDir
    BY <1>0, <2>4 DEF PackageInv, RegisteredHasDirectory
  <2>6. Wanted.name \in WholePackages
    BY <1>0, <2>1, <2>2, <2>5, FoundIsWhole
  <2> QED BY <1>0, <2>1, <2>2, <2>6, ReturnComplete
<1>3. ASSUME FoundDirectory PROVE CompleteInv'
  <2>1. step = "next" /\ dirs[Wanted.name] # NoDir /\ Wanted.name \in Names
    BY <1>0, <1>3, Working DEF FoundDirectory, AtDependency
  <2>2. ~Full
    BY <1>3 DEF FoundDirectory, Calm
  <2>3. step' = "saveFound" /\ UNCHANGED <<calls, dirs, project, report>>
    BY <1>3, <2>2 DEF FoundDirectory
  <2>4. WholePackages' = WholePackages /\ Wanted' = Wanted
    BY <2>3, SameWanted DEF WholePackages
  <2>5. Wanted.name \in WholePackages
    BY <1>0, <2>1, FoundIsWhole
  <2>6. DirectoriesWhole'
    BY <1>0, <2>1, <2>3, <2>4, <2>5 DEF CompleteInv, DirectoriesWhole
  <2> QED BY <1>0, <2>1, <2>3, <2>4, <2>6, SameCallsComplete
<1>4. ASSUME StartCopy PROVE CompleteInv'
  <2>1. Wanted.name \in Names /\ Wanted \in Dependency
    BY <1>0, <1>4, Working DEF StartCopy
  <2>2. /\ dirs' = [dirs EXCEPT ![Wanted.name] = [from |-> Wanted.req.of, whole |-> FALSE]]
        /\ dirs[Wanted.name] = NoDir /\ step = "next" /\ step' = "copy"
        /\ UNCHANGED <<calls, project, report>>
    BY <1>4 DEF StartCopy, AtDependency
  <2>3. Wanted' = Wanted
    BY <2>2, SameWanted
  <2>4. ~dirs[Wanted.name].whole /\ ~dirs'[Wanted.name].whole
    BY <1>t, <2>1, <2>2 DEF NoDir
  <2>5. \A n \in Names : n # Wanted.name => dirs'[n] = dirs[n]
    BY <1>t, <2>1, <2>2
  <2>6. WholePackages' = WholePackages /\ Wanted.name \notin WholePackages
    BY <2>1, <2>4, <2>5 DEF WholePackages
  <2>7. \A n \in WholePackages : n \in Names /\ dirs'[n] = dirs[n]
    BY <2>5, <2>6 DEF WholePackages
  <2>8. DirectoriesWhole'
    BY <1>0, <2>2, <2>3, <2>5, <2>6, <2>7 DEF CompleteInv, DirectoriesWhole
  <2> QED BY <1>0, <2>2, <2>6, <2>7, <2>8, SameCallsComplete
<1>5. ASSUME CopyDone PROVE CompleteInv'
  <2>1. /\ Wanted \in Dependency /\ Wanted.name \in Names /\ dirs[Wanted.name].from \in Sources
        /\ step = "copy" /\ dirs' = [dirs EXCEPT ![Wanted.name].whole = TRUE]
        /\ UNCHANGED <<project, report>>
    BY <1>0, <1>5, Working DEF CopyDone, PackageTypes
  <2>2. /\ dirs' \in [Names -> Directory] /\ dirs'[Wanted.name].from = dirs[Wanted.name].from
        /\ \A n \in Names : n # Wanted.name => dirs'[n] = dirs[n]
    BY <1>0, <2>1, CopiedDirectory
  <2>3. dirs'[Wanted.name].whole
    BY <1>t, <2>1 DEF Directory
  <2>4. WholePackages' = WholePackages \cup {Wanted.name}
    BY <2>1, <2>2, <2>3 DEF WholePackages
  <2>5. CASE Full
    <3>1. Descend(Wanted) /\ step' = "next"
      BY <1>5, <2>5 DEF CopyDone
    <3> QED BY <1>0, <2>1, <2>2, <2>4, <3>1, DescendComplete
  <2>6. CASE ~Full
    <3>1. step' = "saveNew" /\ calls' = calls
      BY <1>5, <2>6 DEF CopyDone
    <3>2. Wanted' = Wanted
      BY <3>1, SameWanted
    <3>3. DirectoriesWhole'
      BY <1>0, <2>1, <2>2, <2>4, <3>1, <3>2 DEF CompleteInv, DirectoriesWhole
    <3>4. \A n \in WholePackages : dirs'[n].from = dirs[n].from
      BY <2>2 DEF WholePackages
    <3> QED BY <1>0, <2>1, <2>4, <3>1, <3>3, <3>4, SameCallsComplete
  <2> QED BY <2>5, <2>6
<1>6. ASSUME Save PROVE CompleteInv'
  <2>1. dirs' = dirs /\ project' = project
    BY <1>6 DEF Save
  <2>2. WholePackages' = WholePackages
    BY <2>1 DEF WholePackages
  <2>3. ASSUME step = "saveNew", Descend(Wanted), step' = "next", UNCHANGED report PROVE CompleteInv'
    <3>1. Wanted \in Dependency /\ dirs[Wanted.name].from \in Sources
      BY <1>0, <2>3, Working DEF PackageTypes
    <3>2. WholePackages' = WholePackages \cup {Wanted.name}
      BY <1>0, <2>2, <2>3 DEF CompleteInv, DirectoriesWhole
    <3> QED BY <1>0, <2>1, <2>3, <3>1, <3>2, DescendComplete
  <2>4. ASSUME NEW opened \in BOOLEAN, step = "saveFound", Return(opened), step' = "next", UNCHANGED report
        PROVE  CompleteInv'
    <3>1. calls # <<>> /\ calls' = [calls EXCEPT ![Len(calls)].at = @ + 1]
      BY <1>0, <2>4, Working DEF Return
    <3>2. Wanted.name \in WholePackages
      BY <1>0, <2>4 DEF CompleteInv, DirectoriesWhole
    <3> QED BY <1>0, <2>1, <2>4, <3>1, <3>2, ReturnComplete
  <2>5. ASSUME step = "saveRemoved", step' = "idle", report' = "removed", calls' = <<>> PROVE CompleteInv'
    <3>0. calls = <<>> /\ UNCHANGED calls
      BY <1>0, <2>5 DEF PackageTypes, Installing
    <3>1. DirectoriesWhole' /\ ReportWhole'
      BY <1>0, <2>1, <2>2, <2>5, <3>0 DEF CompleteInv, DirectoriesWhole, ReportWhole
    <3>2. CallsRead' /\ TriedWhole' /\ CallsNested'
      BY <1>0, <2>1, <2>2, <2>5, <3>0 DEF CompleteInv, CallsRead, TriedWhole, CallsNested
    <3>3. WholeClosed'
      BY <1>0, <2>1, <2>2, <2>5, <3>0 DEF CompleteInv, WholeClosed
    <3> QED BY <3>1, <3>2, <3>3 DEF CompleteInv
  <2> QED BY <1>6, <2>3, <2>4, <2>5 DEF Save, Exit
<1>7. ASSUME LeavePackage PROVE CompleteInv'
  BY <1>0, <1>7, LeaveComplete
<1>8. ASSUME FinishInstall PROVE CompleteInv'
  <2>1. /\ step = "next" /\ step' = "idle" /\ Len(calls) = 1 /\ calls' = <<>> /\ Len(calls') = 0
        /\ Top.at > Len(Top.deps) /\ UNCHANGED <<dirs, project>>
    BY <1>8 DEF FinishInstall, Exit
  <2>2. WholePackages' = WholePackages
    BY <2>1 DEF WholePackages
  <2>3. Top = calls[1] /\ Top.deps = project /\ calls[1].at \in Nat /\ Len(calls[1].deps) \in Nat
    BY <1>0, <2>1, CallTypes DEF Top, CompleteInv, CallsRead
  <2>4. \A k \in 1 .. Len(project) : project[k].name \in WholePackages
    BY <1>0, <2>1, <2>3 DEF CompleteInv, TriedWhole
  <2>5. DirectoriesWhole' /\ ReportWhole'
    BY <1>0, <2>1, <2>2, <2>4 DEF CompleteInv, DirectoriesWhole, ReportWhole
  <2>6. CallsRead' /\ TriedWhole' /\ CallsNested'
    BY <1>0, <2>1 DEF CompleteInv, CallsRead, TriedWhole, CallsNested
  <2>7. WholeClosed'
    BY <1>0, <2>1, <2>2 DEF CompleteInv, WholeClosed
  <2> QED BY <2>5, <2>6, <2>7 DEF CompleteInv
<1>9. ASSUME UNCHANGED vars PROVE CompleteInv'
  <2>1. UNCHANGED <<dirs, calls, step, project, report>>
    BY <1>9 DEF vars
  <2>2. WholePackages' = WholePackages /\ Wanted' = Wanted
    BY <2>1, SameWanted DEF WholePackages
  <2>3. DirectoriesWhole' /\ ReportWhole'
    BY <1>0, <2>1, <2>2 DEF CompleteInv, DirectoriesWhole, ReportWhole
  <2>4. CallsRead' /\ TriedWhole' /\ CallsNested'
    BY <1>0, <2>1, <2>2 DEF CompleteInv, CallsRead, TriedWhole, CallsNested
  <2>5. WholeClosed'
    BY <1>0, <2>1, <2>2 DEF CompleteInv, WholeClosed
  <2> QED BY <2>3, <2>4, <2>5 DEF CompleteInv
<1> QED BY <1>0, <1>1, <1>2, <1>3, <1>4, <1>5, <1>6, <1>7, <1>8, <1>9, CalmBefore DEF Next, InstallStep

-----------------------------------------------------------------------------
(* The packages that are whole are closed under need once nothing is       *)
(* being installed, and hold what the project names.                       *)
LEMMA WholeIsClosed ==
  ASSUME PackageTypes, CompleteInv, report = "installed"
  PROVE  Closed(WholePackages)
<1>1. step = "idle" /\ Len(calls) = 0
  BY DEF CompleteInv, ReportWhole, PackageTypes, Installing
<1>2. project \in Seq(Dependency) /\ \A n \in WholePackages : Manifest[dirs[n].from] \in Seq(Dependency)
  BY PackageAssumption DEF CompleteInv, CallsRead, DirectoriesWhole
<1>3. \A i \in DOMAIN project : project[i].name \in WholePackages
  BY <1>2 DEF CompleteInv, ReportWhole
<1>4. ASSUME NEW n \in WholePackages, NEW i \in DOMAIN Manifest[dirs[n].from]
      PROVE  Manifest[dirs[n].from][i].name \in WholePackages
  <2>1. i \in 1 .. Len(Manifest[dirs[n].from])
    BY <1>2
  <2> QED BY <1>1, <2>1 DEF CompleteInv, WholeClosed
<1> QED BY <1>3, <1>4 DEF Closed

(* As long as nothing failed, was killed or removed, a command that says   *)
(* that all was installed has installed every package the project needs.   *)
THEOREM CompleteCorrect == Spec => []CompleteUnlessDisturbed
<1>1. Init => CalmInv
  BY CompleteInit DEF CalmInv
<1>2. PackageInv /\ CalmInv /\ [Next]_vars => CalmInv'
  BY CompleteNext DEF CalmInv
<1>3. PackageInv /\ CalmInv => CompleteUnlessDisturbed
  <2> SUFFICES ASSUME PackageTypes, CompleteInv, report = "installed" PROVE \A n \in Needed : dirs[n].whole
    BY DEF PackageInv, CalmInv, Calm, CompleteUnlessDisturbed
  <2>1. Closed(WholePackages) /\ WholePackages \in SUBSET Names
    BY WholeIsClosed DEF WholePackages
  <2> QED BY <2>1 DEF Needed, WholePackages
<1> QED BY <1>1, <1>2, <1>3, PackageInvariant, PTL DEF Spec
=============================================================================
