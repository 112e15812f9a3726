------------------------ MODULE ModuleLoaderProofs ------------------------
(***************************************************************************)
(* A loading stack at least as long as there are modules makes the loader  *)
(* correct for every program: each module is parsed once and after what it *)
(* needs, the recursion ends, self:: means what it should, nothing that is *)
(* needed is left out, and no circle goes unreported.                      *)
(***************************************************************************)
EXTENDS ModuleLoader, FiniteSetTheorems, TLAPS

(* A sequence without repetition is not longer than its values are many.   *)
LEMMA Pigeons ==
  ASSUME NEW S, IsFiniteSet(S), NEW s \in Seq(S), IsInjective(s)
  PROVE  Len(s) <= Cardinality(S)
<1>1. s \in Injection(1 .. Len(s), S)
  BY DEF Injection
<1>2. IsFiniteSet(1 .. Len(s)) /\ Cardinality(1 .. Len(s)) <= Cardinality(S)
  BY <1>1, FS_Injection
<1>3. Cardinality(1 .. Len(s)) = Len(s)
  <2>1. ASSUME NEW n \in Nat PROVE Cardinality(1 .. n) = n
    <3>1. 1 \in Int /\ n \in Int
      OBVIOUS
    <3>2. Cardinality(1 .. n) = IF 1 > n THEN 0 ELSE n - 1 + 1
      BY <3>1, FS_Interval
    <3> QED BY <3>2
  <2> QED BY <2>1
<1> QED BY <1>2, <1>3

LEMMA FrontOf ==
  ASSUME NEW S, NEW s \in Seq(S), s # <<>>
  PROVE  /\ Front(s) \in Seq(S)
         /\ Len(Front(s)) = Len(s) - 1
         /\ \A i \in 1 .. Len(s) - 1 : Front(s)[i] = s[i]
<1>1. Len(s) \in Nat /\ Len(s) > 0
  OBVIOUS
<1>2. Front(s) = SubSeq(s, 1, Len(s) - 1)
  BY DEF Front
<1>3. \A i \in 1 .. Len(s) - 1 : s[i] \in S
  OBVIOUS
<1>4. SubSeq(s, 1, Len(s) - 1) = [i \in 1 .. Len(s) - 1 |-> s[i]]
  BY <1>1
<1>5. [i \in 1 .. Len(s) - 1 |-> s[i]] \in Seq(S)
  <2>1. Len(s) - 1 \in Nat
    BY <1>1
  <2> QED BY <1>3, <2>1
<1>6. Len([i \in 1 .. Len(s) - 1 |-> s[i]]) = Len(s) - 1
  BY <1>1, <1>5
<1> QED BY <1>1, <1>2, <1>4, <1>5, <1>6

(* The calls that wait are for different modules.                          *)
CallsDiffer ==
  \A i, j \in DOMAIN calls : calls[i].module = calls[j].module => i = j

(* The module that is checked is there.                                    *)
UnitInRegistry ==
  phase = "modules" => unit <= count /\ count <= Len(registry)

LEMMA TypeInit == Init => TypeOK /\ UnitInRegistry
BY LoaderAssumption DEF Init, TypeOK, UnitInRegistry

Frame  == [module : Names, next : Nat \ {0}, saved : Names \cup {NoPath}]
Frames == Seq(Frame)

LEMMA FrameAdvanced ==
  ASSUME NEW f \in Frame
  PROVE  /\ [f EXCEPT !.next = @ + 1] \in Frame
         /\ [f EXCEPT !.next = @ + 1].module = f.module
         /\ [f EXCEPT !.next = @ + 1].saved = f.saved
BY DEF Frame

LEMMA AdvancedType ==
  ASSUME TypeOK
  PROVE  /\ Advanced \in Frames
         /\ Len(Advanced) = Len(calls)
         /\ \A i \in DOMAIN calls : /\ Advanced[i].module = calls[i].module
                                    /\ Advanced[i].saved = calls[i].saved
<1>1. calls \in Frames
  BY DEF TypeOK, Frames, Frame
<1>2. CASE calls = <<>>
  BY <1>1, <1>2 DEF Advanced
<1>3. CASE calls # <<>>
  <2>1. Len(calls) \in DOMAIN calls /\ Len(calls) \in Nat
    BY <1>1, <1>3 DEF Frames
  <2>2. PICK g \in Frame : /\ g = [calls[Len(calls)] EXCEPT !.next = @ + 1]
                           /\ g.module = calls[Len(calls)].module
                           /\ g.saved = calls[Len(calls)].saved
    <3>1. calls[Len(calls)] \in Frame
      BY <1>1, <2>1 DEF Frames
    <3> QED BY <3>1, FrameAdvanced
  <2>3. Advanced = [calls EXCEPT ![Len(calls)] = g]
    <3>1. Advanced = [calls EXCEPT ![Len(calls)] = [calls[Len(calls)] EXCEPT !.next = @ + 1]]
      BY <1>3, Zenon DEF Advanced
    <3> QED BY <2>2, <3>1, Zenon
  <2>4. Advanced \in Frames /\ Len(Advanced) = Len(calls)
    BY <1>1, <2>1, <2>3 DEF Frames
  <2> QED BY <1>1, <2>1, <2>2, <2>3, <2>4 DEF Frames
<1> QED BY <1>2, <1>3

LEMMA StackType ==
  ASSUME TypeOK, NEW m \in Names
  PROVE  Push(m, loading_stack) \in Seq(Names) /\ Pop(Push(m, loading_stack)) \in Seq(Names)
<1>1. loading_stack \in Seq(Names)
  BY DEF TypeOK
<1>2. Push(m, loading_stack) \in Seq(Names)
  BY <1>1 DEF Push
<1>3. \A s \in Seq(Names) : Pop(s) \in Seq(Names)
  BY FrontOf DEF Pop
<1> QED BY <1>2, <1>3

LEMMA RegisterType ==
  ASSUME TypeOK, NEW m \in Names, Register(m)
  PROVE  /\ registry' \in Seq(Names)
         /\ Len(registry') <= RegistrySize
         /\ Len(registry) <= Len(registry')
<1>1. registry \in Seq(Names) /\ Len(registry) <= RegistrySize /\ RegistrySize \in Nat
  BY LoaderAssumption DEF TypeOK
<1>2. CASE Len(registry) < RegistrySize
  <2>1. registry' = Append(registry, m)
    BY <1>2 DEF Register
  <2> QED BY <1>1, <1>2, <2>1
<1>3. CASE ~(Len(registry) < RegistrySize)
  BY <1>1, <1>3 DEF Register
<1> QED BY <1>2, <1>3

LEMMA TypeNext == TypeOK /\ UnitInRegistry /\ [Next]_vars => (TypeOK /\ UnitInRegistry)'
<1> SUFFICES ASSUME TypeOK, UnitInRegistry, [Next]_vars PROVE (TypeOK /\ UnitInRegistry)'
  OBVIOUS
<1> USE DEF driver
<1>0. calls \in Frames /\ next \in Nat \ {0} /\ registry \in Seq(Names)
  BY DEF TypeOK, Frames, Frame
<1>1. ASSUME NEW m \in Names, LoadKnown(m) PROVE (TypeOK /\ UnitInRegistry)'
  <2>1. calls' \in Frames /\ next' \in Nat \ {0}
    BY <1>0, <1>1, AdvancedType DEF LoadKnown, Advance
  <2> QED BY <1>1, <2>1 DEF LoadKnown, TypeOK, UnitInRegistry, Frames, Frame
<1>2. ASSUME NEW m \in Names, LoadCircular(m) PROVE (TypeOK /\ UnitInRegistry)'
  <2>1. calls' \in Frames /\ next' \in Nat \ {0}
    BY <1>0, <1>2, AdvancedType DEF LoadCircular, Advance
  <2> QED BY <1>2, <2>1 DEF LoadCircular, TypeOK, UnitInRegistry, Frames, Frame
<1>3. ASSUME NEW m \in Names, LoadMissing(m) PROVE (TypeOK /\ UnitInRegistry)'
  <2>1. calls' \in Frames /\ next' \in Nat \ {0}
    BY <1>0, <1>3, AdvancedType DEF LoadMissing, Advance
  <2>2. loading_stack' \in Seq(Names)
    BY <1>3, StackType DEF LoadMissing
  <2> QED BY <1>3, <2>1, <2>2 DEF LoadMissing, TypeOK, UnitInRegistry, Frames, Frame
<1>4. ASSUME NEW m \in Names, LoadOpen(m) PROVE (TypeOK /\ UnitInRegistry)'
  <2>1. next' \in Nat \ {0}
    BY <1>0, <1>4 DEF LoadOpen
  <2>2. [module |-> m, next |-> 1, saved |-> path]
          \in [module : Names, next : Nat \ {0}, saved : Names \cup {NoPath}]
    BY DEF TypeOK
  <2>3. calls' \in Frames
    BY <1>4, <2>2, AdvancedType DEF LoadOpen, Frames, Frame
  <2>4. loading_stack' \in Seq(Names)
    BY <1>4, StackType DEF LoadOpen
  <2> QED BY <1>4, <2>1, <2>3, <2>4 DEF LoadOpen, TypeOK, UnitInRegistry, Frames, Frame
<1>5. CASE LoadFinish
  <2>1. Last(calls) \in [module : Names, next : Nat \ {0}, saved : Names \cup {NoPath}]
    <3>1. calls # <<>>
      BY <1>5 DEF LoadFinish
    <3>2. Len(calls) \in 1 .. Len(calls)
      BY <1>0, <3>1 DEF Frames
    <3>3. calls[Len(calls)] \in Frame
      BY <1>0, <3>2 DEF Frames
    <3> QED BY <3>3 DEF Last, Frame
  <2>2. calls' \in Frames
    BY <1>0, <1>5, FrontOf DEF LoadFinish, Frames
  <2>3. loading_stack' \in Seq(Names)
    BY <1>5, FrontOf DEF LoadFinish, Pop, TypeOK
  <2>4. path' \in Names \cup {NoPath}
    BY <1>5, <2>1 DEF LoadFinish, PathRestored
  <2>5. /\ registry' \in Seq(Names)
        /\ Len(registry') <= RegistrySize
        /\ Len(registry) <= Len(registry')
    <3>1. CASE registry' = registry
      BY <3>1 DEF TypeOK
    <3>2. CASE Register(Last(calls).module)
      BY <2>1, <3>2, RegisterType
    <3> QED BY <1>5, <3>1, <3>2 DEF LoadFinish
  <2>6. phase' = "modules" => unit' \in 1 .. Len(registry') /\ count' <= Len(registry') /\ unit' <= count'
    <3>1. phase' = phase /\ unit' = unit /\ count' = count
      BY <1>5 DEF LoadFinish
    <3>2. phase = "modules" => unit \in 1 .. Len(registry) /\ unit <= count /\ count <= Len(registry)
      BY DEF TypeOK, UnitInRegistry
    <3>3. count \in Nat /\ Len(registry) \in Nat /\ Len(registry') \in Nat
      BY <1>0, <2>5, LoaderAssumption DEF TypeOK
    <3> QED BY <2>5, <3>1, <3>2, <3>3
  <2>7. parsed' \in [Names -> Nat]
    <3>1. PICK m \in Names : m = Last(calls).module
      BY <2>1
    <3>2. parsed' = [parsed EXCEPT ![m] = @ + 1]
      BY <1>5, <3>1 DEF LoadFinish
    <3>3. parsed \in [Names -> Nat]
      BY DEF TypeOK
    <3> QED BY <3>2, <3>3
  <2> QED BY <1>5, <2>2, <2>3, <2>4, <2>5, <2>6, <2>7
          DEF LoadFinish, TypeOK, UnitInRegistry, Frames, Frame
<1>6. CASE PreloadDone
  <2>1. count' = Len(registry) /\ count' \in 0 .. RegistrySize /\ unit' = 1 /\ next' = 1
    BY <1>0, <1>6, LoaderAssumption DEF PreloadDone, TypeOK
  <2>2. phase' = "modules" => 1 <= count'
    BY <1>6, <2>1, LoaderAssumption DEF PreloadDone
  <2>3. phase' \in {"preload", "modules", "main", "done"}
    BY <1>6 DEF PreloadDone
  <2> QED BY <1>0, <1>6, <2>1, <2>2, <2>3 DEF PreloadDone, TypeOK, UnitInRegistry
<1>7. CASE ModuleChecked
  <2>1. unit' = unit + 1 /\ count' = count /\ registry' = registry /\ next' = 1
    BY <1>7 DEF ModuleChecked
  <2>2. phase' = "modules" => unit # count
    BY <1>7 DEF ModuleChecked, LastUnit
  <2>3. unit \in Nat /\ count \in Nat /\ unit <= count /\ count <= Len(registry)
    BY <1>7, LoaderAssumption DEF ModuleChecked, TypeOK, UnitInRegistry
  <2>4. unit' \in Nat /\ next' \in Nat \ {0}
    BY <2>1, <2>3
  <2>5. phase' = "modules" => unit' \in 1 .. Len(registry) /\ unit' <= count
    BY <1>0, <2>1, <2>2, <2>3
  <2>6. phase' \in {"preload", "modules", "main", "done"}
    BY <1>7 DEF ModuleChecked
  <2> QED BY <1>7, <2>1, <2>3, <2>4, <2>5, <2>6 DEF ModuleChecked, TypeOK, UnitInRegistry
<1>8. CASE ProgramChecked
  BY <1>8 DEF ProgramChecked, TypeOK, UnitInRegistry
<1>9. CASE UNCHANGED vars
  BY <1>9 DEF vars, TypeOK, UnitInRegistry
<1>10. CASE SkipSelective
  <2>1. calls' \in Frames /\ next' \in Nat \ {0}
    BY <1>0, <1>10, AdvancedType DEF SkipSelective, Advance
  <2> QED BY <1>10, <2>1 DEF SkipSelective, TypeOK, UnitInRegistry, Frames, Frame
<1> QED BY <1>1, <1>2, <1>3, <1>4, <1>5, <1>6, <1>7, <1>8, <1>9, <1>10 DEF Next, Load

(* The loader's variables keep their types whatever programs there are and *)
(* however short the stack and the registry; in particular check_all_      *)
(* modules never reads behind the last registered module.                  *)
THEOREM TypeCorrect == Spec => []TypeOK
<1>1. TypeOK /\ UnitInRegistry /\ [Next]_vars => TypeOK' /\ UnitInRegistry'
  BY TypeNext
<1> QED BY <1>1, TypeInit, PTL DEF Spec, SafeSpec

-----------------------------------------------------------------------------
(* The stack is long enough: as long as there are modules.                 *)
StackSuffices == StackSize >= Cardinality(Names)

LoaderInv == StackIsCalls /\ CallsDiffer /\ RegisteredApart /\ PathIsCallers

LEMMA LoaderInit == Init => LoaderInv
<1> SUFFICES ASSUME Init PROVE LoaderInv
  OBVIOUS
<1>1. calls = <<>> /\ loading_stack = <<>> /\ registry = <<>> /\ path = NoPath
  BY DEF Init
<1>2. Registered = {}
  BY <1>1 DEF Registered, ToSet
<1> QED BY <1>1, <1>2 DEF LoaderInv, StackIsCalls, CallsDiffer, RegisteredApart, PathIsCallers, IsInjective

LEMMA StackHoldsLoading ==
  ASSUME TypeOK, StackIsCalls
  PROVE  ToSet(loading_stack) = Loading
<1>1. calls \in Frames /\ loading_stack \in Seq(Names) /\ Len(calls) = Len(loading_stack)
  BY DEF TypeOK, StackIsCalls, Frames, Frame
<1>2. DOMAIN calls = DOMAIN loading_stack
  BY <1>1 DEF Frames
<1> QED BY <1>2 DEF ToSet, Loading, StackIsCalls

(* A module that does not wait finds a free place on the stack.            *)
LEMMA Room ==
  ASSUME StackSuffices, TypeOK, LoaderInv, NEW m \in Names, ~IsInLoadingStack(m)
  PROVE  Push(m, loading_stack) = Append(loading_stack, m)
<1> DEFINE s == Append(loading_stack, m)
<1>1. loading_stack \in Seq(Names) /\ Len(loading_stack) \in Nat
  BY DEF TypeOK
<1>2. s \in Seq(Names) /\ Len(s) = Len(loading_stack) + 1
  BY <1>1
<1>3. IsInjective(s)
  <2> SUFFICES ASSUME NEW i \in DOMAIN s, NEW j \in DOMAIN s, s[i] = s[j] PROVE i = j
    BY DEF IsInjective
  <2>1. \A k \in DOMAIN loading_stack : loading_stack[k] # m
    BY DEF IsInLoadingStack, ToSet
  <2>2. \A k \in DOMAIN loading_stack : k \in DOMAIN calls /\ loading_stack[k] = calls[k].module
    <3>1. calls \in Seq(Frame) /\ Len(calls) = Len(loading_stack)
      BY DEF TypeOK, Frame, LoaderInv, StackIsCalls
    <3>2. DOMAIN calls = DOMAIN loading_stack
      BY <1>1, <3>1
    <3> QED BY <3>2 DEF LoaderInv, StackIsCalls
  <2>3. \A k \in 1 .. Len(loading_stack) : s[k] = loading_stack[k]
    BY <1>1
  <2>4. s[Len(loading_stack) + 1] = m
    BY <1>1
  <2>5. \A k \in DOMAIN s : k \in DOMAIN loading_stack \/ k = Len(loading_stack) + 1
    BY <1>1, <1>2
  <2>6. DOMAIN loading_stack = 1 .. Len(loading_stack)
    BY <1>1
  <2>7. CASE i \in DOMAIN loading_stack /\ j \in DOMAIN loading_stack
    <3>1. calls[i].module = calls[j].module /\ i \in DOMAIN calls /\ j \in DOMAIN calls
      BY <2>2, <2>3, <2>6, <2>7
    <3> QED BY <3>1 DEF LoaderInv, CallsDiffer
  <2>8. CASE i \notin DOMAIN loading_stack \/ j \notin DOMAIN loading_stack
    <3> HIDE DEF s
    <3> QED BY <2>1, <2>3, <2>4, <2>5, <2>6, <2>8
  <2> QED BY <2>7, <2>8
<1>4. Len(s) <= Cardinality(Names)
  <2> HIDE DEF s
  <2> QED BY <1>2, <1>3, Pigeons, LoaderAssumption
<1>5. Cardinality(Names) \in Nat
  BY LoaderAssumption, FS_CardinalityType
<1>6. Len(loading_stack) < StackSize
  <2> HIDE DEF s
  <2> QED BY <1>1, <1>2, <1>4, <1>5, LoaderAssumption DEF StackSuffices
<1> QED BY <1>6 DEF Push

(* A step within the imports of a text disturbs nothing.                   *)
LEMMA LoaderAdvance ==
  ASSUME TypeOK, LoaderInv, calls' = Advanced,
         loading_stack' = loading_stack, registry' = registry, path' = path
  PROVE  LoaderInv'
<1>1. /\ calls \in Frames /\ calls' \in Frames /\ Len(calls') = Len(calls)
      /\ \A i \in DOMAIN calls : /\ calls'[i].module = calls[i].module
                                 /\ calls'[i].saved = calls[i].saved
  BY AdvancedType DEF TypeOK, Frames, Frame
<1>2. DOMAIN calls' = DOMAIN calls /\ DOMAIN calls = 1 .. Len(calls) /\ Len(calls) \in Nat
  BY <1>1 DEF Frames
<1>3. StackIsCalls'
  BY <1>1, <1>2 DEF LoaderInv, StackIsCalls
<1>4. CallsDiffer'
  BY <1>1, <1>2 DEF LoaderInv, CallsDiffer
<1>5. RegisteredApart'
  <2>1. Loading' = Loading
    BY <1>1, <1>2 DEF Loading
  <2> QED BY <2>1 DEF LoaderInv, RegisteredApart, Registered
<1>6. PathIsCallers'
  <2>1. calls' = <<>> <=> calls = <<>>
    BY <1>1 DEF Frames
  <2>2. calls # <<>> => Last(calls').module = Last(calls).module
    BY <1>1, <1>2 DEF Last, Frames
  <2>3. \A i \in DOMAIN calls : i # 1 => i - 1 \in DOMAIN calls
    BY <1>2
  <2>4. \A i \in DOMAIN calls' :
          calls'[i].saved = IF i = 1 THEN NoPath ELSE calls'[i - 1].module
    BY <1>1, <1>2, <2>3 DEF LoaderInv, PathIsCallers
  <2> QED BY <2>1, <2>2, <2>4 DEF LoaderInv, PathIsCallers
<1> QED BY <1>3, <1>4, <1>5, <1>6 DEF LoaderInv

(* A call waits for its imports: it joins the stack and sets the path.     *)
LEMMA LoaderOpen ==
  ASSUME StackSuffices, TypeOK, LoaderInv, NEW m \in Names, LoadOpen(m)
  PROVE  LoaderInv'
<1> DEFINE n == Len(calls)
           f == [module |-> m, next |-> 1, saved |-> path]
<1>1. /\ Advanced \in Frames /\ Len(Advanced) = n /\ n \in Nat
      /\ DOMAIN calls = 1 .. n
      /\ \A i \in 1 .. n : /\ Advanced[i].module = calls[i].module
                           /\ Advanced[i].saved = calls[i].saved
  BY AdvancedType DEF TypeOK
<1>2. /\ Len(calls') = n + 1 /\ DOMAIN calls' = 1 .. n + 1
      /\ \A i \in 1 .. n : calls'[i] = Advanced[i]
      /\ calls'[n + 1] = f
  BY <1>1 DEF LoadOpen, Frames
<1>3. /\ \A i \in 1 .. n : /\ calls'[i].module = calls[i].module
                           /\ calls'[i].saved = calls[i].saved
      /\ calls'[n + 1].module = m /\ calls'[n + 1].saved = path
  BY <1>1, <1>2
<1>4. loading_stack' = Append(loading_stack, m)
  BY Room DEF LoadOpen
<1>5. loading_stack \in Seq(Names) /\ Len(loading_stack) = n
  BY DEF TypeOK, LoaderInv, StackIsCalls
<1>6. m \notin Loading /\ m \notin Registered
  BY StackHoldsLoading DEF LoadOpen, IsLoaded, IsInLoadingStack, LoaderInv
<1>7. \A i \in 1 .. n : calls[i].module # m
  BY <1>1, <1>6 DEF Loading
<1> HIDE DEF n, f
<1>8. StackIsCalls'
  <2>1. Len(loading_stack') = n + 1
    BY <1>4, <1>5
  <2>2. \A i \in 1 .. n + 1 : loading_stack'[i] = IF i = n + 1 THEN m ELSE loading_stack[i]
    BY <1>1, <1>4, <1>5
  <2>3. \A i \in 1 .. n : loading_stack[i] = calls[i].module
    BY <1>1 DEF LoaderInv, StackIsCalls
  <2>4. \A i \in 1 .. n + 1 : i = n + 1 \/ i \in 1 .. n
    BY <1>1
  <2>5. \A i \in 1 .. n + 1 : loading_stack'[i] = calls'[i].module
    BY <1>1, <1>3, <2>2, <2>3, <2>4
  <2> QED BY <1>2, <2>1, <2>5 DEF StackIsCalls
<1>9. CallsDiffer'
  <2>1. \A i \in 1 .. n + 1 : i = n + 1 \/ i \in 1 .. n
    BY <1>1
  <2>2. \A i, j \in 1 .. n : calls[i].module = calls[j].module => i = j
    BY <1>1 DEF LoaderInv, CallsDiffer
  <2>3. \A i, j \in 1 .. n + 1 : calls'[i].module = calls'[j].module => i = j
    BY <1>3, <1>7, <2>1, <2>2
  <2> QED BY <1>2, <2>3 DEF CallsDiffer
<1>10. RegisteredApart'
  <2>1. \A i \in 1 .. n + 1 : calls'[i].module = m \/ calls'[i].module \in Loading
    BY <1>1, <1>3 DEF Loading
  <2>2. Loading' \subseteq Loading \cup {m}
    BY <1>2, <2>1 DEF Loading
  <2>3. registry' = registry /\ Registered' = Registered
    BY DEF LoadOpen, Registered
  <2> QED BY <1>6, <2>2, <2>3 DEF LoaderInv, RegisteredApart
<1>11. PathIsCallers'
  <2>1. calls' # <<>> /\ Last(calls').module = m /\ path' = m
    BY <1>1, <1>2, <1>3 DEF Last, LoadOpen
  <2>2. \A i \in 1 .. n : calls'[i].saved = IF i = 1 THEN NoPath ELSE calls'[i - 1].module
    <3> SUFFICES ASSUME NEW i \in 1 .. n
                 PROVE  calls'[i].saved = IF i = 1 THEN NoPath ELSE calls'[i - 1].module
      OBVIOUS
    <3>1. calls[i].saved = IF i = 1 THEN NoPath ELSE calls[i - 1].module
      BY <1>1 DEF LoaderInv, PathIsCallers
    <3>2. i # 1 => i - 1 \in 1 .. n
      BY <1>1
    <3> QED BY <1>3, <3>1, <3>2
  <2>3. calls'[n + 1].saved = IF n + 1 = 1 THEN NoPath ELSE calls'[n].module
    <3>1. CASE n = 0
      <4>1. calls = <<>>
        BY <3>1, <1>1 DEF n, TypeOK
      <4> QED BY <1>3, <3>1, <4>1 DEF LoaderInv, PathIsCallers
    <3>2. CASE n # 0
      <4>1. calls # <<>> /\ Last(calls) = calls[n] /\ n \in 1 .. n
        BY <1>1, <3>2 DEF n, Last
      <4>2. path = calls[n].module
        BY <4>1 DEF LoaderInv, PathIsCallers
      <4> QED BY <1>1, <1>3, <3>2, <4>1, <4>2
    <3> QED BY <3>1, <3>2
  <2>4. \A i \in 1 .. n + 1 : i = n + 1 \/ i \in 1 .. n
    BY <1>1
  <2>5. (n + 1) - 1 = n
    BY <1>1
  <2>6. \A i \in 1 .. n + 1 : calls'[i].saved = IF i = 1 THEN NoPath ELSE calls'[i - 1].module
    BY <2>2, <2>3, <2>4, <2>5
  <2> QED BY <1>2, <2>1, <2>6 DEF PathIsCallers
<1> QED BY <1>8, <1>9, <1>10, <1>11 DEF LoaderInv

LEMMA RegisterInjective ==
  ASSUME TypeOK, IsInjective(registry), NEW m \in Names, m \notin Registered, Register(m)
  PROVE  IsInjective(registry') /\ Registered' \subseteq Registered \cup {m}
<1>1. registry \in Seq(Names)
  BY DEF TypeOK
<1>2. CASE registry' = Append(registry, m)
  <2>1. \A i \in DOMAIN registry : registry[i] # m
    BY DEF Registered, ToSet
  <2>2. /\ DOMAIN registry = 1 .. Len(registry) /\ Len(registry) \in Nat
        /\ DOMAIN registry' = 1 .. Len(registry) + 1
        /\ \A i \in 1 .. Len(registry) : registry'[i] = registry[i]
        /\ registry'[Len(registry) + 1] = m
    BY <1>1, <1>2
  <2>3. \A i \in DOMAIN registry' : i \in DOMAIN registry \/ i = Len(registry) + 1
    BY <2>2
  <2>4. IsInjective(registry')
    BY <2>1, <2>2, <2>3 DEF IsInjective
  <2>5. Registered' \subseteq Registered \cup {m}
    BY <2>2, <2>3 DEF Registered, ToSet
  <2> QED BY <2>4, <2>5
<1>3. CASE registry' = registry
  BY <1>3 DEF Registered
<1> QED BY <1>2, <1>3 DEF Register

(* The last call ends: it leaves the stack, and the path is its caller's.  *)
LEMMA LoaderFinish ==
  ASSUME TypeOK, LoaderInv, LoadFinish
  PROVE  LoaderInv'
<1> DEFINE n == Len(calls)
<1>1. /\ calls \in Seq(Frame) /\ calls # <<>> /\ calls' = Front(calls)
      /\ n \in Nat /\ n > 0 /\ DOMAIN calls = 1 .. n
  BY DEF TypeOK, Frame, LoadFinish
<1>2. /\ Len(calls') = n - 1
      /\ \A i \in 1 .. n - 1 : calls'[i] = calls[i]
  BY <1>1, FrontOf
<1>3. DOMAIN calls' = 1 .. n - 1
  BY <1>1, <1>2, FrontOf
<1>a. Last(calls) = calls[n]
  BY DEF Last
<1>6. loading_stack \in Seq(Names) /\ Len(loading_stack) = n
  BY DEF TypeOK, LoaderInv, StackIsCalls
<1>7. /\ Len(loading_stack') = n - 1
      /\ \A i \in 1 .. n - 1 : loading_stack'[i] = loading_stack[i]
  <2>1. loading_stack # <<>> /\ loading_stack' = Front(loading_stack)
    BY <1>1, <1>6 DEF LoadFinish, Pop
  <2> QED BY <1>6, <2>1, FrontOf
<1> HIDE DEF n
<1>b. n \in 1 .. n
  BY <1>1
<1>4. Last(calls) = calls[n] /\ n \in 1 .. n /\ calls[n].module \in Names
  <2>1. calls[n] \in Frame
    BY <1>1, <1>b
  <2> QED BY <1>a, <1>b, <2>1 DEF Frame
<1>5. \A i \in 1 .. n - 1 : i \in 1 .. n /\ i # n
  BY <1>1
<1>8. StackIsCalls'
  BY <1>1, <1>2, <1>3, <1>5, <1>7 DEF LoaderInv, StackIsCalls
<1>9. CallsDiffer'
  BY <1>1, <1>2, <1>3, <1>5 DEF LoaderInv, CallsDiffer
<1>10. RegisteredApart'
  <2> DEFINE m == calls[n].module
  <2>1. \A i \in 1 .. n - 1 : calls[i].module # m
    BY <1>1, <1>4, <1>5 DEF LoaderInv, CallsDiffer
  <2>2. Loading' \subseteq Loading /\ m \notin Loading'
    BY <1>1, <1>2, <1>3, <1>5, <2>1 DEF Loading
  <2>3. m \in Loading
    BY <1>1, <1>4 DEF Loading
  <2>4. m \notin Registered
    BY <2>3 DEF LoaderInv, RegisteredApart
  <2>5. registry' = registry \/ Register(m)
    BY <1>4 DEF LoadFinish
  <2> HIDE DEF m
  <2>6. m \in Names
    BY <1>4 DEF m
  <2>7. IsInjective(registry') /\ Registered' \subseteq Registered \cup {m}
    <3>1. CASE registry' = registry
      BY <3>1 DEF LoaderInv, RegisteredApart, Registered
    <3>2. CASE Register(m)
      BY <2>4, <2>6, <3>2, RegisterInjective DEF LoaderInv, RegisteredApart
    <3> QED BY <2>5, <3>1, <3>2
  <2> QED BY <2>2, <2>7 DEF LoaderInv, RegisteredApart
<1>11. PathIsCallers'
  <2>1. path' = calls[n].saved
    BY <1>4 DEF LoadFinish, PathRestored
  <2>2. calls[n].saved = IF n = 1 THEN NoPath ELSE calls[n - 1].module
    BY <1>1, <1>4 DEF LoaderInv, PathIsCallers
  <2>3. \A i \in 1 .. n - 1 : calls'[i].saved = IF i = 1 THEN NoPath ELSE calls'[i - 1].module
    <3> SUFFICES ASSUME NEW i \in 1 .. n - 1
                 PROVE  calls'[i].saved = IF i = 1 THEN NoPath ELSE calls'[i - 1].module
      OBVIOUS
    <3>1. calls[i].saved = IF i = 1 THEN NoPath ELSE calls[i - 1].module
      BY <1>1, <1>5 DEF LoaderInv, PathIsCallers
    <3>2. i # 1 => i - 1 \in 1 .. n - 1
      BY <1>1
    <3> QED BY <1>2, <3>1, <3>2
  <2>4. calls' # <<>> => n # 1 /\ Last(calls') = calls[n - 1]
    <3>1. calls' \in Seq(Frame)
      BY <1>1, FrontOf
    <3>2. ASSUME calls' # <<>> PROVE n - 1 \in 1 .. n - 1
      BY <1>1, <1>2, <3>1, <3>2
    <3> QED BY <1>2, <3>2 DEF Last
  <2>5. calls' = <<>> => n = 1
    BY <1>1, <1>2
  <2> QED BY <1>3, <2>1, <2>2, <2>3, <2>4, <2>5 DEF PathIsCallers
<1> QED BY <1>8, <1>9, <1>10, <1>11 DEF LoaderInv

LEMMA LoaderNext ==
  StackSuffices /\ TypeOK /\ LoaderInv /\ [Next]_vars => LoaderInv'
<1> SUFFICES ASSUME StackSuffices, TypeOK, LoaderInv, [Next]_vars PROVE LoaderInv'
  OBVIOUS
<1>1. ASSUME NEW m \in Names, LoadKnown(m) PROVE LoaderInv'
  BY <1>1, LoaderAdvance DEF LoadKnown, Advance
<1>2. ASSUME NEW m \in Names, LoadCircular(m) PROVE LoaderInv'
  BY <1>2, LoaderAdvance DEF LoadCircular, Advance
<1>3. ASSUME NEW m \in Names, LoadMissing(m) PROVE LoaderInv'
  <2>1. Push(m, loading_stack) = Append(loading_stack, m) /\ loading_stack \in Seq(Names)
    BY <1>3, Room DEF LoadMissing, TypeOK
  <2>2. Pop(Append(loading_stack, m)) = loading_stack
    <3> DEFINE s == Append(loading_stack, m)
    <3>1. /\ s \in Seq(Names) /\ s # <<>> /\ Len(s) - 1 = Len(loading_stack)
          /\ \A i \in 1 .. Len(loading_stack) : s[i] = loading_stack[i]
      BY <2>1
    <3> HIDE DEF s
    <3>2. Front(s) \in Seq(Names) /\ Len(Front(s)) = Len(loading_stack)
          /\ \A i \in 1 .. Len(loading_stack) : Front(s)[i] = loading_stack[i]
      BY <3>1, FrontOf
    <3>3. Front(s) = loading_stack
      BY <2>1, <3>2
    <3> QED BY <3>1, <3>3 DEF Pop, s
  <2>3. loading_stack' = loading_stack
    BY <1>3, <2>1, <2>2 DEF LoadMissing
  <2> QED BY <1>3, <2>3, LoaderAdvance DEF LoadMissing, Advance
<1>4. ASSUME NEW m \in Names, LoadOpen(m) PROVE LoaderInv'
  BY <1>4, LoaderOpen
<1>5. CASE LoadFinish
  BY <1>5, LoaderFinish
<1>6. CASE PreloadDone \/ ModuleChecked \/ ProgramChecked \/ UNCHANGED vars
  <2>1. calls' = calls /\ loading_stack' = loading_stack /\ registry' = registry /\ path' = path
    BY <1>6 DEF PreloadDone, ModuleChecked, ProgramChecked, vars
  <2>2. Loading' = Loading /\ Registered' = Registered
    BY <2>1 DEF Loading, Registered
  <2> QED BY <2>1, <2>2 DEF LoaderInv, StackIsCalls, CallsDiffer, RegisteredApart, PathIsCallers
<1>7. CASE SkipSelective
  BY <1>7, LoaderAdvance DEF SkipSelective, Advance
<1> QED BY <1>1, <1>2, <1>3, <1>4, <1>5, <1>6, <1>7 DEF Next, Load

LEMMA LoaderInvariant == StackSuffices => (Spec => [](TypeOK /\ LoaderInv))
<1> SUFFICES ASSUME StackSuffices PROVE Spec => [](TypeOK /\ LoaderInv)
  OBVIOUS
<1>1. Init => TypeOK /\ UnitInRegistry /\ LoaderInv
  BY TypeInit, LoaderInit
<1>2. TypeOK /\ UnitInRegistry /\ LoaderInv /\ [Next]_vars => TypeOK' /\ UnitInRegistry' /\ LoaderInv'
  BY TypeNext, LoaderNext
<1> QED BY <1>1, <1>2, PTL DEF Spec, SafeSpec

(* If the stack holds as many names as there are modules, it names exactly *)
(* the calls that wait.                                                    *)
THEOREM StackCorrect == StackSuffices => (Spec => []StackIsCalls)
<1>1. LoaderInv => StackIsCalls
  BY DEF LoaderInv
<1> QED BY <1>1, LoaderInvariant, PTL

(* What is in the registry was parsed once.  What was parsed and is not    *)
(* there is no good, or found the registry full, which it stays.           *)
ParsedInv ==
  /\ \A m \in Registered : parsed[m] = 1
  /\ \A m \in Names \ Registered :
       parsed[m] > 0 => m \in project.unparsed \/ Len(registry) = RegistrySize

(* The end of a call is for a module that waited, and what waits was not   *)
(* registered while it did.                                                *)
LEMMA ParsedFinish ==
  ASSUME TypeOK, LoaderInv, ParsedInv, LoadFinish
  PROVE  ParsedInv'
<1>1. PICK m \in Names :
        /\ m \in Loading
        /\ parsed' = [parsed EXCEPT ![m] = @ + 1]
        /\ IF m \in project.unparsed THEN registry' = registry ELSE Register(m)
  <2>1. calls \in Seq(Frame) /\ calls # <<>>
    BY DEF TypeOK, Frame, LoadFinish
  <2>2. Len(calls) \in DOMAIN calls
    BY <2>1
  <2>3. Last(calls) \in Frame /\ Last(calls).module \in Loading
    BY <2>1, <2>2 DEF Last, Loading
  <2> QED BY <2>3 DEF Frame, LoadFinish
<1>2. m \notin Registered
  BY <1>1 DEF LoaderInv, RegisteredApart
<1>3. /\ parsed \in [Names -> Nat] /\ registry \in Seq(Names)
      /\ Len(registry) <= RegistrySize /\ RegistrySize \in Nat
  BY LoaderAssumption DEF TypeOK
<1>4. /\ parsed'[m] = parsed[m] + 1
      /\ \A k \in Names : k # m => parsed'[k] = parsed[k]
  BY <1>1, <1>3
<1>5. project' = project
  BY DEF LoadFinish
<1>6. Registered \subseteq Names
  BY <1>3 DEF Registered, ToSet
<1>7. CASE registry' = registry
  <2>1. m \in project.unparsed \/ Len(registry) = RegistrySize
    <3>1. ASSUME m \notin project.unparsed PROVE Len(registry) = RegistrySize
      <4>1. CASE Len(registry) < RegistrySize
        <5>1. Len(registry') = Len(registry) + 1
          BY <1>1, <1>3, <3>1, <4>1 DEF Register
        <5> QED BY <1>3, <1>7, <5>1
      <4> QED BY <1>3, <4>1
    <3> QED BY <3>1
  <2>2. Registered' = Registered
    BY <1>7 DEF Registered
  <2> QED BY <1>2, <1>4, <1>5, <1>6, <1>7, <2>1, <2>2 DEF ParsedInv
<1>8. CASE registry' # registry
  <2>1. m \notin project.unparsed /\ Len(registry) < RegistrySize /\ registry' = Append(registry, m)
    BY <1>1, <1>8 DEF Register
  <2>2. parsed[m] = 0
    BY <1>2, <1>3, <2>1 DEF ParsedInv
  <2>3. Registered' = Registered \cup {m}
    <3>1. ToSet(Append(registry, m)) = ToSet(registry) \cup {m}
      <4>1. /\ DOMAIN registry = 1 .. Len(registry) /\ Len(registry) \in Nat
            /\ DOMAIN Append(registry, m) = 1 .. Len(registry) + 1
            /\ \A i \in 1 .. Len(registry) : Append(registry, m)[i] = registry[i]
            /\ Append(registry, m)[Len(registry) + 1] = m
        BY <1>3
      <4>2. \A i \in DOMAIN Append(registry, m) : i \in DOMAIN registry \/ i = Len(registry) + 1
        BY <4>1
      <4>3. DOMAIN registry \subseteq DOMAIN Append(registry, m)
            /\ Len(registry) + 1 \in DOMAIN Append(registry, m)
        BY <4>1
      <4> QED BY <4>1, <4>2, <4>3 DEF ToSet
    <3> QED BY <2>1, <3>1 DEF Registered
  <2>4. ASSUME NEW k \in Names \ Registered', parsed'[k] > 0
        PROVE  k \in project.unparsed
    <3>1. k # m /\ k \notin Registered /\ parsed[k] > 0
      BY <1>4, <2>3, <2>4
    <3>2. k \in project.unparsed \/ Len(registry) = RegistrySize
      BY <3>1 DEF ParsedInv
    <3> QED BY <1>3, <2>1, <3>2
  <2>5. \A k \in Registered' : parsed'[k] = 1
    BY <1>2, <1>4, <1>6, <2>2, <2>3 DEF ParsedInv
  <2> QED BY <1>5, <2>4, <2>5 DEF ParsedInv
<1> QED BY <1>7, <1>8

LEMMA ParsedNext == TypeOK /\ LoaderInv /\ ParsedInv /\ [Next]_vars => ParsedInv'
<1> SUFFICES ASSUME TypeOK, LoaderInv, ParsedInv, [Next]_vars PROVE ParsedInv'
  OBVIOUS
<1>1. CASE LoadFinish
  BY <1>1, ParsedFinish
<1>2. ASSUME parsed' = parsed, registry' = registry, project' = project PROVE ParsedInv'
  BY <1>2 DEF ParsedInv, Registered
<1>3. ASSUME NEW m \in Names, Load(m) PROVE ParsedInv'
  BY <1>2, <1>3 DEF Load, LoadKnown, LoadCircular, LoadMissing, LoadOpen
<1>4. CASE SkipSelective
  BY <1>2, <1>4 DEF SkipSelective
<1>5. CASE PreloadDone \/ ModuleChecked \/ ProgramChecked \/ UNCHANGED vars
  BY <1>2, <1>5 DEF PreloadDone, ModuleChecked, ProgramChecked, vars
<1> QED BY <1>1, <1>3, <1>4, <1>5 DEF Next

(* If the stack holds as many names as there are modules, a module is      *)
(* parsed once in the whole compilation, however often and in whatever     *)
(* circles it is imported, unless it does not parse or the registry was    *)
(* full when it had been parsed: then every import of it parses it again.  *)
THEOREM ParsedOnceCorrect == StackSuffices => (Spec => []ParsedOnce)
<1> SUFFICES ASSUME StackSuffices PROVE Spec => []ParsedOnce
  OBVIOUS
<1>1. Init => ParsedInv
  BY DEF Init, ParsedInv, Registered, ToSet
<1>2. TypeOK /\ ParsedInv => ParsedOnce
  <2> SUFFICES ASSUME TypeOK, ParsedInv, NEW m \in Names, parsed[m] > 1
               PROVE  m \in project.unparsed \/ (m \notin Registered /\ Len(registry) = RegistrySize)
    BY DEF ParsedOnce
  <2>1. parsed[m] \in Nat
    BY DEF TypeOK
  <2> QED BY <2>1 DEF ParsedInv
<1> QED BY <1>1, <1>2, ParsedNext, LoaderInvariant, PTL DEF Spec, SafeSpec

(* If the stack holds as many names as there are modules, self:: means the *)
(* directory of the module whose imports are being loaded.                 *)
THEOREM PathCorrect == StackSuffices => (Spec => []PathIsCallers)
<1>1. LoaderInv => PathIsCallers
  BY DEF LoaderInv
<1> QED BY <1>1, LoaderInvariant, PTL

(* If the stack holds as many names as there are modules, no program makes *)
(* the recursion of load_module deeper than there are modules.             *)
THEOREM RecursionCorrect == StackSuffices => (Spec => []RecursionBounded)
<1>1. TypeOK /\ LoaderInv => RecursionBounded
  <2> SUFFICES ASSUME TypeOK, LoaderInv PROVE RecursionBounded
    OBVIOUS
  <2>1. loading_stack \in Seq(Names) /\ Len(loading_stack) = Len(calls)
    BY DEF TypeOK, LoaderInv, StackIsCalls
  <2>2. \A i \in DOMAIN loading_stack : i \in DOMAIN calls /\ loading_stack[i] = calls[i].module
    BY <2>1 DEF TypeOK, LoaderInv, StackIsCalls
  <2>3. IsInjective(loading_stack)
    BY <2>2 DEF IsInjective, LoaderInv, CallsDiffer
  <2> QED BY <2>1, <2>3, Pigeons, LoaderAssumption DEF RecursionBounded
<1> QED BY <1>1, LoaderInvariant, PTL

-----------------------------------------------------------------------------
(* The graph of the modules that have a file.                              *)
Exists  == project.exists
Edges   == {e \in Exists \X Exists : e[2] \in Needs(e[1])}
Reaches == {e \in Exists \X Exists : e[2] \in ReachedBy({e[1]})}
Circles == {m \in Exists : InCycle(m)}
Clean   == {m \in Exists : \A x \in Exists : <<m, x>> \in Reaches => x \notin Circles}
Goal    == Wanted \cap Exists
Reached == ReachedBy(Wanted)

(* The graph is that of the program, which is chosen once.                 *)
LEMMA GraphFixed ==
  ASSUME project' = project
  PROVE  /\ Exists' = Exists /\ Edges' = Edges /\ Reaches' = Reaches
         /\ Circles' = Circles /\ Clean' = Clean /\ Goal' = Goal
         /\ NamesDiffer' = NamesDiffer /\ Reached' = Reached
<1>1. Exists' = Exists /\ Edges' = Edges /\ Goal' = Goal /\ NamesDiffer' = NamesDiffer
  BY DEF Exists, Edges, Goal, Needs, Means, Whole, Wanted, NamesDiffer
<1>2. Reaches' = Reaches
  BY DEF Exists, Reaches, ReachedBy, Closed, Needs, Means, Whole
<1>3. Circles' = Circles
  BY DEF Exists, Circles, InCycle, ReachedBy, Closed, Needs, Means, Whole
<1>4. Clean' = Clean
  BY <1>1, <1>2, <1>3 DEF Clean
<1>5. Reached' = Reached
  BY DEF Exists, Reached, Wanted, ReachedBy, Closed, Needs, Means, Whole
<1> QED BY <1>1, <1>2, <1>3, <1>4, <1>5

(* What is reached is the least closed set.                                *)
LEMMA ReachClosed ==
  ASSUME NEW S
  PROVE  /\ ReachedBy(S) \subseteq Exists
         /\ S \cap Exists \subseteq ReachedBy(S)
         /\ \A m \in ReachedBy(S) : \A b \in Needs(m) \cap Exists : b \in ReachedBy(S)
<1>1. ReachedBy(S) \subseteq Exists /\ S \cap Exists \subseteq ReachedBy(S)
  BY DEF ReachedBy, Exists
<1>2. ASSUME NEW m \in ReachedBy(S), NEW b \in Needs(m) \cap Exists PROVE b \in ReachedBy(S)
  <2>1. ASSUME NEW T \in SUBSET project.exists, S \cap project.exists \subseteq T, Closed(T)
        PROVE  b \in T
    <3>1. m \in T
      BY <1>2, <2>1 DEF ReachedBy
    <3> QED BY <1>2, <2>1, <3>1 DEF Closed, Exists
  <2> QED BY <1>2, <2>1 DEF ReachedBy, Exists
<1> QED BY <1>1, <1>2

LEMMA ReachLeast ==
  ASSUME NEW S, NEW T, T \subseteq Exists, S \cap Exists \subseteq T,
         \A m \in T : \A b \in Needs(m) \cap Exists : b \in T
  PROVE  ReachedBy(S) \subseteq T
<1>1. Closed(T) /\ T \in SUBSET project.exists
  BY DEF Closed, Exists
<1> QED BY <1>1 DEF ReachedBy, Exists

(* Whatever is reached is the start, or reached from what it needs; and it *)
(* is reached from one of several starts.                                  *)
LEMMA ReachRest ==
  ASSUME NEW m \in Exists, NEW x \in ReachedBy({m})
  PROVE  x = m \/ x \in ReachedBy(Needs(m))
<1>1. PICK T : T = {m} \cup ReachedBy(Needs(m))
  OBVIOUS
<1>2. T \subseteq Exists /\ {m} \cap Exists \subseteq T
  BY <1>1, ReachClosed
<1>3. ASSUME NEW a \in T, NEW b \in Needs(a) \cap Exists PROVE b \in T
  <2>1. CASE a = m
    BY <1>1, <1>3, <2>1, ReachClosed
  <2>2. CASE a \in ReachedBy(Needs(m))
    BY <1>1, <1>3, <2>2, ReachClosed
  <2> QED BY <1>1, <2>1, <2>2
<1>4. ReachedBy({m}) \subseteq T
  BY <1>2, <1>3, ReachLeast
<1> QED BY <1>1, <1>4

LEMMA ReachFrom ==
  ASSUME NEW S, NEW x \in ReachedBy(S)
  PROVE  \E s \in S \cap Exists : <<s, x>> \in Reaches
<1>1. PICK T : T = {y \in Exists : \E s \in S \cap Exists : y \in ReachedBy({s})}
  OBVIOUS
<1>2. T \subseteq Exists
  BY <1>1
<1>3. ASSUME NEW s \in S \cap Exists PROVE s \in T
  <2>1. s \in {s} \cap Exists
    OBVIOUS
  <2>2. s \in ReachedBy({s})
    BY <2>1, ReachClosed
  <2> QED BY <1>1, <2>2
<1>4. ASSUME NEW a \in T, NEW b \in Needs(a) \cap Exists PROVE b \in T
  <2>1. PICK s \in S \cap Exists : a \in ReachedBy({s})
    BY <1>1
  <2>2. b \in ReachedBy({s})
    BY <2>1, ReachClosed
  <2> QED BY <1>1, <2>2
<1>5. x \in T /\ x \in Exists
  BY <1>2, <1>3, <1>4, ReachLeast
<1> QED BY <1>1, <1>5 DEF Reaches

LEMMA ReachesSteps ==
  /\ \A m \in Exists : <<m, m>> \in Reaches
  /\ \A a, b, c : <<a, b>> \in Reaches /\ <<b, c>> \in Edges => <<a, c>> \in Reaches
<1>1. ASSUME NEW m \in Exists PROVE <<m, m>> \in Reaches
  <2>1. m \in {m} \cap Exists
    OBVIOUS
  <2>2. m \in ReachedBy({m})
    BY <2>1, ReachClosed
  <2> QED BY <2>2 DEF Reaches
<1>2. ASSUME NEW a, NEW b, NEW c, <<a, b>> \in Reaches, <<b, c>> \in Edges
      PROVE  <<a, c>> \in Reaches
  <2>1. a \in Exists /\ b \in ReachedBy({a})
    BY <1>2 DEF Reaches
  <2>2. c \in Needs(b) \cap Exists
    BY <1>2 DEF Edges
  <2>3. c \in ReachedBy({a})
    BY <2>1, <2>2, ReachClosed
  <2> QED BY <2>1, <2>2, <2>3 DEF Reaches
<1> QED BY <1>1, <1>2

(* Whoever is needed by what it reaches is in a circle.                    *)
LEMMA BackEdge ==
  ASSUME NEW a, NEW m, <<m, a>> \in Reaches, <<a, m>> \in Edges
  PROVE  m \in Circles
<1>1. m \in Exists /\ a \in Exists /\ a \in ReachedBy({m}) /\ m \in Needs(a) \cap Exists
  BY DEF Reaches, Edges
<1>2. CASE a = m
  BY <1>1, <1>2, ReachClosed DEF Circles, InCycle
<1>3. CASE a \in ReachedBy(Needs(m))
  BY <1>1, <1>3, ReachClosed DEF Circles, InCycle
<1> QED BY <1>1, <1>2, <1>3, ReachRest

(* A module whose imports lead into no circle is in none itself.           *)
LEMMA CleanUp ==
  ASSUME NEW m \in Exists, \A b : <<m, b>> \in Edges => b \in Clean
  PROVE  m \in Clean
<1>1. ASSUME NEW x \in ReachedBy(Needs(m)) PROVE x \notin Circles
  <2>1. PICK b \in Needs(m) \cap Exists : <<b, x>> \in Reaches
    BY <1>1, ReachFrom
  <2>2. <<m, b>> \in Edges /\ x \in Exists
    BY <1>1, <2>1, ReachClosed DEF Edges
  <2>3. b \in Clean
    BY <2>2
  <2> QED BY <2>1, <2>2, <2>3 DEF Clean
<1>2. m \notin Circles
  BY <1>1 DEF Circles, InCycle
<1>3. ASSUME NEW x \in Exists, <<m, x>> \in Reaches PROVE x \notin Circles
  <2>1. x \in ReachedBy({m})
    BY <1>3 DEF Reaches
  <2> QED BY <1>1, <1>2, <2>1, ReachRest
<1> QED BY <1>3 DEF Clean

(* What the program needs is clean if what it names is; and it is in every *)
(* set that holds what it names and what its members need.                 *)
LEMMA GoalClean ==
  ASSUME Goal \subseteq Clean
  PROVE  \A m \in Reached : ~InCycle(m)
<1> SUFFICES ASSUME NEW m \in ReachedBy(Wanted) PROVE ~InCycle(m)
  BY DEF Reached
<1>1. PICK s \in Wanted \cap Exists : <<s, m>> \in Reaches
  BY ReachFrom
<1>2. m \in Exists /\ s \in Clean
  BY <1>1, ReachClosed DEF Goal
<1> QED BY <1>1, <1>2 DEF Clean, Circles

LEMMA GoalLeast ==
  ASSUME NEW T, T \subseteq Exists, Goal \subseteq T,
         \A a, b : a \in T /\ <<a, b>> \in Edges => b \in T
  PROVE  Reached \subseteq T
<1>1. ASSUME NEW m \in T, NEW b \in Needs(m) \cap Exists PROVE b \in T
  <2>1. <<m, b>> \in Edges
    BY <1>1 DEF Edges
  <2> QED BY <1>1, <2>1
<1>2. Wanted \cap Exists \subseteq T
  BY DEF Goal
<1> QED BY <1>1, <1>2, ReachLeast DEF Reached

-----------------------------------------------------------------------------
(* The modules that a text names before its q-th import, as m means them.  *)
Past(text, q, m) ==
  {Means(text[k], m) : k \in {j \in DOMAIN text : j < q /\ ~text[j].selective}}

LEMMA PastSteps ==
  ASSUME NEW text \in Seq(Requests), NEW q \in Nat \ {0}, NEW m
  PROVE  /\ Past(text, 1, m) = {}
         /\ q <= Len(text) /\ text[q].selective => Past(text, q + 1, m) \subseteq Past(text, q, m)
         /\ q <= Len(text) /\ ~text[q].selective =>
              /\ Past(text, q + 1, m) \subseteq Past(text, q, m) \cup {Means(text[q], m)}
              /\ text[q] \in Whole(text)
         /\ q > Len(text) => Past(text, q, m) = {Means(r, m) : r \in Whole(text)}
<1>1. DOMAIN text = 1 .. Len(text) /\ Len(text) \in Nat
  OBVIOUS
<1>2. {j \in DOMAIN text : j < 1 /\ ~text[j].selective} = {}
  BY <1>1
<1>3. \A j \in DOMAIN text : j < q + 1 => j < q \/ j = q
  BY <1>1
<1>4. q <= Len(text) => q \in DOMAIN text
  BY <1>1
<1>5. q > Len(text) => \A j \in DOMAIN text : j < q
  BY <1>1
<1>6. Past(text, 1, m) = {}
  BY <1>2 DEF Past
<1>7. q <= Len(text) /\ text[q].selective => Past(text, q + 1, m) \subseteq Past(text, q, m)
  BY <1>3 DEF Past
<1>8. q <= Len(text) /\ ~text[q].selective =>
              /\ Past(text, q + 1, m) \subseteq Past(text, q, m) \cup {Means(text[q], m)}
              /\ text[q] \in Whole(text)
  BY <1>3, <1>4 DEF Past, Whole, ToSet
<1>9. q > Len(text) => Past(text, q, m) = {Means(r, m) : r \in Whole(text)}
  BY <1>5 DEF Past, Whole, ToSet
<1> QED BY <1>6, <1>7, <1>8, <1>9

(* What each call has asked for so far; 0 is the preloading itself.        *)
Began == IF phase = "preload" THEN Past(project.program, next, NoPath) \cap Exists ELSE Goal
PastOf(i) ==
  Past(project.imports[calls[i].module], calls[i].next, calls[i].module)
Gone  == {g \in (0 .. Len(calls)) \X Exists :
            IF g[1] = 0 THEN g[2] \in Began
            ELSE g[2] \in PastOf(g[1])}

LEMMA ProjectType ==
  ASSUME TypeOK
  PROVE  /\ project.program \in Seq(Requests) /\ Exists \subseteq Names
         /\ \A m \in Names : project.imports[m] \in Seq(Requests)
         /\ Len(calls) \in Nat /\ (calls # <<>> <=> Len(calls) >= 1)
         /\ \A i \in 1 .. Len(calls) : calls[i].module \in Names /\ calls[i].next \in Nat \ {0}
         /\ calls \in Frames
<1>1. project \in Project /\ calls \in Frames
  BY DEF TypeOK, Frames, Frame
<1>2. ASSUME NEW i \in 1 .. Len(calls) PROVE calls[i].module \in Names /\ calls[i].next \in Nat \ {0}
  <2>1. calls[i] \in Frame
    BY <1>1 DEF Frames
  <2> QED BY <2>1 DEF Frame
<1>3. Len(calls) \in Nat /\ (calls # <<>> <=> Len(calls) >= 1)
  BY <1>1 DEF Frames
<1> QED BY <1>1, <1>2, <1>3 DEF Project, Exists

LEMMA FrameNext ==
  ASSUME NEW f \in Frame
  PROVE  [f EXCEPT !.next = @ + 1].next = f.next + 1
BY DEF Frame

LEMMA AdvancedNext ==
  ASSUME TypeOK
  PROVE  /\ Len(Advanced) = Len(calls)
         /\ \A i \in 1 .. Len(calls) :
              /\ Advanced[i].module = calls[i].module
              /\ Advanced[i].next = IF i = Len(calls) THEN calls[i].next + 1 ELSE calls[i].next
<1>1. calls \in Frames
  BY DEF TypeOK, Frames, Frame
<1>2. CASE calls = <<>>
  BY <1>1, <1>2 DEF Advanced
<1>3. CASE calls # <<>>
  <2>1. Len(calls) \in 1 .. Len(calls) /\ DOMAIN calls = 1 .. Len(calls)
    BY <1>1, <1>3 DEF Frames
  <2>2. calls[Len(calls)] \in Frame
    BY <1>1, <2>1 DEF Frames
  <2>3. PICK f \in Frame : f = calls[Len(calls)]
    BY <2>2
  <2>4. PICK h \in Frame : /\ h = [f EXCEPT !.next = @ + 1]
                           /\ h.module = f.module /\ h.next = f.next + 1
    <3>1. /\ [f EXCEPT !.next = @ + 1] \in Frame
          /\ [f EXCEPT !.next = @ + 1].module = f.module
          /\ [f EXCEPT !.next = @ + 1].next = f.next + 1
      BY FrameAdvanced, FrameNext
    <3> QED BY <3>1, Zenon
  <2>5. Advanced = [calls EXCEPT ![Len(calls)] = h]
    <3>1. Advanced = [calls EXCEPT ![Len(calls)] = [calls[Len(calls)] EXCEPT !.next = @ + 1]]
      BY <1>3, Zenon DEF Advanced
    <3> QED BY <2>3, <2>4, <3>1, Zenon
  <2>6. /\ \A i \in 1 .. Len(calls) : i # Len(calls) => Advanced[i] = calls[i]
        /\ Advanced[Len(calls)] = h
    <3>1. PICK n : n = Len(calls)
      OBVIOUS
    <3>2. n \in DOMAIN calls /\ Advanced = [calls EXCEPT ![n] = h] /\ DOMAIN calls = 1 .. n
      BY <2>1, <2>5, <3>1
    <3>3. Advanced[n] = h /\ \A i \in DOMAIN calls : i # n => Advanced[i] = calls[i]
      BY <3>2, Zenon
    <3> QED BY <3>1, <3>2, <3>3
  <2>7. h.module = calls[Len(calls)].module /\ h.next = calls[Len(calls)].next + 1
    BY <2>3, <2>4
  <2> QED BY <2>6, <2>7, AdvancedType
<1> QED BY <1>2, <1>3

(* The text that is gone through and what its import means.                *)
LEMMA AsksMeans ==
  ASSUME TypeOK, LoaderInv
  PROVE  /\ calls # <<>> =>
              /\ Text = project.imports[calls[Len(calls)].module]
              /\ Position = calls[Len(calls)].next
              /\ path = calls[Len(calls)].module
         /\ calls = <<>> => path = NoPath /\ Position = next
         /\ calls = <<>> /\ phase = "preload" => Text = project.program
         /\ \A r : Resolved(r) = Means(r, path)
BY DEF Text, Position, Last, LoaderInv, PathIsCallers, Resolved, Means

(* The call in progress goes past an import.                               *)
LEMMA GoneStep ==
  ASSUME TypeOK, LoaderInv, Position <= Len(Text), project' = project, phase' = phase,
         Len(calls') >= Len(calls), Len(calls') \in Nat,
         \A i \in 1 .. Len(calls) : calls'[i] = Advanced[i],
         \A i \in 1 .. Len(calls') :
           i > Len(calls) => calls'[i].module \in Names /\ calls'[i].next = 1,
         next' = IF calls # <<>> THEN next ELSE next + 1,
         NEW g \in Gone', g \notin Gone
  PROVE  Named /\ g[1] = Len(calls) /\ g[2] = Resolved(Text[Position])
<1>0. /\ Exists' = Exists /\ Goal' = Goal
      /\ Len(calls) \in Nat /\ (calls # <<>> <=> Len(calls) >= 1)
      /\ next \in Nat \ {0} /\ project.program \in Seq(Requests)
      /\ \A i \in 1 .. Len(calls) : /\ calls[i].module \in Names /\ calls[i].next \in Nat \ {0}
                                    /\ project.imports[calls[i].module] \in Seq(Requests)
  BY GraphFixed, ProjectType DEF TypeOK
<1>1. PICK t, q, m :
         /\ t = project.imports[calls'[g[1]].module] /\ q = calls'[g[1]].next
         /\ m = calls'[g[1]].module
  OBVIOUS
<1>2. /\ g[1] \in 0 .. Len(calls') /\ g[2] \in Exists /\ g = <<g[1], g[2]>>
      /\ g[1] = 0 => g[2] \in Began'
      /\ g[1] # 0 => g[2] \in Past(t, q, m)
  <2>1. /\ g \in (0 .. Len(calls')) \X Exists'
        /\ g[1] = 0 => g[2] \in Began'
        /\ g[1] # 0 => g[2] \in PastOf(g[1])'
    BY DEF Gone
  <2>2. PastOf(g[1])' = Past(t, q, m)
    BY <1>1 DEF PastOf, Past, Means
  <2> QED BY <1>0, <2>1, <2>2
<1>3. CASE g[1] = 0
  <2>1. g[2] \notin Began
    BY <1>0, <1>2, <1>3 DEF Gone
  <2>2. phase = "preload" /\ calls = <<>> /\ next' = next + 1
    <3>1. phase = "preload"
      BY <1>0, <1>2, <1>3, <2>1 DEF Began
    <3>2. ASSUME next' = next PROVE FALSE
      BY <1>0, <1>2, <1>3, <2>1, <3>1, <3>2 DEF Began, Past, Means
    <3> QED BY <3>1, <3>2
  <2>3. g[2] \in Past(project.program, next + 1, NoPath) /\ g[2] \notin Past(project.program, next, NoPath)
    BY <1>0, <1>2, <1>3, <2>1, <2>2 DEF Began, Past, Means
  <2>4. Text = project.program /\ Position = next /\ path = NoPath
    BY <2>2, AsksMeans
  <2>5. ~project.program[next].selective /\ g[2] = Means(project.program[next], NoPath)
    <3>1. next <= Len(project.program)
      BY <2>4
    <3> QED BY <1>0, <2>3, <3>1, PastSteps
  <2>6. Named /\ g[2] = Resolved(Text[Position])
    BY <2>4, <2>5, AsksMeans DEF Named
  <2> QED BY <1>0, <1>3, <2>2, <2>6
<1>4. CASE g[1] # 0 /\ g[1] <= Len(calls)
  <2>1. PICK i \in 1 .. Len(calls) : i = g[1]
    BY <1>0, <1>2, <1>4
  <2>2. PICK u, p, c :
          u = project.imports[calls[i].module] /\ p = calls[i].next /\ c = calls[i].module
    OBVIOUS
  <2>3. u \in Seq(Requests) /\ p \in Nat \ {0}
    BY <1>0, <2>2
  <2>4. t = u /\ m = c /\ q = IF i = Len(calls) THEN p + 1 ELSE p
    BY <1>1, <2>1, <2>2, AdvancedNext
  <2>5. g[2] \notin Past(u, p, c)
    BY <1>0, <1>2, <1>4, <2>1, <2>2 DEF Gone, PastOf
  <2>6. i = Len(calls) /\ g[2] \in Past(u, p + 1, c)
    BY <1>2, <1>4, <2>4, <2>5
  <2>7. Text = u /\ Position = p /\ path = c
    BY <1>0, <2>1, <2>2, <2>6, AsksMeans
  <2>8. ~u[p].selective /\ g[2] = Means(u[p], c)
    BY <2>3, <2>5, <2>6, <2>7, PastSteps
  <2>9. Named /\ g[2] = Resolved(Text[Position])
    BY <2>7, <2>8, AsksMeans DEF Named
  <2> QED BY <2>1, <2>6, <2>9
<1>5. CASE ~(g[1] <= Len(calls))
  <2>1. PICK i \in 1 .. Len(calls') : i = g[1] /\ i > Len(calls)
    BY <1>0, <1>2, <1>5
  <2>2. q = 1 /\ m \in Names
    BY <1>1, <2>1
  <2>3. t \in Seq(Requests)
    BY <1>1, <2>2, ProjectType
  <2>4. Past(t, 1, m) = {}
    BY <2>3, PastSteps
  <2> QED BY <1>0, <1>2, <2>1, <2>2, <2>4
<1> QED BY <1>3, <1>4, <1>5

(* A call asks for what its module needs.                                  *)
LEMMA AsksEdge ==
  ASSUME TypeOK, LoaderInv, NEW m \in Exists, Asks(m), calls # <<>>,
         calls[Len(calls)].module \in Exists
  PROVE  <<calls[Len(calls)].module, m>> \in Edges
<1>1. PICK t, q, c : t = project.imports[calls[Len(calls)].module]
                     /\ q = calls[Len(calls)].next /\ c = calls[Len(calls)].module
  OBVIOUS
<1>2. t \in Seq(Requests) /\ q \in Nat \ {0} /\ Len(calls) \in 1 .. Len(calls)
  BY <1>1, ProjectType
<1>3. Text = t /\ Position = q /\ path = c
  BY <1>1, AsksMeans
<1>4. q <= Len(t) /\ ~t[q].selective /\ m = Means(t[q], c)
  BY <1>3, AsksMeans DEF Asks, Named, Scanning
<1>5. t[q] \in Whole(t)
  BY <1>2, <1>4, PastSteps
<1>6. m \in Needs(c)
  <2>1. t = project.imports[c]
    BY <1>1
  <2>2. Means(t[q], c) \in Needs(c)
    BY <1>5, <2>1, Zenon DEF Needs
  <2> QED BY <1>4, <2>2
<1> QED BY <1>1, <1>6 DEF Edges

(* Past the imports of a text nothing happened but that one was asked for. *)
LEMMA GoneAdvance ==
  ASSUME TypeOK, LoaderInv, Position <= Len(Text), project' = project, phase' = phase,
         calls' = Advanced, next' = IF calls # <<>> THEN next ELSE next + 1
  PROVE  \A g \in Gone' : g \in Gone \/ (Named /\ g = <<Len(calls), Resolved(Text[Position])>>)
<1>1. Len(calls') = Len(calls) /\ Len(calls) \in Nat
  BY AdvancedNext, ProjectType
<1>2. ASSUME NEW g \in Gone', g \notin Gone
      PROVE  Named /\ g[1] = Len(calls) /\ g[2] = Resolved(Text[Position])
  <2>1. \A i \in 1 .. Len(calls') : i > Len(calls) => calls'[i].module \in Names /\ calls'[i].next = 1
    BY <1>1
  <2> QED BY <1>1, <1>2, <2>1, GoneStep
<1>3. \A g \in Gone' : g = <<g[1], g[2]>>
  BY DEF Gone
<1> QED BY <1>2, <1>3

LEMMA GoneOpen ==
  ASSUME TypeOK, LoaderInv, NEW m \in Names, LoadOpen(m)
  PROVE  /\ Len(calls') = Len(calls) + 1 /\ DOMAIN calls' = 1 .. Len(calls) + 1
         /\ \A i \in 1 .. Len(calls) : calls'[i].module = calls[i].module
         /\ calls'[Len(calls) + 1].module = m
         /\ \A g \in Gone' : g \in Gone \/ g = <<Len(calls), m>>
<1>1. /\ Advanced \in Frames /\ Len(Advanced) = Len(calls) /\ Len(calls) \in Nat
      /\ Len(Advanced) \in Nat
  BY AdvancedType, ProjectType
<1>2. PICK f : f = [module |-> m, next |-> 1, saved |-> path]
  OBVIOUS
<1>3. f.module = m /\ f.next = 1
  BY <1>2
<1>4. calls' = Append(Advanced, f)
  BY <1>2 DEF LoadOpen
<1>5. /\ Len(calls') = Len(calls) + 1 /\ DOMAIN calls' = 1 .. Len(calls) + 1
      /\ \A i \in 1 .. Len(calls) : calls'[i] = Advanced[i]
      /\ calls'[Len(calls) + 1] = f
  BY <1>1, <1>4 DEF Frames
<1>6. ASSUME NEW g \in Gone', g \notin Gone PROVE g = <<Len(calls), m>>
  <2>1. /\ Len(calls') >= Len(calls) /\ Len(calls') \in Nat
        /\ \A i \in 1 .. Len(calls') : i > Len(calls) =>
             calls'[i].module \in Names /\ calls'[i].next = 1
    BY <1>1, <1>3, <1>5
  <2>2. /\ Position <= Len(Text) /\ m = Resolved(Text[Position]) /\ project' = project /\ phase' = phase
        /\ next' = IF calls # <<>> THEN next ELSE next + 1
    BY DEF LoadOpen, Asks, driver
  <2>3. g[1] = Len(calls) /\ g[2] = Resolved(Text[Position])
    BY <1>5, <1>6, <2>1, <2>2, GoneStep
  <2>4. g = <<g[1], g[2]>>
    BY <1>6 DEF Gone
  <2> QED BY <2>2, <2>3, <2>4
<1>7. \A i \in 1 .. Len(calls) : calls'[i].module = calls[i].module
  BY <1>5, AdvancedNext
<1> QED BY <1>3, <1>5, <1>6, <1>7

(* A call that ends has asked for all that its module needs.               *)
LEMMA GoneFinish ==
  ASSUME TypeOK, LoaderInv, LoadFinish
  PROVE  /\ Len(calls) >= 1 /\ Len(calls') = Len(calls) - 1
         /\ DOMAIN calls' = 1 .. Len(calls) - 1
         /\ \A i \in 1 .. Len(calls) - 1 : calls'[i] = calls[i]
         /\ \A g \in Gone' : g \in Gone /\ g[1] < Len(calls)
         /\ \A b : <<calls[Len(calls)].module, b>> \in Edges => <<Len(calls), b>> \in Gone
<1>1. /\ calls # <<>> /\ calls' = Front(calls) /\ Len(calls) \in Nat /\ Len(calls) >= 1
      /\ calls \in Frames /\ Position > Len(Text) /\ UNCHANGED <<project, phase, next>>
  BY ProjectType DEF LoadFinish, driver
<1>2. /\ Len(calls') = Len(calls) - 1 /\ DOMAIN calls' = 1 .. Len(calls) - 1
      /\ \A i \in 1 .. Len(calls) - 1 : calls'[i] = calls[i]
  <2>1. calls' \in Seq(Frame) /\ Len(calls') = Len(calls) - 1
    BY <1>1, FrontOf DEF Frames
  <2> QED BY <1>1, <2>1, FrontOf DEF Frames
<1>3. ASSUME NEW g \in Gone' PROVE g \in Gone /\ g[1] < Len(calls)
  <2>1. /\ g \in (0 .. Len(calls')) \X Exists'
        /\ g[1] = 0 => g[2] \in Began'
        /\ g[1] # 0 => g[2] \in PastOf(g[1])'
    BY <1>3 DEF Gone
  <2>2. Exists' = Exists /\ Goal' = Goal
    BY <1>1, GraphFixed
  <2>3. Began' = Began
    BY <1>1, <2>2 DEF Began, Past, Means
  <2>4. g[1] \in 0 .. Len(calls) /\ g[1] < Len(calls) /\ g[2] \in Exists /\ g = <<g[1], g[2]>>
    BY <1>1, <1>2, <2>1, <2>2
  <2>5. ASSUME g[1] # 0 PROVE PastOf(g[1])' = PastOf(g[1])
    <3>1. g[1] \in 1 .. Len(calls) - 1
      BY <1>1, <2>4, <2>5
    <3>2. calls'[g[1]] = calls[g[1]]
      BY <1>2, <3>1
    <3> QED BY <1>1, <3>2 DEF PastOf, Past, Means
  <2> QED BY <2>1, <2>3, <2>4, <2>5 DEF Gone
<1>4. ASSUME NEW b, <<calls[Len(calls)].module, b>> \in Edges PROVE <<Len(calls), b>> \in Gone
  <2>1. PICK t, q, c : t = project.imports[calls[Len(calls)].module]
                     /\ q = calls[Len(calls)].next /\ c = calls[Len(calls)].module
    OBVIOUS
  <2>2. t \in Seq(Requests) /\ q \in Nat \ {0} /\ Len(calls) \in 1 .. Len(calls)
    BY <1>1, <2>1, ProjectType
  <2>3. q > Len(t)
    BY <1>1, <2>1, AsksMeans
  <2>4. b \in Exists /\ b \in Needs(c)
    BY <1>4, <2>1 DEF Edges
  <2>5. b \in Past(t, q, c)
    BY <2>1, <2>2, <2>3, <2>4, PastSteps DEF Needs
  <2>6. b \in PastOf(Len(calls))
    BY <2>1, <2>5 DEF PastOf
  <2> QED BY <1>1, <2>4, <2>6 DEF Gone
<1> QED BY <1>1, <1>2, <1>3, <1>4

(* The preloading ends when all that the program names was asked for; what *)
(* is checked afterwards adds nothing.                                     *)
LEMMA GoneCheck ==
  ASSUME TypeOK, LoaderInv, calls' = calls, project' = project,
         \/ PreloadDone
         \/ phase # "preload" /\ phase' # "preload"
         \/ phase' = phase /\ next' = next
  PROVE  /\ \A g \in Gone' : g \in Gone
         /\ PreloadDone => Len(calls) = 0 /\ \A b \in Goal : <<0, b>> \in Gone
<1>0. Exists' = Exists /\ Goal' = Goal /\ next \in Nat \ {0} /\ project.program \in Seq(Requests)
  BY GraphFixed, ProjectType DEF TypeOK
<1>1. PreloadDone => calls = <<>> /\ phase = "preload" /\ phase' # "preload" /\ next > Len(project.program)
  BY AsksMeans DEF PreloadDone, TextDone
<1>2. PreloadDone => Began = Goal
  <2> SUFFICES ASSUME PreloadDone PROVE Began = Goal
    OBVIOUS
  <2>1. Past(project.program, next, NoPath) = Wanted
    BY <1>0, <1>1, PastSteps DEF Wanted
  <2> QED BY <1>1, <2>1 DEF Began, Goal
<1>3. Began' = Began
  <2>1. CASE PreloadDone
    BY <1>0, <1>1, <1>2, <2>1 DEF Began
  <2>2. CASE phase # "preload" /\ phase' # "preload"
    BY <1>0, <2>2 DEF Began
  <2>3. CASE phase' = phase /\ next' = next
    BY <1>0, <2>3 DEF Began, Past, Means
  <2> QED BY <2>1, <2>2, <2>3
<1>4. ASSUME NEW g \in Gone' PROVE g \in Gone
  <2>1. /\ g \in (0 .. Len(calls')) \X Exists'
        /\ g[1] = 0 => g[2] \in Began'
        /\ g[1] # 0 => g[2] \in PastOf(g[1])'
    BY <1>4 DEF Gone
  <2>2. PastOf(g[1])' = PastOf(g[1])
    BY DEF PastOf, Past, Means
  <2> QED BY <1>0, <1>3, <2>1, <2>2 DEF Gone
<1>5. ASSUME PreloadDone PROVE Len(calls) = 0 /\ \A b \in Goal : <<0, b>> \in Gone
  <2>1. Len(calls) = 0
    BY <1>1, <1>5
  <2>2. ASSUME NEW b \in Goal PROVE <<0, b>> \in Gone
    BY <1>2, <1>5, <2>1, <2>2 DEF Gone, Goal
  <2> QED BY <2>1, <2>2
<1> QED BY <1>4, <1>5

-----------------------------------------------------------------------------
(* Modules that will not be registered from now on.                        *)
Full == Len(registry) >= RegistrySize
Over == {b \in Exists : (IsLoaded(b) /\ b \notin Loading) \/ b \in project.unparsed \/ Full}

(* The waiting calls lead from one to the next; what a call has asked for  *)
(* is loading or over; what a registered module needs is over, or needs    *)
(* that module itself.                                                     *)
Chain    == \A i, j \in 1 .. Len(calls) :
              i <= j => <<calls[i].module, calls[j].module>> \in Reaches
Settled  == \A g \in Gone : g[2] \in Loading \cup Over
Ordered  == \A a \in Registered, b \in Exists :
              <<a, b>> \in Edges => b \in Over \/ <<b, a>> \in Reaches
InOrder  == /\ Registered \subseteq Exists
            /\ \A i, j \in DOMAIN registry :
                 i < j /\ <<registry[i], registry[j]>> \in Edges =>
                   <<registry[j], registry[i]>> \in Reaches
GraphInv == Chain /\ Settled /\ Ordered /\ InOrder /\ reported \subseteq Circles

(* What the loader went through, if no module stands in for another: those *)
(* of the registry, those that did not parse, and nothing else until it is *)
(* full.                                                                   *)
Through(T) ==
  /\ T \subseteq Exists /\ Registered \subseteq T
  /\ ~Full => T \subseteq Registered \cup project.unparsed
  /\ \A g \in Gone : g[2] \in T \cup Loading
  /\ \A a \in T, b \in Exists : <<a, b>> \in Edges => b \in T \cup Loading
ThroughInv ==
  NamesDiffer =>
    /\ \E T \in SUBSET Names : Through(T)
    /\ phase # "preload" /\ ~Full => Reached \subseteq Registered \cup project.unparsed

(* As long as no circle is reported, none has been left behind.            *)
CleanInv ==
  NamesDiffer /\ reported = {} =>
    /\ Registered \subseteq Clean
    /\ \A g \in Gone : g[2] \in Clean \/ (g[1] < Len(calls) /\ g[2] = calls[g[1] + 1].module)
    /\ phase # "preload" => Goal \subseteq Clean

LEMMA OverGrows ==
  ASSUME TypeOK, project' = project, Registered \subseteq Registered',
         Len(registry') >= Len(registry), Len(registry') \in Nat,
         \A b \in Loading' : b \in Loading \/ ~IsLoaded(b)
  PROVE  Over \subseteq Over' /\ (Full => Full')
<1>1. Full => Full'
  BY LoaderAssumption DEF Full, TypeOK
<1>2. Exists' = Exists
  BY DEF Exists
<1>3. ASSUME NEW b \in Over PROVE b \in Over'
  <2>1. b \in Exists /\ b \in Exists'
    BY <1>2, <1>3 DEF Over
  <2>2. CASE IsLoaded(b) /\ b \notin Loading
    <3>1. b \notin Loading'
      BY <2>2
    <3>2. IsLoaded(b)'
      BY <2>2 DEF IsLoaded
    <3> QED BY <2>1, <3>1, <3>2 DEF Over
  <2>3. CASE b \in project.unparsed \/ Full
    BY <1>1, <2>1, <2>3 DEF Over
  <2> QED BY <1>3, <2>2, <2>3 DEF Over
<1> QED BY <1>1, <1>3

(* Nothing is loaded, and no import was asked for but of what is there.    *)
LEMMA GraphStays ==
  ASSUME TypeOK, LoaderInv, GraphInv, project' = project, registry' = registry,
         Len(calls') = Len(calls),
         \A i \in 1 .. Len(calls) : calls'[i].module = calls[i].module,
         DOMAIN calls' = DOMAIN calls,
         \A g \in Gone' : g \in Gone \/ g[2] \in Loading \cup Over,
         reported' \subseteq Circles
  PROVE  GraphInv'
<1>1. /\ Exists' = Exists /\ Edges' = Edges /\ Reaches' = Reaches /\ Circles' = Circles
      /\ Registered' = Registered
  BY GraphFixed DEF Registered
<1>2. Len(calls) \in Nat /\ DOMAIN calls = 1 .. Len(calls)
  BY ProjectType DEF Frames
<1>3. Loading' = Loading
  BY <1>2 DEF Loading
<1>4. Len(registry) \in Nat
  BY DEF TypeOK
<1>5. Over \subseteq Over'
  BY <1>1, <1>3, <1>4, OverGrows
<1>6. Chain'
  BY <1>1 DEF GraphInv, Chain
<1>7. Settled'
  <2> SUFFICES ASSUME NEW g \in Gone' PROVE g[2] \in Loading' \cup Over'
    BY DEF Settled
  <2> QED BY <1>3, <1>5 DEF GraphInv, Settled
<1>8. Ordered'
  BY <1>1, <1>5 DEF GraphInv, Ordered
<1>9. InOrder'
  BY <1>1 DEF GraphInv, InOrder
<1> QED BY <1>1, <1>6, <1>7, <1>8, <1>9 DEF GraphInv

LEMMA GraphOpen ==
  ASSUME TypeOK, LoaderInv, GraphInv, NEW m \in Names, LoadOpen(m)
  PROVE  GraphInv'
<1>1. /\ project' = project /\ registry' = registry /\ reported' = reported
      /\ ~IsLoaded(m) /\ m \in Exists /\ Asks(m)
  BY DEF LoadOpen, Exists
<1>2. /\ Exists' = Exists /\ Edges' = Edges /\ Reaches' = Reaches /\ Circles' = Circles
      /\ Registered' = Registered
  BY <1>1, GraphFixed DEF Registered
<1>3. /\ Len(calls') = Len(calls) + 1 /\ Len(calls) \in Nat
      /\ DOMAIN calls = 1 .. Len(calls) /\ DOMAIN calls' = 1 .. Len(calls) + 1
      /\ \A i \in 1 .. Len(calls) : calls'[i].module = calls[i].module
      /\ calls'[Len(calls) + 1].module = m
      /\ \A g \in Gone' : g \in Gone \/ g = <<Len(calls), m>>
  BY GoneOpen, ProjectType DEF Frames
<1>4. Loading' = Loading \cup {m}
  <2>1. \A i \in 1 .. Len(calls) + 1 : i \in 1 .. Len(calls) \/ i = Len(calls) + 1
    BY <1>3
  <2>2. /\ Len(calls) + 1 \in 1 .. Len(calls) + 1
        /\ \A i \in 1 .. Len(calls) : i \in 1 .. Len(calls) + 1
    BY <1>3
  <2> QED BY <1>3, <2>1, <2>2 DEF Loading
<1>5. Over \subseteq Over'
  <2>1. Len(registry) \in Nat
    BY DEF TypeOK
  <2> QED BY <1>1, <1>2, <1>4, <2>1, OverGrows
<1>6. Chain'
  <2>1. ASSUME NEW i \in 1 .. Len(calls) PROVE <<calls[i].module, m>> \in Reaches
    <3>1. /\ <<calls[i].module, calls[Len(calls)].module>> \in Reaches
          /\ <<calls[Len(calls)].module, calls[Len(calls)].module>> \in Reaches
      BY <1>3, <2>1 DEF GraphInv, Chain
    <3>2. calls # <<>> /\ calls[Len(calls)].module \in Exists
      BY <1>3, <2>1, <3>1, ProjectType DEF Reaches
    <3>3. <<calls[Len(calls)].module, m>> \in Edges
      BY <1>1, <3>2, AsksEdge
    <3> QED BY <3>1, <3>3, ReachesSteps
  <2>2. <<m, m>> \in Reaches
    BY <1>1, ReachesSteps
  <2>3. \A i \in 1 .. Len(calls) + 1 : i \in 1 .. Len(calls) \/ i = Len(calls) + 1
    BY <1>3
  <2> SUFFICES ASSUME NEW i \in 1 .. Len(calls'), NEW j \in 1 .. Len(calls'), i <= j
               PROVE  <<calls'[i].module, calls'[j].module>> \in Reaches'
    BY DEF Chain
  <2>4. CASE i \in 1 .. Len(calls) /\ j \in 1 .. Len(calls)
    BY <1>2, <1>3, <2>4 DEF GraphInv, Chain
  <2>5. CASE i \in 1 .. Len(calls) /\ j = Len(calls) + 1
    BY <1>2, <1>3, <2>1, <2>5
  <2>6. CASE i = Len(calls) + 1
    <3>1. j = Len(calls) + 1
      BY <1>3, <2>6
    <3> QED BY <1>2, <1>3, <2>2, <2>6, <3>1
  <2> QED BY <1>3, <2>3, <2>4, <2>5, <2>6
<1>7. Settled'
  BY <1>3, <1>4, <1>5 DEF GraphInv, Settled
<1>8. Ordered'
  BY <1>2, <1>5 DEF GraphInv, Ordered
<1>9. InOrder'
  BY <1>1, <1>2 DEF GraphInv, InOrder
<1> QED BY <1>1, <1>2, <1>6, <1>7, <1>8, <1>9 DEF GraphInv

(* The call that ends leaves the loading ones, and its module is registered *)
(* unless it did not parse or the registry is full.                        *)
LEMMA Finished ==
  ASSUME TypeOK, LoaderInv, GraphInv, LoadFinish,
         NEW n, NEW c, n = Len(calls), c = calls[Len(calls)].module
  PROVE  /\ n >= 1 /\ n \in Nat /\ n \in 1 .. n /\ DOMAIN calls = 1 .. n /\ c \in Names
         /\ Len(calls') = n - 1 /\ DOMAIN calls' = 1 .. n - 1
         /\ \A i \in 1 .. n - 1 : calls'[i] = calls[i]
         /\ \A g \in Gone' : g \in Gone /\ g[1] < n
         /\ \A b : <<c, b>> \in Edges => <<n, b>> \in Gone
         /\ project' = project /\ reported' = reported /\ phase' = phase
         /\ <<c, c>> \in Reaches /\ c \in Exists /\ c \in Loading /\ c \notin Registered
         /\ Loading' \subseteq Loading /\ Loading \subseteq Loading' \cup {c} /\ c \notin Loading'
         /\ c \in project.unparsed \/ Full \/ registry' = Append(registry, c)
         /\ \/ registry' = registry
            \/ ~Full /\ c \notin project.unparsed /\ registry' = Append(registry, c)
         /\ Registered \subseteq Registered' /\ Registered' \subseteq Registered \cup {c}
         /\ Len(registry') >= Len(registry) /\ Len(registry') \in Nat
         /\ \A i \in DOMAIN registry : i \in DOMAIN registry' /\ registry'[i] = registry[i]
         /\ \A i \in DOMAIN registry' : i \in DOMAIN registry \/ registry'[i] = c
<1>1. /\ n >= 1 /\ Len(calls') = n - 1 /\ DOMAIN calls' = 1 .. n - 1
      /\ \A i \in 1 .. n - 1 : calls'[i] = calls[i]
      /\ \A g \in Gone' : g \in Gone /\ g[1] < n
      /\ \A b : <<c, b>> \in Edges => <<n, b>> \in Gone
      /\ n \in Nat /\ DOMAIN calls = 1 .. n /\ n \in 1 .. n /\ c \in Names
  BY GoneFinish, ProjectType DEF Frames
<1>2. /\ project' = project /\ reported' = reported /\ phase' = phase /\ Last(calls) = calls[n]
      /\ registry' = registry \/ (c \notin project.unparsed /\ Register(c))
      /\ c \in project.unparsed \/ Register(c)
  BY DEF LoadFinish, Last, driver
<1>3. /\ Exists' = Exists /\ Edges' = Edges /\ Reaches' = Reaches /\ Circles' = Circles
  BY <1>2, GraphFixed
<1>4. <<c, c>> \in Reaches /\ c \in Exists
  BY <1>1 DEF GraphInv, Chain, Reaches
<1>5. \A i \in 1 .. n - 1 : i \in 1 .. n
  BY <1>1
<1>6. c \in Loading /\ c \notin Registered
  <2>1. c \in Loading
    BY <1>1 DEF Loading
  <2> QED BY <2>1 DEF LoaderInv, RegisteredApart
<1>7. Loading' \subseteq Loading /\ Loading \subseteq Loading' \cup {c} /\ c \notin Loading'
  <2>1. \A i \in 1 .. n : i = n \/ i \in 1 .. n - 1
    BY <1>1
  <2>2. \A i \in 1 .. n - 1 : calls[i].module # c
    <3>1. \A i \in 1 .. n - 1 : i \in 1 .. n /\ i # n
      BY <1>1
    <3> QED BY <1>1, <3>1 DEF LoaderInv, CallsDiffer
  <2> QED BY <1>1, <1>5, <2>1, <2>2 DEF Loading
<1>8. registry \in Seq(Names) /\ Len(registry) \in Nat /\ Len(registry) <= RegistrySize
      /\ RegistrySize \in Nat
  BY LoaderAssumption DEF TypeOK
<1>9. \/ registry' = registry
      \/ ~Full /\ c \notin project.unparsed /\ registry' = Append(registry, c)
  BY <1>2, <1>8 DEF Register, Full
<1>10. /\ Registered \subseteq Registered' /\ Registered' \subseteq Registered \cup {c}
       /\ Len(registry') >= Len(registry) /\ Len(registry') \in Nat
       /\ \A i \in DOMAIN registry : i \in DOMAIN registry' /\ registry'[i] = registry[i]
       /\ \A i \in DOMAIN registry' : i \in DOMAIN registry \/ registry'[i] = c
  <2>1. CASE registry' = registry
    BY <1>8, <2>1 DEF Registered
  <2>2. CASE registry' = Append(registry, c)
    <3>1. /\ DOMAIN registry = 1 .. Len(registry) /\ DOMAIN registry' = 1 .. Len(registry) + 1
          /\ \A i \in 1 .. Len(registry) : registry'[i] = registry[i]
          /\ registry'[Len(registry) + 1] = c /\ Len(registry') = Len(registry) + 1
      BY <1>1, <1>8, <2>2
    <3>2. \A i \in 1 .. Len(registry) + 1 : i \in 1 .. Len(registry) \/ i = Len(registry) + 1
      BY <1>8
    <3>3. \A i \in 1 .. Len(registry) : i \in 1 .. Len(registry) + 1
      BY <1>8
    <3>4. /\ \A i \in DOMAIN registry : i \in DOMAIN registry' /\ registry'[i] = registry[i]
          /\ \A i \in DOMAIN registry' : i \in DOMAIN registry \/ registry'[i] = c
      BY <3>1, <3>2, <3>3
    <3>5. Registered \subseteq Registered' /\ Registered' \subseteq Registered \cup {c}
      BY <3>4 DEF Registered, ToSet
    <3> QED BY <1>8, <3>1, <3>4, <3>5
  <2> QED BY <1>9, <2>1, <2>2
<1>11. c \in project.unparsed \/ Full \/ registry' = Append(registry, c)
  BY <1>2, <1>8 DEF Register, Full
<1> QED BY <1>1, <1>2, <1>4, <1>6, <1>7, <1>9, <1>10, <1>11

LEMMA GraphFinish ==
  ASSUME TypeOK, LoaderInv, GraphInv, LoadFinish
  PROVE  GraphInv'
<1>0. PICK n, c : n = Len(calls) /\ c = calls[Len(calls)].module
  OBVIOUS
<1>1. /\ n >= 1 /\ n \in Nat /\ n \in 1 .. n /\ DOMAIN calls = 1 .. n /\ c \in Names
      /\ Len(calls') = n - 1 /\ DOMAIN calls' = 1 .. n - 1
      /\ \A i \in 1 .. n - 1 : calls'[i] = calls[i]
      /\ \A g \in Gone' : g \in Gone /\ g[1] < n
      /\ \A b : <<c, b>> \in Edges => <<n, b>> \in Gone
  BY <1>0, Finished
<1>2. /\ project' = project /\ reported' = reported
      /\ c \in project.unparsed \/ Full \/ registry' = Append(registry, c)
  BY <1>0, Finished
<1>3. /\ Exists' = Exists /\ Edges' = Edges /\ Reaches' = Reaches /\ Circles' = Circles
  BY <1>2, GraphFixed
<1>4. <<c, c>> \in Reaches /\ c \in Exists
  BY <1>0, Finished
<1>5. \A i \in 1 .. n - 1 : i \in 1 .. n
  BY <1>1
<1>6. c \in Loading /\ c \notin Registered
  BY <1>0, Finished
<1>7. Loading' \subseteq Loading /\ Loading \subseteq Loading' \cup {c} /\ c \notin Loading'
  BY <1>0, Finished
<1>8. registry \in Seq(Names) /\ Len(registry) \in Nat
  BY DEF TypeOK
<1>9. \/ registry' = registry
      \/ ~Full /\ c \notin project.unparsed /\ registry' = Append(registry, c)
  BY <1>0, Finished
<1>10. /\ Registered \subseteq Registered' /\ Registered' \subseteq Registered \cup {c}
       /\ Len(registry') >= Len(registry) /\ Len(registry') \in Nat
       /\ \A i \in DOMAIN registry : i \in DOMAIN registry' /\ registry'[i] = registry[i]
       /\ \A i \in DOMAIN registry' : i \in DOMAIN registry \/ registry'[i] = c
  BY <1>0, Finished
<1>11. Over \subseteq Over' /\ (Full => Full')
  BY <1>2, <1>7, <1>10, OverGrows
<1>12. c \in Over'
  <2>1. CASE c \in project.unparsed \/ Full
    BY <1>2, <1>3, <1>4, <1>11, <2>1 DEF Over
  <2>2. CASE c \notin project.unparsed /\ ~Full
    <3>1. registry' = Append(registry, c)
      BY <1>2, <2>2
    <3>2. Len(registry) + 1 \in DOMAIN registry' /\ registry'[Len(registry) + 1] = c
      BY <1>1, <1>8, <3>1
    <3>3. c \in Registered'
      BY <3>2 DEF Registered, ToSet
    <3>4. IsLoaded(c)'
      BY <3>3 DEF IsLoaded
    <3> QED BY <1>3, <1>4, <1>7, <3>4 DEF Over
  <2> QED BY <2>1, <2>2
<1>13. ASSUME NEW b \in Exists, <<c, b>> \in Edges PROVE b \in Over' \/ <<b, c>> \in Reaches
  <2>1. <<n, b>> \in Gone
    BY <1>1, <1>13
  <2>2. b \in Loading \cup Over
    BY <2>1 DEF GraphInv, Settled
  <2>3. ASSUME b \in Loading PROVE <<b, c>> \in Reaches
    <3>1. PICK i \in 1 .. n : calls[i].module = b
      BY <1>1, <2>3 DEF Loading
    <3>2. i <= n
      BY <1>1
    <3> QED BY <1>0, <1>1, <3>1, <3>2 DEF GraphInv, Chain
  <2> QED BY <1>11, <2>2, <2>3
<1>14. Chain'
  <2> SUFFICES ASSUME NEW i \in 1 .. Len(calls'), NEW j \in 1 .. Len(calls'), i <= j
               PROVE  <<calls'[i].module, calls'[j].module>> \in Reaches'
    BY DEF Chain
  <2>1. i \in 1 .. n /\ j \in 1 .. n /\ calls'[i] = calls[i] /\ calls'[j] = calls[j]
    BY <1>1, <1>5
  <2> QED BY <1>0, <1>3, <2>1 DEF GraphInv, Chain
<1>15. Settled'
  BY <1>1, <1>7, <1>11, <1>12 DEF GraphInv, Settled
<1>16. Ordered'
  <2> SUFFICES ASSUME NEW a \in Registered', NEW b \in Exists, <<a, b>> \in Edges
               PROVE  b \in Over' \/ <<b, a>> \in Reaches
    BY <1>3 DEF Ordered
  <2>1. CASE a \in Registered
    BY <1>11, <2>1 DEF GraphInv, Ordered
  <2>2. CASE a = c
    BY <1>13, <2>2
  <2> QED BY <1>10, <2>1, <2>2
<1>17. InOrder'
  <2>1. Registered' \subseteq Exists'
    BY <1>3, <1>4, <1>10 DEF GraphInv, InOrder
  <2> SUFFICES ASSUME NEW i \in DOMAIN registry', NEW j \in DOMAIN registry', i < j,
                      <<registry'[i], registry'[j]>> \in Edges
               PROVE  <<registry'[j], registry'[i]>> \in Reaches
    BY <1>3, <2>1 DEF InOrder
  <2>2. CASE j \in DOMAIN registry
    <3>1. i \in DOMAIN registry
      BY <1>8, <1>10, <2>2
    <3> QED BY <1>10, <2>2, <3>1 DEF GraphInv, InOrder
  <2>3. CASE j \notin DOMAIN registry
    <3>1. registry'[j] = c /\ registry' = Append(registry, c) /\ ~Full /\ c \notin project.unparsed
      BY <1>9, <1>10, <2>3
    <3>2. i \in DOMAIN registry
      <4>1. DOMAIN registry = 1 .. Len(registry) /\ DOMAIN registry' = 1 .. Len(registry) + 1
        BY <1>1, <1>8, <3>1
      <4> QED BY <1>8, <2>3, <4>1
    <3>3. registry[i] \in Registered /\ registry'[i] = registry[i]
      BY <1>10, <3>2 DEF Registered, ToSet
    <3>4. c \notin Over
      BY <1>6, <3>1 DEF Over
    <3> QED BY <1>4, <3>1, <3>3, <3>4 DEF GraphInv, Ordered
  <2> QED BY <2>2, <2>3
<1> QED BY <1>2, <1>3, <1>14, <1>15, <1>16, <1>17 DEF GraphInv

(* Going on to the next import leaves the modules of the calls alone.      *)
LEMMA AdvanceKeeps ==
  ASSUME TypeOK, calls' = Advanced
  PROVE  /\ Len(calls') = Len(calls) /\ DOMAIN calls' = DOMAIN calls
         /\ \A i \in 1 .. Len(calls) : calls'[i].module = calls[i].module
<1>1. PICK a : a = Advanced
  OBVIOUS
<1>2. a \in Frames /\ calls \in Frames
  BY <1>1, AdvancedType, ProjectType
<1>3. Len(a) = Len(calls) /\ \A i \in 1 .. Len(calls) : a[i].module = calls[i].module
  BY <1>1, AdvancedNext
<1>4. DOMAIN a = DOMAIN calls
  BY <1>2, <1>3 DEF Frames
<1> QED BY <1>1, <1>3, <1>4

(* What an import that is not opened adds to what was asked for.           *)
LEMMA Asked ==
  ASSUME TypeOK, LoaderInv, NEW m \in Names, LoadKnown(m) \/ LoadCircular(m) \/ LoadMissing(m)
  PROVE  /\ Len(calls') = Len(calls) /\ DOMAIN calls' = DOMAIN calls
         /\ \A i \in 1 .. Len(calls) : calls'[i].module = calls[i].module
         /\ project' = project /\ registry' = registry /\ phase' = phase
         /\ \A g \in Gone' : g \in Gone \/ g = <<Len(calls), m>>
         /\ LoadKnown(m) => IsLoaded(m) /\ reported' = reported
         /\ LoadCircular(m) => m \in Loading /\ reported' = reported \cup {m}
         /\ LoadMissing(m) => m \notin Exists /\ reported' = reported
<1>1. /\ project' = project /\ registry' = registry /\ phase' = phase
      /\ calls' = Advanced /\ next' = IF calls # <<>> THEN next ELSE next + 1
      /\ Position <= Len(Text) /\ m = Resolved(Text[Position])
  BY DEF LoadKnown, LoadCircular, LoadMissing, Advance, Asks, driver
<1>2. /\ Len(calls') = Len(calls) /\ DOMAIN calls' = DOMAIN calls
      /\ \A i \in 1 .. Len(calls) : calls'[i].module = calls[i].module
  BY <1>1, AdvanceKeeps
<1>3. \A g \in Gone' : g \in Gone \/ g = <<Len(calls), m>>
  BY <1>1, GoneAdvance
<1>4. LoadKnown(m) => IsLoaded(m) /\ reported' = reported
  BY DEF LoadKnown
<1>5. LoadCircular(m) => m \in Loading /\ reported' = reported \cup {m}
  BY StackHoldsLoading DEF LoadCircular, IsInLoadingStack, LoaderInv
<1>6. LoadMissing(m) => m \notin Exists /\ reported' = reported
  BY DEF LoadMissing, Exists
<1> QED BY <1>1, <1>2, <1>3, <1>4, <1>5, <1>6

LEMMA Skipped ==
  ASSUME TypeOK, LoaderInv, SkipSelective
  PROVE  /\ Len(calls') = Len(calls) /\ DOMAIN calls' = DOMAIN calls
         /\ \A i \in 1 .. Len(calls) : calls'[i].module = calls[i].module
         /\ project' = project /\ registry' = registry /\ phase' = phase
         /\ \A g \in Gone' : g \in Gone
         /\ reported' = reported
<1>1. /\ project' = project /\ registry' = registry /\ phase' = phase
      /\ calls' = Advanced /\ next' = IF calls # <<>> THEN next ELSE next + 1
      /\ Position <= Len(Text) /\ ~Named /\ reported' = reported
  BY DEF SkipSelective, Advance, driver
<1>2. /\ Len(calls') = Len(calls) /\ DOMAIN calls' = DOMAIN calls
      /\ \A i \in 1 .. Len(calls) : calls'[i].module = calls[i].module
  BY <1>1, AdvanceKeeps
<1>3. \A g \in Gone' : g \in Gone
  BY <1>1, GoneAdvance
<1> QED BY <1>1, <1>2, <1>3

LEMMA Checked ==
  ASSUME TypeOK, LoaderInv,
         PreloadDone \/ ModuleChecked \/ ProgramChecked \/ UNCHANGED vars
  PROVE  /\ calls' = calls /\ project' = project /\ registry' = registry /\ reported' = reported
         /\ \A g \in Gone' : g \in Gone
         /\ PreloadDone => Len(calls) = 0 /\ \A b \in Goal : <<0, b>> \in Gone
         /\ PreloadDone \/ (phase = "preload" <=> phase' = "preload")
<1>1. calls' = calls /\ project' = project /\ registry' = registry /\ reported' = reported
  BY DEF PreloadDone, ModuleChecked, ProgramChecked, vars
<1>2. \/ PreloadDone
      \/ phase # "preload" /\ phase' # "preload"
      \/ phase' = phase /\ next' = next
  BY DEF ModuleChecked, ProgramChecked, vars, driver
<1>3. /\ \A g \in Gone' : g \in Gone
      /\ PreloadDone => Len(calls) = 0 /\ \A b \in Goal : <<0, b>> \in Gone
  BY <1>1, <1>2, GoneCheck
<1> QED BY <1>1, <1>2, <1>3

LEMMA GraphNext == TypeOK /\ LoaderInv /\ GraphInv /\ [Next]_vars => GraphInv'
<1> SUFFICES ASSUME TypeOK, LoaderInv, GraphInv, [Next]_vars PROVE GraphInv'
  OBVIOUS
<1>1. ASSUME NEW m \in Names, LoadKnown(m) \/ LoadCircular(m) \/ LoadMissing(m) PROVE GraphInv'
  <2>1. \A g \in Gone' : g \in Gone \/ g[2] \in Loading \cup Over
    <3> SUFFICES ASSUME NEW g \in Gone', g \notin Gone PROVE g[2] \in Loading \cup Over
      OBVIOUS
    <3>1. g = <<Len(calls), m>> /\ g[2] = m
      BY <1>1, Asked
    <3>2. m \in Exists
      <4>1. g[2] \in Exists'
        BY DEF Gone
      <4> QED BY <1>1, <3>1, <4>1, Asked, GraphFixed
    <3> QED BY <1>1, <3>1, <3>2, Asked DEF Over
  <2>2. reported' \subseteq Circles
    <3>1. ASSUME LoadCircular(m) PROVE m \in Circles
      <4>1. m \in Loading /\ Asks(m)
        BY <1>1, <3>1, Asked DEF LoadCircular
      <4>2. PICK i \in 1 .. Len(calls) : calls[i].module = m
        BY <4>1, ProjectType DEF Loading, Frames
      <4>3. /\ Len(calls) \in 1 .. Len(calls) /\ i <= Len(calls) /\ calls # <<>>
            /\ Len(calls) <= Len(calls)
        BY <4>2, ProjectType
      <4>4. /\ <<m, calls[Len(calls)].module>> \in Reaches
            /\ m \in Exists /\ calls[Len(calls)].module \in Exists
        BY <4>2, <4>3 DEF GraphInv, Chain, Reaches
      <4>5. <<calls[Len(calls)].module, m>> \in Edges
        BY <4>1, <4>3, <4>4, AsksEdge
      <4> QED BY <4>4, <4>5, BackEdge
    <3> QED BY <1>1, <3>1, Asked DEF GraphInv
  <2> QED BY <1>1, <2>1, <2>2, Asked, GraphStays
<1>2. ASSUME NEW m \in Names, LoadOpen(m) PROVE GraphInv'
  BY <1>2, GraphOpen
<1>3. CASE LoadFinish
  BY <1>3, GraphFinish
<1>4. CASE SkipSelective
  <2>1. reported' \subseteq Circles
    BY <1>4, Skipped DEF GraphInv
  <2> QED BY <1>4, <2>1, Skipped, GraphStays
<1>5. CASE PreloadDone \/ ModuleChecked \/ ProgramChecked \/ UNCHANGED vars
  <2>1. reported' \subseteq Circles
    BY <1>5, Checked DEF GraphInv
  <2> QED BY <1>5, <2>1, Checked, GraphStays
<1> QED BY <1>1, <1>2, <1>3, <1>4, <1>5 DEF Next, Load

LEMMA EmptyAtFirst ==
  ASSUME Init
  PROVE  Gone = {} /\ Registered = {} /\ Len(calls) = 0 /\ phase = "preload" /\ reported = {}
<1>1. Registered = {} /\ Len(calls) = 0
  BY DEF Init, Registered, ToSet
<1>2. Past(project.program, next, NoPath) = {}
  <2>1. project.program \in Seq(Requests) /\ next = 1
    BY TypeInit, ProjectType DEF Init
  <2> QED BY <2>1, PastSteps
<1>3. Gone = {}
  BY <1>1, <1>2 DEF Init, Gone, Began
<1> QED BY <1>1, <1>3 DEF Init

LEMMA GraphInit == Init => GraphInv
<1> SUFFICES ASSUME Init PROVE GraphInv
  OBVIOUS
<1>1. registry = <<>>
  BY DEF Init
<1> QED BY <1>1, EmptyAtFirst DEF GraphInv, Chain, Settled, Ordered, InOrder

-----------------------------------------------------------------------------
(* A module that counts as loaded is registered if no module stands in for *)
(* another.                                                                *)
LEMMA LoadedIsRegistered ==
  ASSUME NamesDiffer, GraphInv, NEW m \in Exists, IsLoaded(m)
  PROVE  m \in Registered
<1>1. CASE Slashed(m) \in Registered
  <2>1. Slashed(m) \in Exists
    BY <1>1 DEF GraphInv, InOrder
  <2> QED BY <1>1, <2>1 DEF NamesDiffer, Exists
<1> QED BY <1>1 DEF IsLoaded

(* The steps that load nothing leave what was gone through as it is.       *)
LEMMA ThroughStays ==
  ASSUME TypeOK, NEW T, Through(T), project' = project, registry' = registry,
         Loading \subseteq Loading',
         \A g \in Gone' : g \in Gone \/ g[2] \in T \cup Loading'
  PROVE  Through(T)'
<1>1. Exists' = Exists /\ Edges' = Edges
  BY GraphFixed
<1>2. Registered' = Registered /\ Full' = Full /\ project.unparsed' = project.unparsed
  BY DEF Registered, Full
<1>3. T \subseteq Exists' /\ Registered' \subseteq T
  BY <1>1, <1>2 DEF Through
<1>4. ~Full' => T \subseteq Registered' \cup project'.unparsed
  BY <1>2 DEF Through
<1>5. \A g \in Gone' : g[2] \in T \cup Loading'
  BY DEF Through
<1>6. \A a \in T, b \in Exists' : <<a, b>> \in Edges' => b \in T \cup Loading'
  BY <1>1 DEF Through
<1> QED BY <1>3, <1>4, <1>5, <1>6 DEF Through

LEMMA ThroughFinish ==
  ASSUME TypeOK, LoaderInv, GraphInv, NEW T \in SUBSET Names, Through(T), LoadFinish
  PROVE  \E U \in SUBSET Names : Through(U)'
<1>1. PICK n, c : n = Len(calls) /\ c = calls[Len(calls)].module
  OBVIOUS
<1>2. PICK U : U = T \cup {c}
  OBVIOUS
<1>3. c \in Names /\ c \in Exists /\ project' = project /\ Exists' = Exists /\ Edges' = Edges
  BY <1>1, Finished, GraphFixed
<1>4. /\ Registered' \subseteq Registered \cup {c} /\ Registered \subseteq Registered'
      /\ Loading \subseteq Loading' \cup {c}
  BY <1>1, Finished
<1>5. U \subseteq Exists' /\ Registered' \subseteq U
  BY <1>2, <1>3, <1>4 DEF Through
<1>6. ASSUME ~Full' PROVE U \subseteq Registered' \cup project'.unparsed
  <2>1. ~Full
    <3>1. Len(registry') >= Len(registry) /\ Len(registry') \in Nat
      BY <1>1, Finished
    <3> QED BY <1>6, <3>1, LoaderAssumption DEF Full, TypeOK
  <2>2. c \in project.unparsed \/ c \in Registered'
    <3>1. ASSUME registry' = Append(registry, c) PROVE c \in Registered'
      <4>1. registry \in Seq(Names)
        BY DEF TypeOK
      <4>2. Len(registry) + 1 \in DOMAIN registry' /\ registry'[Len(registry) + 1] = c
        BY <1>3, <3>1, <4>1
      <4> QED BY <4>2 DEF Registered, ToSet
    <3> QED BY <1>1, <2>1, <3>1, Finished
  <2> QED BY <1>2, <1>3, <1>4, <2>1, <2>2 DEF Through
<1>7. \A g \in Gone' : g[2] \in U \cup Loading'
  <2>1. \A g \in Gone' : g \in Gone
    BY <1>1, Finished
  <2> QED BY <1>2, <1>4, <2>1 DEF Through
<1>8. \A a \in U, b \in Exists' : <<a, b>> \in Edges' => b \in U \cup Loading'
  <2> SUFFICES ASSUME NEW a \in U, NEW b \in Exists, <<a, b>> \in Edges PROVE b \in T \cup Loading
    BY <1>2, <1>3, <1>4
  <2>1. CASE a \in T
    BY <2>1 DEF Through
  <2>2. CASE a = c
    <3>1. <<n, b>> \in Gone
      BY <1>1, <2>2, Finished
    <3> QED BY <3>1 DEF Through
  <2> QED BY <1>2, <2>1, <2>2
<1>9. Through(U)'
  BY <1>5, <1>6, <1>7, <1>8 DEF Through
<1> QED BY <1>2, <1>3, <1>9

(* The first half of ThroughInv.                                           *)
LEMMA ThroughStep ==
  ASSUME TypeOK, LoaderInv, GraphInv, NamesDiffer, NEW T \in SUBSET Names, Through(T), [Next]_vars
  PROVE  \E U \in SUBSET Names : Through(U)'
<1>1. ASSUME NEW m \in Names, LoadKnown(m) \/ LoadCircular(m) \/ LoadMissing(m)
      PROVE  Through(T)'
  <2>1. Loading' = Loading /\ project' = project /\ registry' = registry
    BY <1>1, Asked, ProjectType DEF Loading, Frames
  <2>2. ASSUME NEW g \in Gone', g \notin Gone PROVE g[2] \in T \cup Loading'
    <3>1. g = <<Len(calls), m>> /\ g[2] = m
      BY <1>1, <2>2, Asked
    <3>2. m \in Exists
      <4>1. g[2] \in Exists'
        BY DEF Gone
      <4> QED BY <2>1, <3>1, <4>1, GraphFixed
    <3>3. m \in Loading \/ IsLoaded(m)
      BY <1>1, <3>2, Asked
    <3>4. m \in Loading \/ m \in Registered
      BY <3>2, <3>3, LoadedIsRegistered
    <3> QED BY <2>1, <3>1, <3>4 DEF Through
  <2> QED BY <2>1, <2>2, ThroughStays
<1>2. ASSUME NEW m \in Names, LoadOpen(m) PROVE Through(T)'
  <2>1. /\ Len(calls') = Len(calls) + 1 /\ Len(calls) \in Nat
        /\ DOMAIN calls = 1 .. Len(calls) /\ DOMAIN calls' = 1 .. Len(calls) + 1
        /\ \A i \in 1 .. Len(calls) : calls'[i].module = calls[i].module
        /\ calls'[Len(calls) + 1].module = m
        /\ \A g \in Gone' : g \in Gone \/ g = <<Len(calls), m>>
    BY <1>2, GoneOpen, ProjectType DEF Frames
  <2>2. Loading \subseteq Loading' /\ m \in Loading'
    <3>1. /\ Len(calls) + 1 \in 1 .. Len(calls) + 1
          /\ \A i \in 1 .. Len(calls) : i \in 1 .. Len(calls) + 1
      BY <2>1
    <3> QED BY <2>1, <3>1 DEF Loading
  <2>3. project' = project /\ registry' = registry
    BY <1>2 DEF LoadOpen
  <2>4. \A g \in Gone' : g \in Gone \/ g[2] \in T \cup Loading'
    BY <2>1, <2>2
  <2> QED BY <2>2, <2>3, <2>4, ThroughStays
<1>3. CASE LoadFinish
  BY <1>3, ThroughFinish
<1>4. CASE SkipSelective
  <2>1. Loading' = Loading
    BY <1>4, Skipped, ProjectType DEF Loading, Frames
  <2> QED BY <1>4, <2>1, Skipped, ThroughStays
<1>5. CASE PreloadDone \/ ModuleChecked \/ ProgramChecked \/ UNCHANGED vars
  <2>1. Loading' = Loading
    BY <1>5, Checked DEF Loading
  <2> QED BY <1>5, <2>1, Checked, ThroughStays
<1> QED BY <1>1, <1>2, <1>3, <1>4, <1>5 DEF Next, Load

(* When the preloading ends, what was gone through is closed, and holds    *)
(* what the program needs.                                                 *)
LEMMA AllReached ==
  ASSUME TypeOK, LoaderInv, ThroughInv, NamesDiffer, PreloadDone, ~Full
  PROVE  Reached \subseteq Registered \cup project.unparsed
<1>1. PICK T \in SUBSET Names : Through(T)
  BY DEF ThroughInv
<1>2. Len(calls) = 0 /\ \A b \in Goal : <<0, b>> \in Gone
  BY Checked
<1>3. Loading = {}
  BY <1>2, ProjectType DEF Loading, Frames
<1>4. Goal \subseteq T
  BY <1>1, <1>2, <1>3 DEF Through
<1>5. ASSUME NEW a, NEW b, a \in T, <<a, b>> \in Edges PROVE b \in T
  <2>1. b \in Exists
    BY <1>5 DEF Edges
  <2> QED BY <1>1, <1>3, <1>5, <2>1 DEF Through
<1>6. T \subseteq Exists /\ T \subseteq Registered \cup project.unparsed
  BY <1>1 DEF Through
<1>7. Reached \subseteq T
  BY <1>4, <1>5, <1>6, GoalLeast
<1> QED BY <1>6, <1>7

(* What a step leaves as it is or only adds to.                            *)
LEMMA Grows ==
  ASSUME TypeOK, LoaderInv, GraphInv, [Next]_vars
  PROVE  /\ project' = project /\ (Full => Full') /\ Registered \subseteq Registered'
         /\ PreloadDone \/ (phase = "preload" <=> phase' = "preload")
<1>1. ASSUME NEW m \in Names, LoadKnown(m) \/ LoadCircular(m) \/ LoadMissing(m)
      PROVE  project' = project /\ registry' = registry /\ phase' = phase
  BY <1>1, Asked
<1>2. ASSUME NEW m \in Names, LoadOpen(m)
      PROVE  project' = project /\ registry' = registry /\ phase' = phase
  BY <1>2 DEF LoadOpen, driver
<1>3. CASE LoadFinish
  <2>1. PICK n, c : n = Len(calls) /\ c = calls[Len(calls)].module
    OBVIOUS
  <2>2. /\ project' = project /\ phase' = phase /\ Registered \subseteq Registered'
        /\ Len(registry') >= Len(registry) /\ Len(registry') \in Nat
    BY <1>3, <2>1, Finished
  <2>3. Full => Full'
    BY <2>2, LoaderAssumption DEF Full, TypeOK
  <2> QED BY <2>2, <2>3
<1>4. CASE SkipSelective
  BY <1>4, Skipped DEF Registered, Full
<1>5. CASE PreloadDone \/ ModuleChecked \/ ProgramChecked \/ UNCHANGED vars
  BY <1>5, Checked DEF Registered, Full
<1> QED BY <1>1, <1>2, <1>3, <1>4, <1>5 DEF Next, Load, Registered, Full

LEMMA ThroughNext ==
  TypeOK /\ LoaderInv /\ GraphInv /\ ThroughInv /\ [Next]_vars => ThroughInv'
<1> SUFFICES ASSUME TypeOK, LoaderInv, GraphInv, ThroughInv, [Next]_vars, NamesDiffer'
             PROVE  /\ \E T \in SUBSET Names : Through(T)'
                    /\ (phase # "preload" /\ ~Full => Reached \subseteq Registered \cup project.unparsed)'
  BY DEF ThroughInv
<1>1. project' = project /\ (Full => Full') /\ Registered \subseteq Registered'
  BY Grows
<1>2. NamesDiffer /\ Reached' = Reached
  BY <1>1, GraphFixed
<1>3. \E T \in SUBSET Names : Through(T)'
  BY <1>2, ThroughStep DEF ThroughInv
<1>4. ASSUME phase' # "preload", ~Full' PROVE Reached' \subseteq Registered' \cup project'.unparsed
  <2>1. CASE PreloadDone
    BY <1>1, <1>2, <1>4, <2>1, AllReached
  <2>2. CASE phase # "preload"
    BY <1>1, <1>2, <1>4, <2>2 DEF ThroughInv
  <2> QED BY <1>4, <2>1, <2>2, Grows
<1> QED BY <1>3, <1>4

-----------------------------------------------------------------------------
(* The place that CleanInv makes an exception for: what call i waits for.  *)
Waits(g) == g[1] < Len(calls) /\ g[2] = calls[g[1] + 1].module

LEMMA CleanFinish ==
  ASSUME TypeOK, LoaderInv, GraphInv, LoadFinish,
         Registered \subseteq Clean, \A g \in Gone : g[2] \in Clean \/ Waits(g)
  PROVE  Registered' \subseteq Clean /\ \A g \in Gone' : g[2] \in Clean \/ Waits(g)'
<1>1. PICK n, c : n = Len(calls) /\ c = calls[Len(calls)].module
  OBVIOUS
<1>2. c \in Clean
  <2>1. c \in Exists
    BY <1>1, Finished
  <2>2. ASSUME NEW b, <<c, b>> \in Edges PROVE b \in Clean
    <3>1. <<n, b>> \in Gone
      BY <1>1, <2>2, Finished
    <3>2. ~Waits(<<n, b>>)
      BY <1>1, ProjectType DEF Waits
    <3> QED BY <3>1, <3>2
  <2> QED BY <2>1, <2>2, CleanUp
<1>3. ASSUME NEW g \in Gone' PROVE g[2] \in Clean \/ Waits(g)'
  <2>1. /\ g \in Gone /\ g[1] < n /\ Len(calls') = n - 1 /\ n \in Nat
        /\ \A i \in 1 .. n - 1 : calls'[i] = calls[i]
    BY <1>1, <1>3, Finished
  <2>2. g[1] \in 0 .. n
    BY <1>1, <2>1 DEF Gone
  <2>3. CASE Waits(g) /\ g[1] < n - 1
    <3>1. g[1] + 1 \in 1 .. n - 1
      BY <2>1, <2>2, <2>3
    <3> QED BY <2>1, <2>3, <3>1 DEF Waits
  <2>4. CASE Waits(g) /\ g[1] = n - 1
    <3>1. g[2] = c
      BY <1>1, <2>1, <2>4 DEF Waits
    <3> QED BY <1>2, <3>1
  <2> QED BY <2>1, <2>2, <2>3, <2>4
<1>4. Registered' \subseteq Registered \cup {c}
  BY <1>1, Finished
<1> QED BY <1>2, <1>3, <1>4

LEMMA CleanStep ==
  ASSUME TypeOK, LoaderInv, GraphInv, NamesDiffer, [Next]_vars, reported' = {},
         Registered \subseteq Clean, \A g \in Gone : g[2] \in Clean \/ Waits(g)
  PROVE  Registered' \subseteq Clean /\ \A g \in Gone' : g[2] \in Clean \/ Waits(g)'
<1>1. ASSUME NEW m \in Names, LoadKnown(m) \/ LoadCircular(m) \/ LoadMissing(m),
             NEW g \in Gone'
      PROVE  g[2] \in Clean \/ Waits(g)'
  <2>1. CASE g \in Gone
    <3>1. /\ Len(calls') = Len(calls) /\ Len(calls) \in Nat
          /\ \A i \in 1 .. Len(calls) : calls'[i].module = calls[i].module
      BY <1>1, Asked, ProjectType
    <3>2. g[1] \in 0 .. Len(calls)
      BY <2>1 DEF Gone
    <3>3. ASSUME Waits(g) PROVE Waits(g)'
      <4>1. g[1] + 1 \in 1 .. Len(calls)
        BY <3>1, <3>2, <3>3 DEF Waits
      <4> QED BY <3>1, <3>3, <4>1 DEF Waits
    <3> QED BY <2>1, <3>3
  <2>2. CASE g \notin Gone
    <3>1. g = <<Len(calls), m>> /\ g[2] = m /\ project' = project
      BY <1>1, <2>2, Asked
    <3>2. m \in Exists
      <4>1. g[2] \in Exists'
        BY DEF Gone
      <4> QED BY <3>1, <4>1, GraphFixed
    <3>3. IsLoaded(m)
      BY <1>1, <3>2, Asked
    <3> QED BY <3>1, <3>2, <3>3, LoadedIsRegistered
  <2> QED BY <2>1, <2>2
<1>2. ASSUME NEW m \in Names, LoadOpen(m), NEW g \in Gone' PROVE g[2] \in Clean \/ Waits(g)'
  <2>1. /\ Len(calls') = Len(calls) + 1 /\ Len(calls) \in Nat
        /\ \A i \in 1 .. Len(calls) : calls'[i].module = calls[i].module
        /\ calls'[Len(calls) + 1].module = m
        /\ g \in Gone \/ g = <<Len(calls), m>>
    BY <1>2, GoneOpen, ProjectType
  <2>2. CASE g \in Gone
    <3>1. g[1] \in 0 .. Len(calls)
      BY <2>2 DEF Gone
    <3>2. ASSUME Waits(g) PROVE Waits(g)'
      <4>1. g[1] + 1 \in 1 .. Len(calls)
        BY <2>1, <3>1, <3>2 DEF Waits
      <4>2. g[1] < Len(calls')
        BY <2>1, <3>1
      <4> QED BY <2>1, <3>2, <4>1, <4>2 DEF Waits
    <3> QED BY <2>2, <3>2
  <2>3. CASE g = <<Len(calls), m>>
    <3>1. g[1] < Len(calls') /\ g[2] = calls'[g[1] + 1].module
      BY <2>1, <2>3
    <3> QED BY <3>1 DEF Waits
  <2> QED BY <2>1, <2>2, <2>3
<1>3. ASSUME SkipSelective, NEW g \in Gone' PROVE g[2] \in Clean \/ Waits(g)'
  <2>1. /\ Len(calls') = Len(calls) /\ Len(calls) \in Nat /\ g \in Gone
        /\ \A i \in 1 .. Len(calls) : calls'[i].module = calls[i].module
    BY <1>3, Skipped, ProjectType
  <2>2. g[1] \in 0 .. Len(calls)
    BY <2>1 DEF Gone
  <2>3. ASSUME Waits(g) PROVE Waits(g)'
    <3>1. g[1] + 1 \in 1 .. Len(calls)
      BY <2>1, <2>2, <2>3 DEF Waits
    <3> QED BY <2>1, <2>3, <3>1 DEF Waits
  <2> QED BY <2>1, <2>3
<1>4. ASSUME PreloadDone \/ ModuleChecked \/ ProgramChecked \/ UNCHANGED vars, NEW g \in Gone'
      PROVE  g[2] \in Clean \/ Waits(g)'
  <2>1. calls' = calls /\ g \in Gone
    BY <1>4, Checked
  <2> QED BY <2>1 DEF Waits
<1>5. CASE LoadFinish
  BY <1>5, CleanFinish
<1>6. ASSUME ~LoadFinish PROVE Registered' \subseteq Clean
  <2>1. registry' = registry
    BY <1>6, Asked, Skipped, Checked DEF Next, Load, LoadOpen
  <2> QED BY <2>1 DEF Registered
<1> QED BY <1>1, <1>2, <1>3, <1>4, <1>5, <1>6 DEF Next, Load

LEMMA CleanNext ==
  TypeOK /\ LoaderInv /\ GraphInv /\ CleanInv /\ [Next]_vars => CleanInv'
<1> SUFFICES ASSUME TypeOK, LoaderInv, GraphInv, CleanInv, [Next]_vars,
                    NamesDiffer', reported' = {}
             PROVE  /\ Registered' \subseteq Clean'
                    /\ \A g \in Gone' : g[2] \in Clean' \/ Waits(g)'
                    /\ phase' # "preload" => Goal' \subseteq Clean'
  BY DEF CleanInv, Waits
<1>1. project' = project
  BY Grows
<1>2. NamesDiffer /\ Clean' = Clean /\ Goal' = Goal
  BY <1>1, GraphFixed
<1>3. reported = {}
  <2>1. reported' = reported \/ \E m \in Names : reported' = reported \cup {m}
    BY Asked, Skipped, Checked DEF Next, Load, LoadOpen, LoadFinish
  <2> QED BY <2>1
<1>4. Registered \subseteq Clean /\ \A g \in Gone : g[2] \in Clean \/ Waits(g)
  BY <1>2, <1>3 DEF CleanInv, Waits
<1>5. Registered' \subseteq Clean /\ \A g \in Gone' : g[2] \in Clean \/ Waits(g)'
  BY <1>2, <1>4, CleanStep
<1>6. ASSUME phase' # "preload" PROVE Goal \subseteq Clean
  <2>1. CASE phase # "preload"
    BY <1>2, <1>3, <2>1 DEF CleanInv
  <2>2. CASE PreloadDone
    <3>1. Len(calls) = 0 /\ \A b \in Goal : <<0, b>> \in Gone
      BY <2>2, Checked
    <3>2. \A b \in Goal : ~Waits(<<0, b>>)
      BY <3>1 DEF Waits
    <3>3. ASSUME NEW b \in Goal PROVE b \in Clean
      <4>1. <<0, b>> \in Gone /\ ~Waits(<<0, b>>)
        BY <3>1, <3>2
      <4> QED BY <1>4, <4>1
    <3> QED BY <3>3
  <2> QED BY <1>6, <2>1, <2>2, Grows
<1> QED BY <1>2, <1>5, <1>6

-----------------------------------------------------------------------------
PreloadInv == TypeOK /\ UnitInRegistry /\ LoaderInv /\ GraphInv /\ ThroughInv /\ CleanInv

LEMMA PreloadInit == Init => PreloadInv
<1> SUFFICES ASSUME Init PROVE PreloadInv
  OBVIOUS
<1>1. TypeOK /\ UnitInRegistry /\ LoaderInv /\ GraphInv
  BY TypeInit, LoaderInit, GraphInit
<1>2. ThroughInv
  <2>1. Through({})
    BY EmptyAtFirst DEF Through
  <2> QED BY <2>1, EmptyAtFirst DEF ThroughInv
<1>3. CleanInv
  BY EmptyAtFirst DEF CleanInv
<1> QED BY <1>1, <1>2, <1>3 DEF PreloadInv

LEMMA PreloadInvariant == StackSuffices => (Spec => []PreloadInv)
<1> SUFFICES ASSUME StackSuffices PROVE Spec => []PreloadInv
  OBVIOUS
<1>1. PreloadInv /\ [Next]_vars => PreloadInv'
  BY TypeNext, LoaderNext, GraphNext, ThroughNext, CleanNext DEF PreloadInv
<1> QED BY <1>1, PreloadInit, PTL DEF Spec, SafeSpec

(* If the stack holds as many names as there are modules, the order of     *)
(* registration puts a module after those it needs, except in a circle.    *)
THEOREM DependenciesCorrect == StackSuffices => (Spec => []DependenciesFirst)
<1>1. PreloadInv => DependenciesFirst
  <2> SUFFICES ASSUME InOrder, NEW i \in DOMAIN registry, NEW j \in DOMAIN registry,
                      i < j, registry[j] \in Needs(registry[i])
               PROVE  registry[i] \in ReachedBy({registry[j]})
    BY DEF PreloadInv, GraphInv, DependenciesFirst
  <2>1. registry[i] \in Exists /\ registry[j] \in Exists
    BY DEF InOrder, Registered, ToSet
  <2>2. <<registry[j], registry[i]>> \in Reaches
    BY <2>1 DEF InOrder, Edges
  <2> QED BY <2>2 DEF Reaches
<1> QED BY <1>1, PreloadInvariant, PTL

(* If the stack holds as many names as there are modules, only circular    *)
(* imports are reported, and when all is preloaded some circle that the    *)
(* program leads into has been, whatever the size of the registry.         *)
THEOREM CyclesCorrect == StackSuffices => (Spec => []CyclesReported)
<1>1. PreloadInv => CyclesReported
  <2> SUFFICES ASSUME PreloadInv PROVE CyclesReported
    OBVIOUS
  <2>1. \A m \in reported : InCycle(m)
    BY DEF PreloadInv, GraphInv, Circles
  <2>2. ASSUME NamesDiffer, phase = "modules", reported = {}, NEW m \in ReachedBy(Wanted)
        PROVE  ~InCycle(m)
    <3>1. Goal \subseteq Clean
      BY <2>2 DEF PreloadInv, CleanInv
    <3> QED BY <2>2, <3>1, GoalClean DEF Reached
  <2> QED BY <2>1, <2>2 DEF CyclesReported
<1> QED BY <1>1, PreloadInvariant, PTL

(* If the stack holds as many names as there are modules, the preloading   *)
(* finds all that the program needs while the registry has room.           *)
THEOREM PreloadCorrect == StackSuffices => (Spec => []PreloadComplete)
<1>1. PreloadInv => PreloadComplete
  <2> SUFFICES ASSUME PreloadInv, NamesDiffer, phase = "modules", Len(registry) < RegistrySize,
                      NEW m \in ReachedBy(Wanted)
               PROVE  m \in Registered \/ m \in project.unparsed
    BY DEF PreloadComplete
  <2>1. ~Full
    BY LoaderAssumption DEF PreloadInv, TypeOK, Full
  <2> QED BY <2>1 DEF PreloadInv, ThroughInv, Reached
<1> QED BY <1>1, PreloadInvariant, PTL
=============================================================================
