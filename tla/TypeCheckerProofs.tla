------------------------- MODULE TypeCheckerProofs -------------------------
(***************************************************************************)
(* Proofs about TypeChecker: which overload a call gets, that overloads    *)
(* are told apart, and that the checker's tables and C's scopes agree.     *)
(***************************************************************************)
EXTENDS TypeChecker, FiniteSetTheorems, WellFoundedInduction, TLAPS

SymbolsOf == [name : Names, kind : Kinds \cup {Function}, chain : Seq(Signatures)]
ScopesOf == [names : SUBSET Names, own : BOOLEAN]

-----------------------------------------------------------------------------
(***************************************************************************)
(* Least and greatest numbers: the order of Nat is well-founded, and what  *)
(* is at most n has a greatest because n - x has a least.                  *)
(***************************************************************************)
LEMMA Least ==
  ASSUME NEW S \in SUBSET Nat, S # {}
  PROVE  /\ Min(S) \in S
         /\ \A y \in S : Min(S) <= y
<1>1. PICK x \in S : \A y \in S : ~ (<<y, x>> \in OpToRel(<, Nat))
  BY WFMin, NatLessThanWellFounded, Zenon
<1>2. ASSUME NEW y \in S PROVE x <= y
  <2>1. <<y, x>> \in Nat \X Nat
    OBVIOUS
  <2>2. OpToRel(<, Nat) = {ss \in Nat \X Nat : ss[1] < ss[2]}
    BY Zenon DEF OpToRel
  <2>3. ~ (y < x)
    BY <2>1, <2>2, <1>1, <1>2
  <2> QED
    BY <2>3
<1> QED
  BY <1>2 DEF Min

LEMMA Greatest ==
  ASSUME NEW n \in Nat, NEW S \in SUBSET (0 .. n), S # {}
  PROVE  /\ Max(S) \in S
         /\ \A y \in S : y <= Max(S)
<1> DEFINE D == {n - x : x \in S}
<1>1. D \in SUBSET Nat /\ D # {}
  <2>1. \A x \in S : n - x \in Nat
    OBVIOUS
  <2> QED
    BY <2>1
<1> HIDE DEF D
<1>2. /\ Min(D) \in D
      /\ \A y \in D : Min(D) <= y
  BY <1>1, Least
<1>3. PICK m \in D : \A y \in D : m <= y
  BY <1>2
<1>4. PICK x \in S : m = n - x
  BY DEF D
<1>5. ASSUME NEW y \in S PROVE y <= x
  <2>1. n - y \in D
    BY <1>5 DEF D
  <2>2. n - x <= n - y
    BY <2>1, <1>3, <1>4
  <2> QED
    BY <2>2
<1> QED
  BY <1>5 DEF Max

-----------------------------------------------------------------------------
\* What the assumptions say of signatures.
LEMMA SignatureTypes ==
  ASSUME NEW sig \in Signatures
  PROVE  /\ sig.params \in Seq(Kinds)
         /\ sig.variadic \in BOOLEAN
<1>1. CASE sig \in Externs
  BY <1>1, CheckerAssumption
<1>2. CASE sig \in [params : ParamLists, variadic : {FALSE}]
  <2>1. PICK n \in 0 .. MaxParams : sig.params \in [1 .. n -> Kinds]
    BY <1>2 DEF ParamLists
  <2>2. n \in Nat
    OBVIOUS
  <2>3. [1 .. n -> Kinds] \in SUBSET Seq(Kinds)
    BY <2>2
  <2>4. sig.params \in Seq(Kinds)
    BY <2>1, <2>3
  <2>5. sig.variadic \in BOOLEAN
    BY <1>2
  <2> QED
    BY <2>4, <2>5
<1> QED
  BY <1>1, <1>2 DEF Signatures

\* The score of a signature: none unless it takes the arguments; 10 for a parameter that is
\* matched exactly, 5 for one that is converted to, and 1 for extra arguments.
LEMMA Exactly ==
  ASSUME NEW sig \in Signatures, NEW args \in Seq(Kinds)
  PROVE  /\ Exact(sig, args) \in SUBSET (DOMAIN sig.params)
         /\ Cardinality(Exact(sig, args)) \in 0 .. Len(sig.params)
         /\ Cardinality(Exact(sig, args)) = Len(sig.params) =>
              \A i \in DOMAIN sig.params : args[i] = sig.params[i]
         /\ (\A i \in DOMAIN sig.params : args[i] = sig.params[i]) =>
              Cardinality(Exact(sig, args)) = Len(sig.params)
<1>1. sig.params \in Seq(Kinds)
  BY SignatureTypes
<1>2. PICK n \in Nat : Len(sig.params) = n /\ DOMAIN sig.params = 1 .. n
  BY <1>1
<1>3. IsFiniteSet(1 .. n) /\ Cardinality(1 .. n) = n
  BY FS_Interval
<1>4. Exact(sig, args) \in SUBSET (1 .. n)
  BY <1>2 DEF Exact
<1>5. /\ IsFiniteSet(Exact(sig, args))
      /\ Cardinality(Exact(sig, args)) <= Cardinality(1 .. n)
      /\ Cardinality(1 .. n) = Cardinality(Exact(sig, args)) => Exact(sig, args) = 1 .. n
  BY <1>3, <1>4, FS_Subset
<1>6. Cardinality(Exact(sig, args)) \in Nat
  BY <1>5, FS_CardinalityType
<1>7. Cardinality(Exact(sig, args)) = n => \A i \in DOMAIN sig.params : args[i] = sig.params[i]
  BY <1>2, <1>3, <1>5 DEF Exact
<1>8. (\A i \in DOMAIN sig.params : args[i] = sig.params[i]) => Exact(sig, args) = 1 .. n
  BY <1>2 DEF Exact
<1> QED
  BY <1>2, <1>3, <1>4, <1>5, <1>6, <1>7, <1>8

LEMMA Scores ==
  ASSUME NEW sig \in Signatures, NEW args \in Seq(Kinds)
  PROVE  /\ Score(sig, args) \in Int
         /\ Score(sig, args) <= 10 * Len(args) + 1
         /\ Score(sig, args) >= 0 <=>
              /\ TakesCount(sig, args)
              /\ \A i \in DOMAIN sig.params : Converts(args[i], sig.params[i])
         /\ sig.params = args => Score(sig, args) = 10 * Len(args)
         /\ Score(sig, args) >= 10 * Len(args) => sig.params = args
<1> DEFINE Fits == /\ TakesCount(sig, args)
                   /\ \A i \in DOMAIN sig.params : Converts(args[i], sig.params[i])
<1>1. PICK p \in Nat, m \in Nat :
        /\ Len(sig.params) = p /\ DOMAIN sig.params = 1 .. p
        /\ Len(args) = m /\ DOMAIN args = 1 .. m
  BY SignatureTypes
<1>2. PICK c \in 0 .. p : Cardinality(Exact(sig, args)) = c
  BY Exactly, <1>1
<1>3. Fits => p <= m
  BY <1>1 DEF TakesCount
<1>4. /\ Fits => Score(sig, args) = 5 * p + 5 * c + (IF m > p THEN 1 ELSE 0)
      /\ ~Fits => Score(sig, args) = -1
  BY <1>1, <1>2 DEF Score
<1>5. sig.params = args => Fits /\ c = p /\ m = p
  <2>1. sig.params = args => Fits /\ m = p
    BY <1>1 DEF TakesCount, Converts
  <2> QED
    BY <2>1, <1>1, <1>2, Exactly
<1>6. m = p /\ c = p => sig.params = args
  <2>1. sig.params \in Seq(Kinds)
    BY SignatureTypes
  <2> QED
    BY <2>1, <1>1, <1>2, Exactly
<1> HIDE DEF Fits
<1>7. Fits => Score(sig, args) \in Nat /\ Score(sig, args) <= 10 * m + 1
  BY <1>3, <1>4
<1>8. Fits /\ Score(sig, args) >= 10 * m => m = p /\ c = p
  BY <1>3, <1>4
<1>9. ~Fits => Score(sig, args) = -1
  BY <1>4
<1>10. sig.params = args => Score(sig, args) = 10 * m
  BY <1>4, <1>5
<1>11. Score(sig, args) >= 0 <=> Fits
  BY <1>7, <1>9
<1>12. Score(sig, args) >= 10 * m => sig.params = args
  BY <1>6, <1>8, <1>9
<1> QED
  BY <1>1, <1>7, <1>9, <1>10, <1>11, <1>12 DEF Fits

-----------------------------------------------------------------------------
(***************************************************************************)
(* The choice in a chain: it is one of those that fit, and none fits       *)
(* better.                                                                 *)
(***************************************************************************)
LEMMA Chosen ==
  ASSUME NEW chain \in Seq(Signatures), NEW args \in Seq(Kinds)
  PROVE  \/ /\ Choice(chain, args) = 0
            /\ \A i \in DOMAIN chain : ~ (Score(chain[i], args) >= 0)
         \/ /\ Choice(chain, args) \in DOMAIN chain
            /\ Score(chain[Choice(chain, args)], args) >= 0
            /\ \A i \in DOMAIN chain :
                 Score(chain[i], args) <= Score(chain[Choice(chain, args)], args)
<1> DEFINE score(i) == Score(chain[i], args)
           fit == {i \in DOMAIN chain : score(i) >= 0}
           best == {i \in fit : \A j \in fit : score(i) >= score(j)}
<1>1. \A i \in DOMAIN chain : score(i) \in Int /\ score(i) <= 10 * Len(args) + 1
  BY Scores
<1>2. Choice(chain, args) = IF fit = {} THEN 0 ELSE Min(best)
  BY DEF Choice
<1>3. CASE fit = {}
  BY <1>2, <1>3
<1>4. CASE fit # {}
  <2> DEFINE scores == {score(i) : i \in fit}
  <2>1. 10 * Len(args) + 1 \in Nat
    OBVIOUS
  <2>2. scores \in SUBSET (0 .. (10 * Len(args) + 1)) /\ scores # {}
    BY <2>1, <1>1, <1>4
  <2>3. PICK m \in scores : \A s \in scores : s <= m
    <3> HIDE DEF scores
    <3> QED
      BY <2>1, <2>2, Greatest
  <2>4. PICK b \in fit : score(b) = m
    BY <2>3
  <2>5. \A j \in fit : score(b) >= score(j)
    BY <2>3, <2>4, <1>1
  <2>6. best # {} /\ best \in SUBSET Nat
    BY <2>5
  <2>7. Min(best) \in best
    <3> HIDE DEF best
    <3> QED
      BY <2>6, Least
  <2>8. Choice(chain, args) \in best
    BY <2>7, <1>2, <1>4
  <2> HIDE DEF best
  <2>9. PICK c \in best : Choice(chain, args) = c
    BY <2>8
  <2>10. c \in DOMAIN chain /\ score(c) >= 0 /\ \A j \in fit : score(c) >= score(j)
    BY DEF best
  <2>11. ASSUME NEW i \in DOMAIN chain PROVE score(i) <= score(c)
    BY <2>10, <1>1
  <2> QED
    BY <2>9, <2>10, <2>11
<1> QED
  BY <1>3, <1>4

\* The first symbol of a name is one of its symbols.
LEMMA First ==
  ASSUME NEW table \in Seq(SymbolsOf), NEW name,
         NEW k \in DOMAIN table, table[k].name = name
  PROVE  /\ FirstIn(table, name) \in DOMAIN table
         /\ table[FirstIn(table, name)].name = name
<1> DEFINE S == {i \in DOMAIN table : table[i].name = name}
<1>1. S \in SUBSET Nat /\ S # {}
  OBVIOUS
<1>2. PICK i \in S : \A j \in S : i <= j
  <2> HIDE DEF S
  <2> QED
    BY <1>1, Least
<1>3. \A j \in 1 .. i - 1 : table[j].name # name
  BY <1>2
<1> QED
  BY <1>2, <1>3 DEF FirstIn

\* The tables are sequences of symbols; those that are functions have a chain of signatures.
Tables == {t \in Seq(SymbolsOf) : \A i \in DOMAIN t : (t[i].kind = Function) = (t[i].chain # <<>>)}
TablesOK == tables \in Seq(Tables) /\ tables # <<>>

(***************************************************************************)
(* find_symbol returns a symbol of the innermost table that has the name.  *)
(***************************************************************************)
LEMMA Found ==
  ASSUME TablesOK, NEW name
  PROVE  \/ /\ Having(name) = {}
            /\ FindSymbol(name) = NoSymbol
         \/ \E t \in DOMAIN tables : \E i \in DOMAIN tables[t] :
              /\ tables[t][i].name = name
              /\ FindSymbol(name) = tables[t][i]
              /\ t = Max(Having(name)) /\ i = FirstIn(tables[t], name)
<1>1. CASE Having(name) = {}
  BY <1>1 DEF FindSymbol
<1>2. CASE Having(name) # {}
  <2>1. PICK n \in Nat : Len(tables) = n /\ DOMAIN tables = 1 .. n
    BY DEF TablesOK
  <2>2. Having(name) \in SUBSET (0 .. n)
    BY <2>1 DEF Having
  <2>3. PICK t \in Having(name) : t = Max(Having(name))
    BY <2>2, <1>2, Greatest
  <2>4. PICK k \in DOMAIN tables[t] : tables[t][k].name = name
    BY DEF Having
  <2>5. t \in DOMAIN tables
    BY DEF Having
  <2>6. tables[t] \in Seq(SymbolsOf)
    BY <2>5 DEF TablesOK, Tables
  <2>7. /\ FirstIn(tables[t], name) \in DOMAIN tables[t]
        /\ tables[t][FirstIn(tables[t], name)].name = name
    BY <2>4, <2>6, First
  <2>8. FindSymbol(name) = tables[t][FirstIn(tables[t], name)]
    BY <1>2, <2>3 DEF FindSymbol
  <2> QED
    BY <2>3, <2>5, <2>7, <2>8
<1> QED
  BY <1>1, <1>2

\* The chain of what is found is one of signatures.
LEMMA FoundChain ==
  ASSUME TablesOK, NEW name
  PROVE  /\ FindSymbol(name).chain \in Seq(Signatures)
         /\ FindSymbol(name).kind \in Kinds \cup {Function, Unknown}
<1>1. CASE FindSymbol(name) = NoSymbol
  BY <1>1 DEF NoSymbol, Symbol
<1>2. ASSUME NEW t \in DOMAIN tables, NEW i \in DOMAIN tables[t], FindSymbol(name) = tables[t][i]
      PROVE  /\ FindSymbol(name).chain \in Seq(Signatures)
             /\ FindSymbol(name).kind \in Kinds \cup {Function, Unknown}
  <2>1. tables[t] \in Seq(SymbolsOf)
    BY DEF TablesOK, Tables
  <2>2. tables[t][i] \in SymbolsOf
    BY <2>1
  <2> QED
    BY <2>2, <1>2 DEF SymbolsOf
<1> QED
  BY <1>1, <1>2, Found

-----------------------------------------------------------------------------
(***************************************************************************)
(* A signature with the arguments' own types scores 10 for each of them,   *)
(* and nothing else does: so it is the choice, or another like it is.      *)
(***************************************************************************)
LEMMA BestIsChosen ==
  ASSUME TablesOK
  PROVE  BestOverload
<1> SUFFICES ASSUME NEW name \in Names, NEW m \in 0 .. MaxParams + 1, NEW args \in [1 .. m -> Kinds]
             PROVE  LET chain == FindSymbol(name).chain
                        choice == Choice(chain, args)
                    IN /\ \A i \in DOMAIN chain :
                            chain[i].params = args => choice # 0 /\ chain[choice].params = args
                       /\ choice # 0 => \/ Valid(chain[choice], args)
                                        \/ chain[choice].variadic /\ m > Len(chain[choice].params)
                       /\ choice = 0 => \A i \in DOMAIN chain : ~Valid(chain[i], args)
  BY DEF BestOverload
<1>1. PICK chain \in Seq(Signatures) : chain = FindSymbol(name).chain
  BY FoundChain
<1>2. m \in Nat
  OBVIOUS
<1>3. args \in Seq(Kinds) /\ Len(args) = m
  BY <1>2
<1> DEFINE choice == Choice(chain, args)
<1>4. \/ /\ choice = 0
         /\ \A i \in DOMAIN chain : ~ (Score(chain[i], args) >= 0)
      \/ /\ choice \in DOMAIN chain
         /\ Score(chain[choice], args) >= 0
         /\ \A i \in DOMAIN chain : Score(chain[i], args) <= Score(chain[choice], args)
  BY <1>3, Chosen
<1>5. \A i \in DOMAIN chain : chain[i] \in Signatures
  OBVIOUS
<1> HIDE DEF choice
<1>6. ASSUME NEW i \in DOMAIN chain, chain[i].params = args
      PROVE  choice # 0 /\ chain[choice].params = args
  <2>1. Score(chain[i], args) = 10 * m
    BY <1>3, <1>5, <1>6, Scores
  <2>2. choice \in DOMAIN chain /\ 10 * m <= Score(chain[choice], args)
    BY <2>1, <1>2, <1>4
  <2>3. chain[choice] \in Signatures
    BY <2>2, <1>5
  <2>4. Score(chain[choice], args) \in Int
    BY <2>3, <1>3, Scores
  <2>5. Score(chain[choice], args) >= 10 * m
    BY <2>2, <2>4, <1>2
  <2>6. chain[choice].params = args
    BY <2>3, <2>5, <1>3, Scores
  <2> QED
    BY <2>2, <2>6
<1>7. ASSUME choice # 0
      PROVE  Valid(chain[choice], args) \/ (chain[choice].variadic /\ m > Len(chain[choice].params))
  <2>1. choice \in DOMAIN chain /\ Score(chain[choice], args) >= 0
    BY <1>4, <1>7
  <2>2. chain[choice] \in Signatures
    BY <2>1, <1>5
  <2>3. PICK sig \in Signatures : sig = chain[choice]
    BY <2>2
  <2>4. /\ TakesCount(sig, args)
        /\ \A i \in DOMAIN sig.params : Converts(args[i], sig.params[i])
    BY <2>1, <2>3, <1>3, Scores
  <2>5. sig.params \in Seq(Kinds) /\ sig.variadic \in BOOLEAN
    BY SignatureTypes
  <2>6. m = Len(sig.params) => DOMAIN args = DOMAIN sig.params
    BY <2>5, <1>3
  <2>7. m = Len(sig.params) => Valid(sig, args)
    BY <2>4, <2>6, <1>3 DEF Valid
  <2>8. m # Len(sig.params) => sig.variadic /\ m > Len(sig.params)
    BY <2>4, <2>5, <1>2, <1>3 DEF TakesCount
  <2> QED
    BY <2>3, <2>7, <2>8
<1>8. ASSUME choice = 0, NEW i \in DOMAIN chain, Valid(chain[i], args)
      PROVE  FALSE
  <2>1. PICK sig \in Signatures : sig = chain[i]
    BY <1>5
  <2>2. sig.params \in Seq(Kinds)
    BY SignatureTypes
  <2>3. Len(sig.params) = m /\ DOMAIN sig.params = DOMAIN args
    BY <2>1, <2>2, <1>3, <1>8 DEF Valid
  <2>4. TakesCount(sig, args)
    BY <2>2, <2>3, <1>2, <1>3 DEF TakesCount
  <2>5. \A j \in DOMAIN sig.params : Converts(args[j], sig.params[j])
    BY <2>1, <2>3, <1>8 DEF Valid
  <2>6. Score(sig, args) >= 0
    BY <2>4, <2>5, <1>3, Scores
  <2> QED
    BY <2>1, <2>6, <1>4, <1>8
<1> QED
  BY <1>1, <1>6, <1>7, <1>8 DEF choice

-----------------------------------------------------------------------------
(***************************************************************************)
(* The table of every open scope of C: f climbs from the global one, by    *)
(* one wherever a scope has a table of its own, to the innermost; and what *)
(* a scope declares is in its table.                                       *)
(***************************************************************************)
Tabled(V, b) == Cardinality({c \in 1 .. b : V[c].own})

Climbs(f, T, V) ==
  /\ f \in [1 .. Len(V) -> 1 .. Len(T)]
  /\ f[1] = 1 /\ f[Len(V)] = Len(T)
  /\ \A b \in 1 .. Len(V) - 1 : f[b + 1] = f[b] + (IF V[b + 1].own THEN 1 ELSE 0)
  /\ \A b, c \in 1 .. Len(V) : b <= c => f[b] <= f[c]
  /\ \A b \in 1 .. Len(V) : f[b] <= b
  /\ \A b \in 1 .. Len(V) : f[b] = Tabled(V, b)

Knows(table, d) == \E i \in DOMAIN table : table[i].name = d

Aligned(T, V) ==
  \E f \in [1 .. Len(V) -> 1 .. Len(T)] :
    /\ Climbs(f, T, V)
    /\ \A b \in 1 .. Len(V) : \A d \in V[b].names : Knows(T[f[b]], d)

Distinct(table) ==
  \A i \in DOMAIN table : \A j, k \in DOMAIN table[i].chain :
    table[i].chain[j].params = table[i].chain[k].params => j = k

\* The number of tables depends on the scopes up to that one only, and grows by one or by none.
LEMMA TabledAlike ==
  ASSUME NEW V, NEW V2, NEW b \in Nat, \A c \in 1 .. b : V2[c].own = V[c].own
  PROVE  Tabled(V2, b) = Tabled(V, b)
<1>1. {c \in 1 .. b : V2[c].own} = {c \in 1 .. b : V[c].own}
  OBVIOUS
<1> QED
  BY <1>1, Zenon DEF Tabled

LEMMA TabledNext ==
  ASSUME NEW V, NEW n \in Nat
  PROVE  Tabled(V, n + 1) = Tabled(V, n) + (IF V[n + 1].own THEN 1 ELSE 0)
<1>1. PICK S, S2 : S = {c \in 1 .. n : V[c].own} /\ S2 = {c \in 1 .. n + 1 : V[c].own}
  OBVIOUS
<1>2. IsFiniteSet(1 .. n) /\ S \in SUBSET (1 .. n)
  BY <1>1, FS_Interval
<1>3. IsFiniteSet(S)
  BY <1>2, FS_Subset
<1>4. Tabled(V, n) = Cardinality(S) /\ Tabled(V, n + 1) = Cardinality(S2)
  BY <1>1, Zenon DEF Tabled
<1>5. Cardinality(S) \in Nat
  BY <1>3, FS_CardinalityType
<1>6. CASE V[n + 1].own
  <2>1. S2 = S \cup {n + 1} /\ n + 1 \notin S
    BY <1>1, <1>6
  <2> QED
    BY <2>1, <1>3, <1>4, <1>5, <1>6, FS_AddElement
<1>7. CASE ~V[n + 1].own
  <2>1. S2 = S
    BY <1>1, <1>7
  <2> QED
    BY <2>1, <1>4, <1>5, <1>7
<1> QED
  BY <1>6, <1>7

\* The scopes of C never close a table that another open scope declares in.
LEMMA Agreeing ==
  ASSUME TablesOK, visible \in Seq(ScopesOf), Aligned(tables, visible)
  PROVE  ScopesAgree
<1>1. PICK f \in [1 .. Len(visible) -> 1 .. Len(tables)] :
        /\ Climbs(f, tables, visible)
        /\ \A b \in 1 .. Len(visible) : \A d \in visible[b].names : Knows(tables[f[b]], d)
  BY DEF Aligned
<1> SUFFICES ASSUME NEW b \in DOMAIN visible, NEW name \in visible[b].names
             PROVE  /\ FindSymbol(name) # NoSymbol
                    /\ Max(Having(name)) >= TableOf(b)
  BY DEF ScopesAgree
<1>2. b \in 1 .. Len(visible)
  OBVIOUS
<1>3. Knows(tables[f[b]], name)
  BY <1>1, <1>2
<1>4. PICK t \in 1 .. Len(tables) : t = f[b]
  BY <1>2
<1>5. t \in Having(name)
  <2>1. t \in DOMAIN tables
    BY DEF TablesOK
  <2>2. PICK i \in DOMAIN tables[t] : tables[t][i].name = name
    BY <1>3, <1>4 DEF Knows
  <2> QED
    BY <2>1, <2>2 DEF Having
<1>6. t = TableOf(b)
  <2>1. f[b] = Tabled(visible, b)
    BY <1>1, <1>2 DEF Climbs
  <2> QED
    BY <2>1, <1>4 DEF Tabled, TableOf
<1>7. Max(Having(name)) >= t
  <2>1. PICK n \in Nat : Len(tables) = n /\ DOMAIN tables = 1 .. n
    BY DEF TablesOK
  <2>2. Having(name) \in SUBSET (0 .. n) /\ Having(name) # {}
    BY <2>1, <1>5 DEF Having
  <2>3. PICK m \in Having(name) : m = Max(Having(name)) /\ t <= m
    BY <2>1, <2>2, <1>5, Greatest
  <2> QED
    BY <2>2, <2>3, <1>5
<1>8. FindSymbol(name) # NoSymbol
  <2>1. PICK u \in DOMAIN tables : \E j \in DOMAIN tables[u] : FindSymbol(name) = tables[u][j]
    BY <1>5, Found
  <2>2. tables[u] \in Seq(SymbolsOf)
    BY DEF TablesOK, Tables
  <2>3. FindSymbol(name) \in SymbolsOf
    BY <2>1, <2>2
  <2>4. FindSymbol(name).kind \in Kinds \cup {Function}
    BY <2>3 DEF SymbolsOf
  <2>5. Unknown \notin Kinds \cup {Function}
    BY CheckerAssumption DEF Unknown, Function
  <2>6. NoSymbol.kind = Unknown
    BY DEF NoSymbol, Symbol
  <2> QED
    BY <2>4, <2>5, <2>6
<1> QED
  BY <1>6, <1>7, <1>8

-----------------------------------------------------------------------------
(***************************************************************************)
(* How tables and scopes may change: symbols and what the innermost scope  *)
(* declares join, a scope is opened, the innermost is closed.              *)
(***************************************************************************)
Keeps(T, T2) == \A t \in 1 .. Len(T) : \A d : Knows(T[t], d) => Knows(T2[t], d)

LEMMA Grows ==
  ASSUME NEW T, NEW T2, Len(T2) = Len(T), Keeps(T, T2),
         NEW V \in Seq(ScopesOf), NEW V2 \in Seq(ScopesOf), V # <<>>, Len(V2) = Len(V),
         \A b \in 1 .. Len(V) : V2[b].own = V[b].own,
         \A b \in 1 .. Len(V) : \A d \in V2[b].names :
           d \in V[b].names \/ (b = Len(V) /\ Knows(T2[Len(T)], d)),
         Aligned(T, V)
  PROVE  Aligned(T2, V2)
<1>1. PICK f \in [1 .. Len(V) -> 1 .. Len(T)] :
        /\ Climbs(f, T, V)
        /\ \A b \in 1 .. Len(V) : \A d \in V[b].names : Knows(T[f[b]], d)
  BY DEF Aligned
<1>2. PICK n \in Nat : n = Len(V) /\ n > 0
  OBVIOUS
<1>3. f \in [1 .. Len(V2) -> 1 .. Len(T2)]
  OBVIOUS
<1>4. Climbs(f, T2, V2)
  <2>1. ASSUME NEW b \in 1 .. n PROVE f[b] = Tabled(V2, b)
    <3>1. Tabled(V2, b) = Tabled(V, b)
      BY <1>2, TabledAlike
    <3> QED
      BY <3>1, <1>1, <1>2 DEF Climbs
  <2> QED
    BY <2>1, <1>1, <1>2, <1>3 DEF Climbs
<1>5. ASSUME NEW b \in 1 .. Len(V2), NEW d \in V2[b].names
      PROVE  Knows(T2[f[b]], d)
  <2>1. b \in 1 .. Len(V) /\ f[b] \in 1 .. Len(T)
    OBVIOUS
  <2>2. CASE d \in V[b].names
    BY <2>1, <2>2, <1>1 DEF Keeps
  <2>3. CASE b = Len(V) /\ Knows(T2[Len(T)], d)
    BY <2>3, <1>1 DEF Climbs
  <2> QED
    BY <2>1, <2>2, <2>3
<1> QED
  BY <1>3, <1>4, <1>5 DEF Aligned

LEMMA Opens ==
  ASSUME NEW T \in Seq(Tables), NEW T2 \in Seq(Tables), Keeps(T, T2),
         NEW V \in Seq(ScopesOf), V # <<>>, NEW scope \in ScopesOf,
         Len(T2) = Len(T) + (IF scope.own THEN 1 ELSE 0),
         \A d \in scope.names : Knows(T2[Len(T2)], d),
         Aligned(T, V)
  PROVE  Aligned(T2, Append(V, scope))
<1>1. PICK f \in [1 .. Len(V) -> 1 .. Len(T)] :
        /\ Climbs(f, T, V)
        /\ \A b \in 1 .. Len(V) : \A d \in V[b].names : Knows(T[f[b]], d)
  BY DEF Aligned
<1>2. PICK n \in Nat, t \in Nat, u \in Nat : n = Len(V) /\ n > 0 /\ t = Len(T) /\ u = Len(T2)
  OBVIOUS
<1>3. u = t + (IF scope.own THEN 1 ELSE 0)
  BY <1>2
<1>4. PICK V2 : V2 = Append(V, scope)
  OBVIOUS
<1>5. /\ Len(V2) = n + 1 /\ V2[n + 1] = scope
      /\ \A b \in 1 .. n : V2[b] = V[b]
  BY <1>2, <1>4
<1> DEFINE g == [b \in 1 .. n + 1 |-> IF b <= n THEN f[b] ELSE u]
<1>6. f \in [1 .. n -> 1 .. t] /\ f[1] = 1 /\ f[n] = t
  BY <1>1, <1>2 DEF Climbs
<1>7. g \in [1 .. n + 1 -> 1 .. u]
  <2>1. ASSUME NEW b \in 1 .. n + 1 PROVE g[b] \in 1 .. u
    <3>1. CASE b <= n
      <4>1. f[b] \in 1 .. t
        BY <1>6, <3>1
      <4> QED
        BY <4>1, <3>1, <1>3
    <3>2. CASE b > n
      <4>1. u >= 1
        BY <1>3, <1>6
      <4> QED
        BY <4>1, <3>2
    <3> QED
      BY <3>1, <3>2
  <2> QED
    BY <2>1
<1>8. (\A b \in 1 .. n : g[b] = f[b]) /\ g[n + 1] = u
  OBVIOUS
<1> HIDE DEF g
<1>9. \A b \in 1 .. n - 1 : f[b + 1] = f[b] + (IF V[b + 1].own THEN 1 ELSE 0)
  BY <1>1, <1>2 DEF Climbs
<1>10. \A b \in 1 .. n : g[b + 1] = g[b] + (IF V2[b + 1].own THEN 1 ELSE 0)
  <2>1. ASSUME NEW b \in 1 .. n PROVE g[b + 1] = g[b] + (IF V2[b + 1].own THEN 1 ELSE 0)
    <3>1. CASE b = n
      BY <3>1, <1>3, <1>5, <1>6, <1>8
    <3>2. CASE b # n
      <4>1. b \in 1 .. n - 1 /\ b + 1 \in 1 .. n
        BY <3>2
      <4> QED
        BY <4>1, <1>5, <1>8, <1>9
    <3> QED
      BY <3>1, <3>2
  <2> QED
    BY <2>1
<1>11. \A b, c \in 1 .. n : b <= c => f[b] <= f[c]
  BY <1>1, <1>2 DEF Climbs
<1>12. ASSUME NEW b \in 1 .. n + 1, NEW c \in 1 .. n + 1, b <= c PROVE g[b] <= g[c]
  <2>1. CASE c <= n
    <3>1. b \in 1 .. n /\ c \in 1 .. n
      BY <2>1, <1>12
    <3> QED
      BY <3>1, <1>8, <1>11, <1>12
  <2>2. CASE c = n + 1
    BY <2>2, <1>7, <1>8
  <2> QED
    BY <2>1, <2>2
<1>13. Climbs(g, T2, V2)
  <2>1. \A b \in 1 .. n : f[b] <= b
    BY <1>1, <1>2 DEF Climbs
  <2>2. \A b \in 1 .. n : g[b] <= b
    BY <2>1, <1>8
  <2>3. g[n + 1] <= n + 1
    BY <2>1, <1>2, <1>3, <1>6, <1>8
  <2>4. \A b \in 1 .. n + 1 : b \in 1 .. n \/ b = n + 1
    BY <1>2
  <2>5. \A b \in 1 .. n + 1 : g[b] <= b
    BY <2>2, <2>3, <2>4
  <2>6. ASSUME NEW b \in 1 .. n PROVE g[b] = Tabled(V2, b)
    <3>1. Tabled(V2, b) = Tabled(V, b)
      BY <1>5, TabledAlike
    <3> QED
      BY <3>1, <1>1, <1>2, <1>8 DEF Climbs
  <2>7. g[n + 1] = Tabled(V2, n + 1)
    <3>1. Tabled(V2, n + 1) = Tabled(V2, n) + (IF V2[n + 1].own THEN 1 ELSE 0)
      BY TabledNext
    <3>2. Tabled(V2, n) = t
      BY <2>6, <1>2, <1>6, <1>8
    <3> QED
      BY <3>1, <3>2, <1>3, <1>5, <1>8
  <2>8. \A b \in 1 .. n + 1 : g[b] = Tabled(V2, b)
    BY <2>4, <2>6, <2>7
  <2> QED
    BY <2>5, <2>8, <1>2, <1>5, <1>6, <1>7, <1>8, <1>10, <1>12 DEF Climbs
<1>14. ASSUME NEW b \in 1 .. n + 1, NEW d \in V2[b].names
       PROVE  Knows(T2[g[b]], d)
  <2>1. CASE b = n + 1
    BY <2>1, <1>2, <1>5, <1>8, <1>14
  <2>2. CASE b # n + 1
    <3>1. b \in 1 .. n
      BY <2>2
    <3>2. d \in V[b].names /\ g[b] = f[b] /\ f[b] \in 1 .. t
      BY <3>1, <1>5, <1>6, <1>8, <1>14
    <3>3. Knows(T[f[b]], d)
      BY <3>1, <3>2, <1>1, <1>2
    <3> QED
      BY <3>2, <3>3, <1>2 DEF Keeps
  <2> QED
    BY <2>1, <2>2
<1>15. Aligned(T2, V2)
  BY <1>2, <1>5, <1>7, <1>13, <1>14 DEF Aligned
<1> QED
  BY <1>4, <1>15

LEMMA Closes ==
  ASSUME NEW T \in Seq(Tables), NEW V \in Seq(ScopesOf), Len(V) >= 2, Aligned(T, V)
  PROVE  /\ Last(V).own => Len(T) >= 2
         /\ Aligned(IF Last(V).own THEN Front(T) ELSE T, Front(V))
<1>1. PICK f \in [1 .. Len(V) -> 1 .. Len(T)] :
        /\ Climbs(f, T, V)
        /\ \A b \in 1 .. Len(V) : \A d \in V[b].names : Knows(T[f[b]], d)
  BY DEF Aligned
<1>2. PICK n \in Nat, t \in Nat : n + 1 = Len(V) /\ n > 0 /\ t = Len(T)
  <2>1. Len(V) \in Nat /\ Len(T) \in Nat
    OBVIOUS
  <2>2. Len(V) - 1 \in Nat /\ (Len(V) - 1) + 1 = Len(V) /\ Len(V) - 1 > 0
    BY <2>1
  <2> QED
    BY <2>1, <2>2
<1>3. PICK T2, V2 : T2 = (IF Last(V).own THEN Front(T) ELSE T) /\ V2 = Front(V)
  OBVIOUS
<1>4. Len(V2) = n /\ \A b \in 1 .. n : V2[b] = V[b]
  BY <1>2, <1>3 DEF Front
<1>5. Last(V) = V[n + 1]
  BY <1>2 DEF Last
<1>6. f \in [1 .. n + 1 -> 1 .. t] /\ f[1] = 1 /\ f[n + 1] = t
  BY <1>1, <1>2 DEF Climbs
<1>7. \A b \in 1 .. n : f[b + 1] = f[b] + (IF V[b + 1].own THEN 1 ELSE 0)
  BY <1>1, <1>2 DEF Climbs
<1>8. f[n] \in 1 .. t /\ f[n + 1] = f[n] + (IF Last(V).own THEN 1 ELSE 0)
  BY <1>2, <1>5, <1>6, <1>7
<1>9. Last(V).own => t >= 2
  BY <1>6, <1>8
<1>10. /\ Len(T2) = f[n]
       /\ \A u \in 1 .. f[n] : T2[u] = T[u]
  <2>1. CASE Last(V).own
    <3>1. f[n] = t - 1
      BY <2>1, <1>6, <1>8
    <3>2. T2 = Front(T)
      BY <2>1, <1>3
    <3> QED
      BY <3>1, <3>2, <1>2, <1>8 DEF Front
  <2>2. CASE ~Last(V).own
    <3>1. f[n] = t
      BY <2>2, <1>6, <1>8
    <3>2. T2 = T
      BY <2>2, <1>3
    <3> QED
      BY <3>1, <3>2, <1>2
  <2> QED
    BY <2>1, <2>2
<1>11. PICK m \in Nat : m = f[n]
  BY <1>8
<1>12. \A b, c \in 1 .. n + 1 : b <= c => f[b] <= f[c]
  BY <1>1, <1>2 DEF Climbs
<1> DEFINE g == [b \in 1 .. n |-> f[b]]
<1>13. g \in [1 .. n -> 1 .. m]
  <2>1. ASSUME NEW b \in 1 .. n PROVE f[b] \in 1 .. m
    <3>1. f[b] \in 1 .. t
      BY <1>6
    <3>2. b \in 1 .. n + 1 /\ n \in 1 .. n + 1 /\ b <= n
      BY <1>2
    <3>3. f[b] <= f[n]
      BY <3>2, <1>12
    <3> QED
      BY <3>1, <3>3, <1>11
  <2> QED
    BY <2>1
<1>14. \A b \in 1 .. n : g[b] = f[b]
  OBVIOUS
<1> HIDE DEF g
<1>15. \A b \in 1 .. n - 1 : g[b + 1] = g[b] + (IF V2[b + 1].own THEN 1 ELSE 0)
  <2>1. ASSUME NEW b \in 1 .. n - 1 PROVE g[b + 1] = g[b] + (IF V2[b + 1].own THEN 1 ELSE 0)
    <3>1. b \in 1 .. n /\ b + 1 \in 1 .. n
      BY <1>2
    <3>2. f[b + 1] = f[b] + (IF V[b + 1].own THEN 1 ELSE 0)
      BY <3>1, <1>7
    <3>3. g[b] = f[b] /\ g[b + 1] = f[b + 1] /\ V2[b + 1] = V[b + 1]
      BY <3>1, <1>4, <1>14
    <3> QED
      BY <3>2, <3>3
  <2> QED
    BY <2>1
<1>16. \A b, c \in 1 .. n : b <= c => g[b] <= g[c]
  BY <1>12, <1>14
<1>17. g[1] = 1 /\ g[n] = m
  BY <1>2, <1>6, <1>11, <1>14
<1>18. Climbs(g, T2, V2)
  <2>1. \A b \in 1 .. n : g[b] <= b
    BY <1>1, <1>2, <1>14 DEF Climbs
  <2>2. ASSUME NEW b \in 1 .. n PROVE g[b] = Tabled(V2, b)
    <3>1. Tabled(V2, b) = Tabled(V, b)
      BY <1>4, TabledAlike
    <3> QED
      BY <3>1, <1>1, <1>2, <1>14 DEF Climbs
  <2> QED
    BY <2>1, <2>2, <1>4, <1>10, <1>11, <1>13, <1>15, <1>16, <1>17 DEF Climbs
<1>19. ASSUME NEW b \in 1 .. n, NEW d \in V2[b].names
       PROVE  Knows(T2[g[b]], d)
  <2>1. b \in 1 .. Len(V) /\ d \in V[b].names
    BY <1>2, <1>4, <1>19
  <2>2. Knows(T[f[b]], d)
    BY <2>1, <1>1
  <2>3. g[b] = f[b] /\ f[b] \in 1 .. f[n]
    BY <1>11, <1>13, <1>14
  <2> QED
    BY <2>2, <2>3, <1>10
<1>20. Aligned(T2, V2)
  BY <1>4, <1>10, <1>11, <1>13, <1>18, <1>19 DEF Aligned
<1> QED
  BY <1>2, <1>3, <1>9, <1>20

-----------------------------------------------------------------------------
\* The kinds an expression can have.
LEMMA OperandTypes ==
  ASSUME TablesOK, NEW e \in Operands
  PROVE  Operand(e) \in Kinds \cup {Function, Unknown}
<1>1. CASE e \in {"lit"} \X Kinds
  BY <1>1 DEF Operand
<1>2. CASE e \in {"id"} \X Names
  BY <1>2, FoundChain DEF Operand
<1> QED
  BY <1>1, <1>2 DEF Operands

LEMMA BinaryTypes ==
  ASSUME NEW K, NEW op, NEW l \in K, NEW r \in K, {"int", "string", Unknown} \subseteq K
  PROVE  BinaryKind(op, l, r) \in K
BY DEF BinaryKind

LEMMA KindTypes ==
  ASSUME TablesOK, NEW e \in Expressions
  PROVE  KindOf(e) \in Kinds \cup {Function, Unknown}
<1>1. CASE e \in Operands
  <2>1. e[1] \in {"lit", "id"}
    BY <1>1 DEF Operands
  <2> QED
    BY <2>1, <1>1, OperandTypes DEF KindOf
<1>2. CASE e \in {"??", "and", "<", "+", "-"} \X Operands \X Operands
  <2>1. e[1] \notin {"lit", "id"} /\ e[2] \in Operands /\ e[3] \in Operands
    BY <1>2
  <2>2. /\ Operand(e[2]) \in Kinds \cup {Function, Unknown}
        /\ Operand(e[3]) \in Kinds \cup {Function, Unknown}
    BY <2>1, OperandTypes
  <2>3. BinaryKind(e[1], Operand(e[2]), Operand(e[3])) \in Kinds \cup {Function, Unknown}
    BY <2>2, BinaryTypes, CheckerAssumption
  <2> QED
    BY <2>1, <2>3 DEF KindOf
<1> QED
  BY <1>1, <1>2, ExpressionsAssumption

LEMMA InferredTypes ==
  ASSUME TablesOK, NEW e \in Expressions
  PROVE  Inferred(e) \in Kinds \cup {Function, Unknown}
<1>1. KindOf(e) \in Kinds \cup {Function, Unknown}
  BY KindTypes
<1>2. {"int", "float", "bool"} \subseteq Kinds
  BY CheckerAssumption
<1> QED
  BY <1>1, <1>2 DEF Inferred

-----------------------------------------------------------------------------
\* What add_symbol and add_function_overload make of well-formed tables.
GoodSymbol(s) ==
  /\ s \in SymbolsOf
  /\ (s.kind = Function) = (s.chain # <<>>)
  /\ \A j, k \in DOMAIN s.chain : s.chain[j].params = s.chain[k].params => j = k

LEMMA GoodTables ==
  ASSUME NEW table
  PROVE  table \in Tables /\ Distinct(table) <=>
           table \in Seq(SymbolsOf) /\ \A i \in DOMAIN table : GoodSymbol(table[i])
BY DEF Tables, Distinct, GoodSymbol

LEMMA Extended ==
  ASSUME NEW table \in Tables, Distinct(table), NEW s, GoodSymbol(s)
  PROVE  /\ Append(table, s) \in Tables
         /\ Distinct(Append(table, s))
         /\ \A d : Knows(table, d) => Knows(Append(table, s), d)
         /\ Knows(Append(table, s), s.name)
<1>1. PICK n \in Nat : n = Len(table) /\ DOMAIN table = 1 .. n
  BY DEF Tables
<1>2. table \in Seq(SymbolsOf) /\ \A i \in 1 .. n : GoodSymbol(table[i])
  BY <1>1, GoodTables
<1>3. s \in SymbolsOf
  BY DEF GoodSymbol
<1>4. PICK new \in Seq(SymbolsOf) : new = Append(table, s)
  <2>1. Append(table, s) \in Seq(SymbolsOf)
    BY <1>2, <1>3
  <2> QED
    BY <2>1
<1>5. DOMAIN new = 1 .. n + 1 /\ new[n + 1] = s /\ \A i \in 1 .. n : new[i] = table[i]
  BY <1>1, <1>2, <1>4
<1>6. \A i \in 1 .. n + 1 : GoodSymbol(new[i])
  <2>1. ASSUME NEW i \in 1 .. n + 1 PROVE GoodSymbol(new[i])
    <3>1. CASE i = n + 1
      BY <3>1, <1>5
    <3>2. CASE i \in 1 .. n
      BY <3>2, <1>2, <1>5
    <3> QED
      BY <3>1, <3>2
  <2> QED
    BY <2>1
<1>7. new \in Tables /\ Distinct(new)
  BY <1>5, <1>6, GoodTables
<1>8. ASSUME NEW d, Knows(table, d) PROVE Knows(new, d)
  <2>1. PICK i \in 1 .. n : table[i].name = d
    BY <1>1, <1>8 DEF Knows
  <2>2. i \in 1 .. n + 1 /\ new[i] = table[i]
    BY <1>5
  <2> QED
    BY <2>1, <2>2, <1>5 DEF Knows
<1>9. Knows(new, s.name)
  <2>1. n + 1 \in DOMAIN new
    BY <1>5
  <2> QED
    BY <2>1, <1>5 DEF Knows
<1> QED
  BY <1>4, <1>7, <1>8, <1>9

LEMMA OneSignature ==
  ASSUME NEW name \in Names, NEW sig \in Signatures
  PROVE  Symbol(name, Function, <<sig>>).name = name /\ GoodSymbol(Symbol(name, Function, <<sig>>))
<1>1. PICK s : s = Symbol(name, Function, <<sig>>)
  OBVIOUS
<1>2. s.name = name /\ s.kind = Function /\ s.chain = <<sig>>
  BY <1>1 DEF Symbol
<1>3. s \in SymbolsOf
  BY <1>1 DEF Symbol, SymbolsOf
<1>4. GoodSymbol(s)
  BY <1>2, <1>3 DEF GoodSymbol
<1> QED
  BY <1>1, <1>2, <1>4

GoodState == TablesOK /\ \A t \in DOMAIN tables : Distinct(tables[t])

\* One table t is replaced.
LEMMA Replaced ==
  ASSUME GoodState, NEW t \in 1 .. Len(tables), NEW new \in Tables, Distinct(new),
         \A d : Knows(tables[t], d) => Knows(new, d),
         tables' = [tables EXCEPT ![t] = new]
  PROVE  GoodState' /\ Len(tables') = Len(tables) /\ Keeps(tables, tables') /\ tables'[t] = new
<1>1. PICK n \in Nat : n = Len(tables) /\ DOMAIN tables = 1 .. n
  BY DEF GoodState, TablesOK
<1>2. tables' \in Seq(Tables) /\ Len(tables') = n /\ DOMAIN tables' = 1 .. n
  BY <1>1 DEF GoodState, TablesOK
<1>3. tables'[t] = new /\ \A u \in 1 .. n : u # t => tables'[u] = tables[u]
  BY <1>1 DEF GoodState, TablesOK
<1>4. TablesOK'
  BY <1>1, <1>2 DEF TablesOK
<1>5. \A u \in DOMAIN tables' : Distinct(tables'[u])
  BY <1>1, <1>2, <1>3 DEF GoodState
<1>6. Keeps(tables, tables')
  BY <1>1, <1>3 DEF Keeps
<1> QED
  BY <1>1, <1>2, <1>3, <1>4, <1>5, <1>6 DEF GoodState

LEMMA Adds ==
  ASSUME GoodState, NEW s, GoodSymbol(s), AddSymbol(s)
  PROVE  /\ GoodState' /\ Len(tables') = Len(tables) /\ Keeps(tables, tables')
         /\ Knows(tables'[Len(tables)], s.name)
<1>1. PICK n \in Nat : n = Len(tables) /\ DOMAIN tables = 1 .. n /\ n > 0
  BY DEF GoodState, TablesOK
<1>2. PICK table \in Tables : table = tables[n] /\ Distinct(table)
  BY <1>1 DEF GoodState, TablesOK
<1>3. PICK new : new = Append(table, s)
  OBVIOUS
<1>4. /\ new \in Tables /\ Distinct(new) /\ Knows(new, s.name)
      /\ \A d : Knows(table, d) => Knows(new, d)
  BY <1>2, <1>3, Extended
<1>5. tables' = [tables EXCEPT ![n] = new]
  BY <1>1, <1>2, <1>3 DEF AddSymbol
<1>6. n \in 1 .. Len(tables)
  BY <1>1
<1>7. GoodState' /\ Len(tables') = Len(tables) /\ Keeps(tables, tables') /\ tables'[n] = new
  BY <1>2, <1>4, <1>5, <1>6, Replaced
<1> QED
  BY <1>1, <1>4, <1>7

(***************************************************************************)
(* While functions are declared there is one table, so the symbol that is  *)
(* found is the one whose chain is extended, with a signature that is new. *)
(***************************************************************************)
LEMMA AddsOverload ==
  ASSUME GoodState, Len(tables) = 1, NEW name \in Names, NEW sig \in Signatures,
         AddOverload(name, sig)
  PROVE  /\ GoodState' /\ Len(tables') = Len(tables) /\ Keeps(tables, tables')
         /\ Knows(tables'[1], name)
<1>1. CASE FindSymbol(name).kind # Function
  <2>1. PICK s : s = Symbol(name, Function, <<sig>>)
    OBVIOUS
  <2>2. AddSymbol(s)
    BY <2>1, <1>1 DEF AddOverload
  <2>3. s.name = name /\ GoodSymbol(s)
    BY <2>1, OneSignature
  <2> QED
    BY <2>2, <2>3, Adds
<1>2. CASE FindSymbol(name).kind = Function
  <2>1. TablesOK
    BY DEF GoodState
  <2>2. FindSymbol(name) # NoSymbol
    BY <1>2 DEF NoSymbol, Symbol, Unknown, Function
  <2>3. DOMAIN tables = {1}
    BY <2>1 DEF TablesOK
  <2>4. PICK t \in DOMAIN tables : \E j \in DOMAIN tables[t] :
          tables[t][j].name = name /\ FindSymbol(name) = tables[t][j] /\ j = FirstIn(tables[t], name)
    BY <2>1, <2>2, Found
  <2>5. t = 1
    BY <2>3, <2>4
  <2>6. PICK table \in Tables : table = tables[1] /\ Distinct(table)
    BY <2>3 DEF GoodState, TablesOK
  <2>7. PICK j \in DOMAIN table :
          table[j].name = name /\ FindSymbol(name) = table[j] /\ j = FirstIn(table, name)
    BY <2>4, <2>5, <2>6
  <2>8. PICK n \in Nat : n = Len(table) /\ DOMAIN table = 1 .. n
    BY DEF Tables
  <2>9. table \in Seq(SymbolsOf) /\ \A i \in 1 .. n : GoodSymbol(table[i])
    BY <2>6, <2>8, GoodTables
  <2>10. PICK s : s = table[j] /\ GoodSymbol(s)
    BY <2>8, <2>9
  <2>11. s.name = name /\ s.kind = Function
    BY <2>7, <2>10, <1>2
  <2>12. CASE SignatureTaken(s.chain, sig)
    <3>1. tables' = tables
      BY <2>7, <2>10, <2>12, <1>2 DEF AddOverload
    <3>2. GoodState' /\ Keeps(tables, tables')
      BY <3>1 DEF GoodState, TablesOK, Keeps
    <3> QED
      BY <3>1, <3>2, <2>6, <2>7, <2>10, <2>11 DEF Knows
  <2>13. CASE ~SignatureTaken(s.chain, sig)
    <3>1. s \in SymbolsOf /\ s.chain \in Seq(Signatures)
      BY <2>10 DEF GoodSymbol, SymbolsOf
    <3>2. PICK m \in Nat : m = Len(s.chain) /\ DOMAIN s.chain = 1 .. m
      BY <3>1
    <3>3. PICK chain \in Seq(Signatures) : chain = Append(s.chain, sig)
      <4>1. Append(s.chain, sig) \in Seq(Signatures)
        BY <3>1
      <4> QED
        BY <4>1
    <3>4. DOMAIN chain = 1 .. m + 1 /\ chain[m + 1] = sig /\ \A k \in 1 .. m : chain[k] = s.chain[k]
      BY <3>1, <3>2, <3>3
    <3>5. \A k \in 1 .. m : chain[k].params # sig.params
      BY <2>13, <3>2, <3>4 DEF SignatureTaken
    <3>6. \A k, l \in 1 .. m : s.chain[k].params = s.chain[l].params => k = l
      BY <2>10, <3>2 DEF GoodSymbol
    <3>7. \A k, l \in 1 .. m + 1 : chain[k].params = chain[l].params => k = l
      <4>1. ASSUME NEW k \in 1 .. m + 1, NEW l \in 1 .. m + 1, chain[k].params = chain[l].params
            PROVE  k = l
        <5>1. k \in 1 .. m \/ k = m + 1
          OBVIOUS
        <5>2. l \in 1 .. m \/ l = m + 1
          OBVIOUS
        <5> QED
          BY <5>1, <5>2, <4>1, <3>4, <3>5, <3>6
      <4> QED
        BY <4>1
    <3>8. PICK s2 : s2 = [s EXCEPT !.chain = chain]
      OBVIOUS
    <3>9. s2 \in SymbolsOf /\ s2.name = name /\ s2.kind = Function /\ s2.chain = chain
      BY <3>1, <3>3, <3>8, <2>11 DEF SymbolsOf
    <3>10. chain # <<>>
      BY <3>4
    <3>11. GoodSymbol(s2)
      BY <3>4, <3>7, <3>9, <3>10 DEF GoodSymbol
    <3>12. PICK new : new = [table EXCEPT ![j] = s2]
      OBVIOUS
    <3>13. new \in Seq(SymbolsOf) /\ DOMAIN new = 1 .. n
      BY <3>9, <3>12, <2>8, <2>9
    <3>14. new[j] = s2 /\ \A i \in 1 .. n : i # j => new[i] = table[i]
      BY <3>12, <2>8, <2>9
    <3>15. new \in Tables /\ Distinct(new)
      BY <3>11, <3>13, <3>14, <2>9, GoodTables
    <3>16. ASSUME NEW d, Knows(table, d) PROVE Knows(new, d)
      <4>1. PICK i \in 1 .. n : table[i].name = d
        BY <3>16, <2>8 DEF Knows
      <4>2. new[i].name = d
        BY <4>1, <3>9, <3>14, <2>10, <2>11
      <4> QED
        BY <4>2, <3>13 DEF Knows
    <3>17. tables' = [tables EXCEPT ![1][j].chain = chain]
      BY <2>6, <2>7, <2>10, <2>13, <3>3, <1>2 DEF AddOverload
    <3>18. tables' = [tables EXCEPT ![1] = new]
      BY <3>17, <3>8, <3>12, <2>6, <2>10
    <3>19. 1 \in 1 .. Len(tables)
      OBVIOUS
    <3>20. GoodState' /\ Len(tables') = Len(tables) /\ Keeps(tables, tables') /\ tables'[1] = new
      BY <2>6, <3>15, <3>16, <3>18, <3>19, Replaced
    <3>21. Knows(new, name)
      BY <3>9, <3>13, <3>14, <2>8 DEF Knows
    <3> QED
      BY <3>20, <3>21
  <2> QED
    BY <2>12, <2>13
<1> QED
  BY <1>1, <1>2

-----------------------------------------------------------------------------
(***************************************************************************)
(* The inductive invariant.  That the global table is the only one until   *)
(* bodies are checked is what makes an overload join the right chain; that *)
(* the tables and the scopes climb together is what ScopesAgree needs.     *)
(***************************************************************************)
ScopesInv == visible \in Seq(ScopesOf) /\ visible # <<>> /\ Aligned(tables, visible)

CheckerInv ==
  /\ pass \in 0 .. 2
  /\ hadError \in BOOLEAN /\ crashed \in BOOLEAN
  /\ definitions \subseteq Names
  /\ GoodState
  /\ ScopesInv
  /\ pass < 2 => Len(tables) = 1

LEMMA NotEmpty == ASSUME NEW s, Len(s) # 0 PROVE s # <<>>
<1>1. Len(<<>>) = 0
  OBVIOUS
<1> QED
  BY <1>1

\* What the innermost scope declares is told to the innermost table.
LEMMA Declares ==
  ASSUME ScopesInv, GoodState, NEW names \in SUBSET Names,
         GoodState', Len(tables') = Len(tables), Keeps(tables, tables'),
         \A d \in names : Knows(tables'[Len(tables)], d),
         visible' = Declared(names)
  PROVE  ScopesInv'
<1>1. PICK V \in Seq(ScopesOf), n \in Nat :
        V = visible /\ V # <<>> /\ n = Len(V) /\ DOMAIN V = 1 .. n /\ n > 0
  BY DEF ScopesInv
<1>2. PICK scope : scope = [V[n] EXCEPT !.names = @ \cup names]
  OBVIOUS
<1>3. V[n] \in ScopesOf
  BY <1>1
<1>4. scope \in ScopesOf /\ scope.own = V[n].own /\ scope.names = V[n].names \cup names
  BY <1>2, <1>3 DEF ScopesOf
<1>5. visible' = [V EXCEPT ![n] = scope]
  BY <1>1, <1>2 DEF Declared
<1>6. PICK V2 : V2 = [V EXCEPT ![n] = scope]
  OBVIOUS
<1>7. V2 \in Seq(ScopesOf) /\ Len(V2) = n /\ V2 # <<>>
  BY <1>1, <1>4, <1>6
<1>8. V2[n] = scope /\ \A b \in 1 .. n : b # n => V2[b] = V[b]
  BY <1>1, <1>6
<1>9. \A b \in 1 .. n : V2[b].own = V[b].own
  BY <1>4, <1>8
<1>10. PICK T, T2 : T = tables /\ T2 = tables'
  OBVIOUS
<1>11. \A b \in 1 .. n : \A d \in V2[b].names : d \in V[b].names \/ (b = n /\ Knows(T2[Len(T)], d))
  BY <1>4, <1>8, <1>10
<1>12. Aligned(T, V)
  BY <1>1, <1>10 DEF ScopesInv
<1>13. Aligned(T2, V2)
  <2>1. Len(T2) = Len(T) /\ Keeps(T, T2)
    BY <1>10
  <2> QED
    BY <2>1, <1>1, <1>7, <1>9, <1>11, <1>12, Grows
<1> QED
  BY <1>5, <1>6, <1>7, <1>10, <1>13 DEF ScopesInv

\* A scope is opened, of a table of its own or of the one that is innermost.
LEMMA OpensScope ==
  ASSUME ScopesInv, GoodState, GoodState', Keeps(tables, tables'), NEW scope \in ScopesOf,
         Len(tables') = Len(tables) + (IF scope.own THEN 1 ELSE 0),
         \A d \in scope.names : Knows(tables'[Len(tables')], d),
         visible' = Append(visible, scope)
  PROVE  ScopesInv'
<1>1. PICK V \in Seq(ScopesOf) : V = visible /\ V # <<>> /\ Aligned(tables, V)
  BY DEF ScopesInv
<1>2. PICK T \in Seq(Tables), T2 \in Seq(Tables) : T = tables /\ T2 = tables'
  BY DEF GoodState, TablesOK
<1>3. Aligned(T2, Append(V, scope))
  BY <1>1, <1>2, Opens
<1>4. Append(V, scope) \in Seq(ScopesOf) /\ Append(V, scope) # <<>>
  <2>1. Append(V, scope) \in Seq(ScopesOf) /\ Len(Append(V, scope)) = Len(V) + 1
    OBVIOUS
  <2>2. Len(V) + 1 # 0
    BY <1>1
  <2>3. Append(V, scope) # <<>>
    BY <2>1, <2>2, NotEmpty
  <2> QED
    BY <2>1, <2>3
<1> QED
  BY <1>1, <1>2, <1>3, <1>4 DEF ScopesInv

\* A table is opened with its scope.
LEMMA OpensTable ==
  ASSUME ScopesInv, GoodState, NEW table \in Tables, Distinct(table), NEW scope \in ScopesOf, scope.own,
         \A d \in scope.names : Knows(table, d),
         tables' = Append(tables, table), visible' = Append(visible, scope)
  PROVE  GoodState' /\ ScopesInv' /\ Len(tables') = Len(tables) + 1
<1>1. PICK T \in Seq(Tables), n \in Nat : T = tables /\ n = Len(T) /\ DOMAIN T = 1 .. n
  BY DEF GoodState, TablesOK
<1>2. PICK T2 : T2 = Append(T, table)
  OBVIOUS
<1>3. T2 \in Seq(Tables) /\ T2 # <<>> /\ Len(T2) = n + 1 /\ DOMAIN T2 = 1 .. n + 1
  BY <1>1, <1>2
<1>4. T2[n + 1] = table /\ \A t \in 1 .. n : T2[t] = T[t]
  BY <1>1, <1>2
<1>5. \A t \in 1 .. n : Distinct(T[t])
  BY <1>1 DEF GoodState
<1>6. \A t \in 1 .. n + 1 : Distinct(T2[t])
  <2>1. \A t \in 1 .. n + 1 : t \in 1 .. n \/ t = n + 1
    OBVIOUS
  <2> QED
    BY <2>1, <1>4, <1>5
<1>7. GoodState'
  BY <1>1, <1>2, <1>3, <1>6 DEF GoodState, TablesOK
<1>8. Keeps(T, T2)
  BY <1>1, <1>4 DEF Keeps
<1>9. Keeps(tables, tables') /\ Len(tables') = Len(tables) + (IF scope.own THEN 1 ELSE 0)
  BY <1>1, <1>2, <1>3, <1>8
<1>10. \A d \in scope.names : Knows(tables'[Len(tables')], d)
  BY <1>1, <1>2, <1>3, <1>4
<1>11. ScopesInv'
  BY <1>7, <1>9, <1>10, OpensScope
<1> QED
  BY <1>7, <1>9, <1>11

\* The innermost scope is closed, with its table.
LEMMA ClosesScope ==
  ASSUME ScopesInv, GoodState, Len(visible) >= 2, visible' = Front(visible),
         tables' = IF Last(visible).own THEN Front(tables) ELSE tables
  PROVE  GoodState' /\ ScopesInv'
<1>1. PICK T \in Seq(Tables), n \in Nat : T = tables /\ n = Len(T) /\ DOMAIN T = 1 .. n /\ n > 0
  BY DEF GoodState, TablesOK
<1>2. PICK V \in Seq(ScopesOf), m \in Nat :
        V = visible /\ Aligned(T, V) /\ m = Len(V) /\ m >= 2
  BY <1>1 DEF ScopesInv
<1>3. PICK T2 : T2 = IF Last(V).own THEN Front(T) ELSE T
  OBVIOUS
<1>4. (Last(V).own => n >= 2) /\ Aligned(T2, Front(V))
  BY <1>1, <1>2, <1>3, Closes
<1>5. Front(V) \in Seq(ScopesOf) /\ Front(V) # <<>>
  <2>1. Front(V) = SubSeq(V, 1, m - 1)
    BY <1>2 DEF Front
  <2>2. SubSeq(V, 1, m - 1) \in Seq(ScopesOf) /\ Len(SubSeq(V, 1, m - 1)) = m - 1
    BY <1>2
  <2>3. SubSeq(V, 1, m - 1) # <<>>
    <3>1. m - 1 # 0
      BY <1>2
    <3> QED
      BY <3>1, <2>2, NotEmpty
  <2> QED
    BY <2>1, <2>2, <2>3
<1>6. \A t \in 1 .. n : Distinct(T[t])
  BY <1>1 DEF GoodState
<1>7. T2 \in Seq(Tables) /\ T2 # <<>> /\ \A t \in DOMAIN T2 : Distinct(T2[t])
  <2>1. CASE Last(V).own
    <3>1. T2 = SubSeq(T, 1, n - 1)
      BY <2>1, <1>1, <1>3 DEF Front
    <3>2. n - 1 >= 1
      BY <2>1, <1>4
    <3>3. T2 \in Seq(Tables) /\ DOMAIN T2 = 1 .. n - 1 /\ \A t \in 1 .. n - 1 : T2[t] = T[t]
      BY <3>1, <3>2, <1>1
    <3>4. T2 # <<>>
      BY <3>2, <3>3
    <3> QED
      BY <3>3, <3>4, <1>6
  <2>2. CASE ~Last(V).own
    BY <2>2, <1>1, <1>3, <1>6
  <2> QED
    BY <2>1, <2>2
<1>8. tables' = T2 /\ visible' = Front(V)
  BY <1>1, <1>2, <1>3
<1> QED
  BY <1>4, <1>5, <1>7, <1>8 DEF GoodState, TablesOK, ScopesInv

-----------------------------------------------------------------------------
LEMMA InitInv == Init => CheckerInv
<1> SUFFICES ASSUME Init PROVE CheckerInv
  OBVIOUS
<1>1. PICK T, V : T = << <<>> >> /\ V = <<Scope({}, TRUE)>>
  OBVIOUS
<1>2. <<>> \in Tables /\ Distinct(<<>>)
  BY DEF Tables, Distinct
<1>3. T \in Seq(Tables) /\ T # <<>> /\ Len(T) = 1 /\ DOMAIN T = {1} /\ T[1] = <<>>
  BY <1>1, <1>2
<1>4. Scope({}, TRUE) \in ScopesOf /\ Scope({}, TRUE).names = {}
  BY DEF Scope, ScopesOf
<1>5. V \in Seq(ScopesOf) /\ V # <<>> /\ Len(V) = 1 /\ V[1].names = {}
  <2>1. PICK scope \in ScopesOf : scope = Scope({}, TRUE) /\ scope.names = {}
    BY <1>4
  <2>2. V = <<scope>>
    BY <1>1, <2>1
  <2>3. V \in Seq(ScopesOf) /\ Len(V) = 1 /\ V[1] = scope
    BY <2>2
  <2>4. V # <<>>
    BY <2>3, NotEmpty
  <2> QED
    BY <2>1, <2>3, <2>4
<1>6. Aligned(T, V)
  <2>1. PICK f : f = [b \in 1 .. 1 |-> 1]
    OBVIOUS
  <2>2. f \in [1 .. Len(V) -> 1 .. Len(T)]
    BY <2>1, <1>3, <1>5
  <2>3. Climbs(f, T, V)
    <3>1. V[1].own
      BY <1>1 DEF Scope
    <3>2. {c \in 1 .. 1 : V[c].own} = {1}
      BY <3>1
    <3>3. Tabled(V, 1) = 1
      BY <3>2, FS_Singleton DEF Tabled
    <3> QED
      BY <2>1, <2>2, <3>3, <1>3, <1>5 DEF Climbs
  <2>4. \A b \in 1 .. Len(V) : V[b].names = {}
    BY <1>5
  <2> QED
    BY <2>2, <2>3, <2>4 DEF Aligned
<1>7. GoodState
  BY <1>1, <1>2, <1>3 DEF Init, GoodState, TablesOK
<1>8. ScopesInv
  BY <1>1, <1>5, <1>6 DEF Init, ScopesInv
<1>9. Len(tables) = 1
  BY <1>1, <1>3 DEF Init
<1>10. pass \in 0 .. 2
  BY DEF Init
<1> QED
  BY <1>7, <1>8, <1>9, <1>10, Zenon DEF Init, CheckerInv

\* A function is declared in both.
LEMMA OverloadStep ==
  ASSUME CheckerInv, pass < 2, NEW name \in Names, NEW sig \in Signatures,
         AddOverload(name, sig), visible' = Declared({name}),
         definitions' = definitions \cup {name}, UNCHANGED <<pass, hadError, crashed>>
  PROVE  CheckerInv'
<1>1. GoodState /\ ScopesInv /\ Len(tables) = 1
  BY DEF CheckerInv
<1>2. /\ GoodState' /\ Len(tables') = Len(tables) /\ Keeps(tables, tables')
      /\ Knows(tables'[1], name)
  BY <1>1, AddsOverload
<1>3. ScopesInv'
  BY <1>1, <1>2, Declares
<1> QED
  BY <1>1, <1>2, <1>3 DEF CheckerInv

\* A value is declared in both.
LEMMA ValueStep ==
  ASSUME CheckerInv, NEW name \in Names, NEW kind \in Kinds,
         AddSymbol(Symbol(name, kind, <<>>))
  PROVE  /\ GoodState' /\ Len(tables') = Len(tables) /\ Keeps(tables, tables')
         /\ Knows(tables'[Len(tables)], name)
         /\ visible' = Declared({name}) => ScopesInv'
<1>1. GoodState /\ ScopesInv
  BY DEF CheckerInv
<1>2. PICK s : s = Symbol(name, kind, <<>>)
  OBVIOUS
<1>3. s.name = name /\ s.kind = kind /\ s.chain = <<>> /\ s \in SymbolsOf
  BY <1>2 DEF Symbol, SymbolsOf
<1>4. kind # Function
  BY CheckerAssumption
<1>5. GoodSymbol(s)
  BY <1>3, <1>4 DEF GoodSymbol
<1>6. /\ GoodState' /\ Len(tables') = Len(tables) /\ Keeps(tables, tables')
      /\ Knows(tables'[Len(tables)], s.name)
  BY <1>1, <1>2, <1>5, Adds
<1> QED
  BY <1>1, <1>3, <1>6, Declares

\* A value of a known type is declared in both, one of none in neither.
LEMMA Valued ==
  ASSUME CheckerInv, NEW name \in Names, NEW kind \in Kinds \cup {Unknown}, AddValue(name, kind)
  PROVE  /\ GoodState' /\ Len(tables') = Len(tables) /\ Keeps(tables, tables')
         /\ NamesOf(name, kind) \in SUBSET Names
         /\ \A d \in NamesOf(name, kind) : Knows(tables'[Len(tables)], d)
<1>1. CASE kind = Unknown
  <2>1. UNCHANGED tables
    BY <1>1 DEF AddValue
  <2>2. NamesOf(name, kind) = {}
    BY <1>1 DEF NamesOf
  <2>3. GoodState' /\ Keeps(tables, tables')
    BY <2>1 DEF CheckerInv, GoodState, TablesOK, Keeps
  <2> QED
    BY <2>1, <2>2, <2>3
<1>2. CASE kind # Unknown
  <2>1. kind \in Kinds /\ AddSymbol(Symbol(name, kind, <<>>))
    BY <1>2 DEF AddValue
  <2>2. NamesOf(name, kind) = {name}
    BY <1>2 DEF NamesOf
  <2>3. /\ GoodState' /\ Len(tables') = Len(tables) /\ Keeps(tables, tables')
        /\ Knows(tables'[Len(tables)], name)
    BY <2>1, ValueStep
  <2> QED
    BY <2>2, <2>3
<1> QED
  BY <1>1, <1>2

\* A table with one symbol, or none.
LEMMA NewTable ==
  /\ <<>> \in Tables /\ Distinct(<<>>)
  /\ \A name \in Names, kind \in Kinds :
       /\ <<Symbol(name, kind, <<>>)>> \in Tables
       /\ Distinct(<<Symbol(name, kind, <<>>)>>)
       /\ Knows(<<Symbol(name, kind, <<>>)>>, name)
<1>1. <<>> \in Tables /\ Distinct(<<>>)
  BY DEF Tables, Distinct
<1>2. ASSUME NEW name \in Names, NEW kind \in Kinds
      PROVE  /\ <<Symbol(name, kind, <<>>)>> \in Tables
             /\ Distinct(<<Symbol(name, kind, <<>>)>>)
             /\ Knows(<<Symbol(name, kind, <<>>)>>, name)
  <2>1. PICK s : s = Symbol(name, kind, <<>>)
    OBVIOUS
  <2>2. s.name = name /\ s.kind = kind /\ s.chain = <<>> /\ s \in SymbolsOf
    BY <2>1 DEF Symbol, SymbolsOf
  <2>3. kind # Function
    BY CheckerAssumption
  <2>4. <<s>> \in Seq(SymbolsOf) /\ DOMAIN <<s>> = {1} /\ <<s>>[1] = s
    BY <2>2
  <2>5. <<s>> \in Tables
    BY <2>2, <2>3, <2>4 DEF Tables
  <2>6. Distinct(<<s>>)
    BY <2>2, <2>4 DEF Distinct
  <2>7. Knows(<<s>>, name)
    BY <2>2, <2>4 DEF Knows
  <2> QED
    BY <2>1, <2>5, <2>6, <2>7
<1> QED
  BY <1>1, <1>2

\* A function opens a table and a scope, with its first parameter if that is looked at.
LEMMA EnterStep ==
  ASSUME CheckerInv, NEW params, NEW e,
         params = <<>> \/ \E n \in Names, k \in Kinds : params = <<<<n, k>>>>,
         EnterFunction(params, e)
  PROVE  CheckerInv'
<1>1. GoodState /\ ScopesInv /\ pass = 2
  BY DEF CheckerInv, EnterFunction, Checking
<1>2. PICK table : table = [i \in DOMAIN params |-> Symbol(params[i][1], params[i][2], <<>>)]
  OBVIOUS
<1>3. PICK names : names = {params[i][1] : i \in DOMAIN params}
  OBVIOUS
<1>4. PICK scope : scope = Scope(names, TRUE)
  OBVIOUS
<1>5. scope.names = names /\ scope.own = TRUE
  BY <1>4 DEF Scope
<1>6. table \in Tables /\ Distinct(table) /\ names \subseteq Names /\ \A d \in names : Knows(table, d)
  <2>1. CASE params = <<>>
    <3>1. names = {} /\ table = <<>>
      BY <2>1, <1>2, <1>3
    <3> QED
      BY <3>1, NewTable
  <2>2. ASSUME NEW n \in Names, NEW k \in Kinds, params = <<<<n, k>>>>
        PROVE  table \in Tables /\ Distinct(table) /\ names \subseteq Names /\ \A d \in names : Knows(table, d)
    <3>1. DOMAIN params = {1} /\ params[1] = <<n, k>>
      BY <2>2
    <3>2. names = {n}
      BY <3>1, <1>3
    <3>3. table = <<Symbol(n, k, <<>>)>>
      <4>1. PICK s : s = Symbol(n, k, <<>>)
        OBVIOUS
      <4>2. \A i \in DOMAIN params : Symbol(params[i][1], params[i][2], <<>>) = s
        BY <3>1, <4>1
      <4>3. table = [i \in {1} |-> s]
        BY <1>2, <3>1, <4>2
      <4>4. <<s>> = [i \in 1 .. 1 |-> s]
        OBVIOUS
      <4>5. 1 .. 1 = {1}
        OBVIOUS
      <4> QED
        BY <4>1, <4>3, <4>4, <4>5
    <3> QED
      BY <3>2, <3>3, NewTable
  <2> QED
    BY <2>1, <2>2
<1>7. scope \in ScopesOf
  BY <1>4, <1>6 DEF Scope, ScopesOf
<1>8. tables' = Append(tables, table) /\ visible' = Append(visible, scope)
  BY <1>2, <1>3, <1>4 DEF EnterFunction
<1>9. GoodState' /\ ScopesInv'
  BY <1>1, <1>5, <1>6, <1>7, <1>8, OpensTable
<1>10. hadError' \in BOOLEAN
  BY Zenon DEF EnterFunction
<1> QED
  BY <1>1, <1>9, <1>10 DEF CheckerInv, EnterFunction

LEMMA Same ==
  ASSUME CheckerInv, UNCHANGED <<tables, visible>>
  PROVE  GoodState' /\ ScopesInv' /\ Len(tables') = Len(tables)
BY DEF CheckerInv, GoodState, TablesOK, ScopesInv

LEMMA DeclareInv ==
  ASSUME CheckerInv, Declare
  PROVE  CheckerInv'
<1>1. ASSUME NEW n \in Names, NEW k \in Kinds, DeclareValue(n, k)
      PROVE  CheckerInv'
  <2>1. AddSymbol(Symbol(n, k, <<>>)) /\ visible' = Declared({n})
    BY <1>1 DEF DeclareValue
  <2>2. GoodState' /\ Len(tables') = Len(tables) /\ ScopesInv'
    BY <2>1, ValueStep
  <2> QED
    BY <2>2, <1>1 DEF CheckerInv, DeclareValue
<1>2. ASSUME NEW n \in Names, NEW s \in Externs, DeclareExtern(n, s)
      PROVE  CheckerInv'
  <2>1. s \in Signatures
    BY DEF Signatures
  <2>2. pass < 2
    BY <1>2 DEF DeclareExtern
  <2> QED
    BY <2>1, <2>2, <1>2, OverloadStep DEF DeclareExtern
<1>3. ASSUME NEW n \in Names, NEW p \in ParamLists, DeclareFunction(n, p)
      PROVE  CheckerInv'
  <2>1. PICK s : s = [params |-> p, variadic |-> FALSE]
    OBVIOUS
  <2>2. s \in Signatures
    BY <2>1 DEF Signatures
  <2>3. pass < 2 /\ AddOverload(n, s)
    BY <2>1, <1>3 DEF DeclareFunction
  <2> QED
    BY <2>2, <2>3, <1>3, OverloadStep DEF DeclareFunction
<1>4. ASSUME NEW n \in Names, NEW p \in ParamLists, ExportFunction(n, p)
      PROVE  CheckerInv'
  <2>1. PICK sig : sig = [params |-> p, variadic |-> FALSE]
    OBVIOUS
  <2>2. PICK s : s = Symbol(n, Function, <<sig>>)
    OBVIOUS
  <2>3. AddSymbol(s) /\ visible' = Declared({n})
    BY <2>1, <2>2, <1>4 DEF ExportFunction
  <2>4. sig \in Signatures
    BY <2>1 DEF Signatures
  <2>5. s.name = n /\ GoodSymbol(s)
    BY <2>2, <2>4, OneSignature
  <2>6. GoodState /\ ScopesInv
    BY DEF CheckerInv
  <2>7. GoodState' /\ Len(tables') = Len(tables) /\ Keeps(tables, tables') /\ Knows(tables'[Len(tables)], n)
    BY <2>3, <2>5, <2>6, Adds
  <2>8. ScopesInv'
    BY <2>3, <2>6, <2>7, Declares
  <2> QED
    BY <2>7, <2>8, <1>4 DEF CheckerInv, ExportFunction
<1>5. ASSUME NEW n \in Names, ExportVariable(n)
      PROVE  CheckerInv'
  <2>1. AddSymbol(Symbol(n, "int", <<>>)) /\ visible' = Declared({n}) /\ "int" \in Kinds
    BY <1>5, CheckerAssumption DEF ExportVariable
  <2>2. GoodState' /\ Len(tables') = Len(tables) /\ ScopesInv'
    BY <2>1, ValueStep
  <2> QED
    BY <2>2, <1>5 DEF CheckerInv, ExportVariable
<1> QED
  BY <1>1, <1>2, <1>3, <1>4, <1>5 DEF Declare

\* A statement changes no more than tables, scopes and the two flags.
LEMMA StatementInv ==
  ASSUME CheckerInv, pass = 2, UNCHANGED <<pass, definitions>>,
         hadError' \in BOOLEAN, crashed' \in BOOLEAN, GoodState', ScopesInv'
  PROVE  CheckerInv'
BY DEF CheckerInv

LEMMA BlockInv ==
  ASSUME CheckerInv,
         \/ LeaveFunction
         \/ OpenBlock
         \/ \E n \in Names : OpenLoop(n) \/ OpenCatch(n)
         \/ \E n \in Names, e \in Expressions : OpenCounted(n, e)
         \/ CloseBlock
  PROVE  CheckerInv'
<1>1. GoodState /\ ScopesInv /\ hadError \in BOOLEAN /\ crashed \in BOOLEAN
  BY DEF CheckerInv
<1>2. CASE LeaveFunction
  <2>1. /\ pass = 2 /\ visible' = Front(visible) /\ tables' = Front(tables)
        /\ Len(visible) = 2 /\ Len(tables) > 1
    BY <1>2 DEF LeaveFunction, InFunction, Checking
  <2>2. Last(visible).own
    <3>1. PICK f \in [1 .. Len(visible) -> 1 .. Len(tables)] : Climbs(f, tables, visible)
      BY <1>1 DEF ScopesInv, Aligned
    <3>2. f[1] = 1 /\ f[2] = Len(tables)
      BY <3>1, <2>1 DEF Climbs
    <3>3. f[1 + 1] = f[1] + (IF visible[1 + 1].own THEN 1 ELSE 0)
      BY <3>1, <2>1 DEF Climbs
    <3>4. visible[2].own
      BY <3>2, <3>3, <2>1
    <3> QED
      BY <3>4, <2>1 DEF Last
  <2>3. tables' = IF Last(visible).own THEN Front(tables) ELSE tables
    BY <2>1, <2>2
  <2>4. GoodState' /\ ScopesInv'
    BY <1>1, <2>1, <2>3, ClosesScope
  <2> QED
    BY <1>1, <1>2, <2>1, <2>4, StatementInv DEF LeaveFunction
<1>3. CASE OpenBlock
  <2>1. pass = 2 /\ visible' = Append(visible, Scope({}, FALSE)) /\ UNCHANGED tables
    BY <1>3 DEF OpenBlock, InFunction, Checking
  <2>2. PICK scope : scope = Scope({}, FALSE)
    OBVIOUS
  <2>3. scope \in ScopesOf /\ scope.own = FALSE /\ scope.names = {}
    BY <2>2 DEF Scope, ScopesOf
  <2>4. GoodState' /\ Keeps(tables, tables') /\ Len(tables') = Len(tables)
    BY <2>1, <1>1 DEF GoodState, TablesOK, Keeps
  <2>5. ScopesInv'
    <3>1. Len(tables') = Len(tables) + (IF scope.own THEN 1 ELSE 0)
      BY <2>3, <2>4, <1>1 DEF GoodState, TablesOK
    <3> QED
      BY <3>1, <1>1, <2>1, <2>2, <2>3, <2>4, OpensScope
  <2> QED
    BY <1>1, <1>3, <2>1, <2>4, <2>5, StatementInv DEF OpenBlock
<1>4. ASSUME NEW n \in Names, OpenLoop(n)
      PROVE  CheckerInv'
  <2>1. PICK scope : scope = Scope({n}, FALSE)
    OBVIOUS
  <2>2. /\ pass = 2 /\ visible' = Append(visible, scope)
        /\ AddSymbol(Symbol(n, "int", <<>>))
    BY <1>4, <2>1 DEF OpenLoop, InFunction, Checking
  <2>3. "int" \in Kinds
    BY CheckerAssumption
  <2>4. scope \in ScopesOf /\ scope.own = FALSE /\ scope.names = {n}
    BY <2>1, <2>3 DEF Scope, ScopesOf
  <2>5. /\ GoodState' /\ Keeps(tables, tables') /\ Len(tables') = Len(tables)
        /\ Knows(tables'[Len(tables)], n)
    BY <2>2, <2>3, ValueStep
  <2>6. ScopesInv'
    <3>1. Len(tables') = Len(tables) + (IF scope.own THEN 1 ELSE 0)
      BY <2>4, <2>5, <1>1 DEF GoodState, TablesOK
    <3> QED
      BY <3>1, <1>1, <2>2, <2>4, <2>5, OpensScope
  <2> QED
    BY <1>1, <1>4, <2>2, <2>5, <2>6, StatementInv DEF OpenLoop
<1>5. ASSUME NEW n \in Names, OpenCatch(n)
      PROVE  CheckerInv'
  <2>1. PICK scope, table : scope = Scope({n}, TRUE) /\ table = <<Symbol(n, "string", <<>>)>>
    OBVIOUS
  <2>2. pass = 2 /\ visible' = Append(visible, scope) /\ tables' = Append(tables, table)
    BY <1>5, <2>1 DEF OpenCatch, InFunction, Checking
  <2>3. "string" \in Kinds
    BY CheckerAssumption
  <2>4. scope \in ScopesOf /\ scope.own = TRUE /\ scope.names = {n}
    BY <2>1, <2>3 DEF Scope, ScopesOf
  <2>5. table \in Tables /\ Distinct(table) /\ Knows(table, n)
    BY <2>1, <2>3, NewTable
  <2>6. GoodState' /\ ScopesInv'
    BY <1>1, <2>2, <2>4, <2>5, OpensTable
  <2> QED
    BY <1>1, <1>5, <2>2, <2>6, StatementInv DEF OpenCatch
<1>6. CASE CloseBlock
  <2>1. /\ pass = 2 /\ visible' = Front(visible) /\ Len(visible) > 2
        /\ tables' = IF Last(visible).own THEN Front(tables) ELSE tables
    BY <1>6 DEF CloseBlock, InFunction, Checking
  <2>2. Len(visible) >= 2
    BY <1>1, <2>1 DEF ScopesInv
  <2>3. GoodState' /\ ScopesInv'
    BY <1>1, <2>1, <2>2, ClosesScope
  <2> QED
    BY <1>1, <1>6, <2>1, <2>3, StatementInv DEF CloseBlock
<1>7. ASSUME NEW n \in Names, NEW e \in Expressions, OpenCounted(n, e)
      PROVE  CheckerInv'
  <2>1. PICK kind, scope : kind = Inferred(e) /\ scope = Scope(NamesOf(n, kind), FALSE)
    OBVIOUS
  <2>2. pass = 2 /\ visible' = Append(visible, scope) /\ AddValue(n, kind) /\ kind # Function
    BY <1>7, <2>1 DEF OpenCounted, InFunction, Checking
  <2>3. kind \in Kinds \cup {Unknown}
    BY <1>1, <2>1, <2>2, InferredTypes DEF GoodState
  <2>4. /\ GoodState' /\ Len(tables') = Len(tables) /\ Keeps(tables, tables')
        /\ NamesOf(n, kind) \in SUBSET Names
        /\ \A d \in NamesOf(n, kind) : Knows(tables'[Len(tables)], d)
    BY <2>2, <2>3, Valued
  <2>5. scope \in ScopesOf /\ scope.own = FALSE /\ scope.names = NamesOf(n, kind)
    BY <2>1, <2>4 DEF Scope, ScopesOf
  <2>6. ScopesInv'
    <3>1. Len(tables') = Len(tables) + (IF scope.own THEN 1 ELSE 0)
      BY <2>4, <2>5, <1>1 DEF GoodState, TablesOK
    <3> QED
      BY <3>1, <1>1, <2>2, <2>4, <2>5, OpensScope
  <2>7. hadError' \in BOOLEAN
    BY <1>7, Zenon DEF OpenCounted, Checked
  <2> QED
    BY <1>1, <1>7, <2>2, <2>4, <2>6, <2>7, StatementInv DEF OpenCounted
<1> QED
  BY <1>2, <1>3, <1>4, <1>5, <1>6, <1>7

\* What is evaluated changes no table; a variable is declared in both, or in none.
LEMMA ExpressionInv ==
  ASSUME CheckerInv,
         \/ \E e \in Expressions : Evaluate(e)
         \/ \E n \in Names, k \in Kinds \cup {Unknown}, e \in Expressions : DeclareVariable(n, k, e)
         \/ \E n \in Names, e \in Expressions : Assign(n, e)
         \/ \E n \in Names, e \in Operands : CheckLambda(n, e)
         \/ \E n \in Names : Call(n)
  PROVE  CheckerInv'
<1>1. GoodState /\ ScopesInv /\ hadError \in BOOLEAN /\ crashed \in BOOLEAN
  BY DEF CheckerInv
<1>2. ASSUME NEW e \in Expressions, Evaluate(e) PROVE CheckerInv'
  <2>1. hadError' \in BOOLEAN
    BY <1>2, Zenon DEF Evaluate, Checked
  <2> QED
    BY <2>1, <1>1, <1>2, Same, StatementInv DEF Evaluate, Checking
<1>3. ASSUME NEW n \in Names, NEW k \in Kinds \cup {Unknown}, NEW e \in Expressions, DeclareVariable(n, k, e)
      PROVE  CheckerInv'
  <2>1. hadError' \in BOOLEAN
    BY <1>3, Zenon DEF DeclareVariable, Checked
  <2>2. PICK kind : kind = IF k = Unknown THEN Inferred(e) ELSE k
    OBVIOUS
  <2>3. pass = 2 /\ kind # Function /\ AddValue(n, kind) /\ visible' = Declared(NamesOf(n, kind))
    BY <1>3, <2>2 DEF DeclareVariable, Checking
  <2>4. kind \in Kinds \cup {Unknown}
    BY <1>1, <2>2, <2>3, InferredTypes DEF GoodState
  <2>5. /\ GoodState' /\ Len(tables') = Len(tables) /\ Keeps(tables, tables')
        /\ NamesOf(n, kind) \in SUBSET Names
        /\ \A d \in NamesOf(n, kind) : Knows(tables'[Len(tables)], d)
    BY <2>3, <2>4, Valued
  <2>6. ScopesInv'
    BY <1>1, <2>3, <2>5, Declares
  <2> QED
    BY <2>1, <2>3, <2>5, <2>6, <1>1, <1>3, StatementInv DEF DeclareVariable
<1>4. ASSUME NEW n \in Names, NEW e \in Expressions, Assign(n, e) PROVE CheckerInv'
  <2>1. hadError' \in BOOLEAN
    <3>1. hadError' = hadError \/ Checked(e)
      BY <1>4, Zenon DEF Assign
    <3> QED
      BY <3>1, <1>1, Zenon DEF Checked
  <2> QED
    BY <2>1, <1>1, <1>4, Same, StatementInv DEF Assign, Checking
<1>5. ASSUME NEW n \in Names, NEW e \in Operands, CheckLambda(n, e) PROVE CheckerInv'
  <2>1. hadError' \in BOOLEAN
    BY <1>5, Zenon DEF CheckLambda
  <2> QED
    BY <2>1, <1>1, <1>5, Same, StatementInv DEF CheckLambda, Checking
<1>6. ASSUME NEW n \in Names, Call(n) PROVE CheckerInv'
  <2>1. hadError' \in BOOLEAN /\ crashed' \in BOOLEAN
    BY <1>6, Zenon DEF Call
  <2> QED
    BY <2>1, <1>1, <1>6, Same, StatementInv DEF Call, Checking
<1> QED
  BY <1>2, <1>3, <1>4, <1>5, <1>6

LEMMA NextInv == CheckerInv /\ [Next]_vars => CheckerInv'
<1> SUFFICES ASSUME CheckerInv, [Next]_vars PROVE CheckerInv'
  OBVIOUS
<1>1. CASE Declare
  BY <1>1, DeclareInv
<1>2. CASE NextPass
  <2>1. GoodState' /\ ScopesInv' /\ Len(tables') = Len(tables)
    BY <1>2, Same DEF NextPass
  <2>2. pass' \in 0 .. 2 /\ pass < 2
    BY <1>2 DEF NextPass, CheckerInv
  <2> QED
    BY <2>1, <2>2, <1>2 DEF NextPass, CheckerInv
<1>3. ASSUME NEW e \in Expressions, EnterFunction(<<>>, e) PROVE CheckerInv'
  BY <1>3, EnterStep
<1>4. ASSUME NEW n \in Names, NEW k \in Kinds, NEW e \in Expressions, EnterFunction(<<<<n, k>>>>, e)
      PROVE  CheckerInv'
  BY <1>4, EnterStep
<1>5. CASE Statement
  BY <1>3, <1>4, <1>5, BlockInv, ExpressionInv DEF Statement
<1>6. CASE UNCHANGED vars
  <2>1. UNCHANGED <<tables, visible, pass, hadError, crashed, definitions>>
    BY <1>6 DEF vars
  <2> QED
    BY <2>1, Same DEF CheckerInv
<1> QED
  BY <1>1, <1>2, <1>5, <1>6 DEF Next

-----------------------------------------------------------------------------
\* The tables hold symbols of the program's names and kinds, one for every open scope at most.
THEOREM TypeCorrect == Spec => []TypeOK
<1>1. CheckerInv => TypeOK
  <2> SUFFICES ASSUME CheckerInv PROVE TypeOK
    OBVIOUS
  <2>1. GoodState /\ ScopesInv
    BY DEF CheckerInv
  <2>2. Len(tables) \in 1 .. Len(visible)
    <3>1. PICK f \in [1 .. Len(visible) -> 1 .. Len(tables)] : Climbs(f, tables, visible)
      BY <2>1 DEF ScopesInv, Aligned
    <3>2. PICK n \in Nat, m \in Nat : n = Len(visible) /\ m = Len(tables) /\ n > 0 /\ m > 0
      BY <2>1 DEF ScopesInv, GoodState, TablesOK
    <3>3. n \in 1 .. n
      BY <3>2
    <3>4. f[n] = m /\ f[n] <= n
      BY <3>1, <3>2, <3>3 DEF Climbs
    <3> QED
      BY <3>2, <3>4
  <2>3. ASSUME NEW t \in DOMAIN tables, NEW i \in DOMAIN tables[t]
        PROVE  /\ tables[t][i] \in SymbolsOf
               /\ (tables[t][i].kind = Function) = (tables[t][i].chain # <<>>)
    <3>1. tables[t] \in Tables
      BY <2>1 DEF GoodState, TablesOK
    <3> QED
      BY <3>1 DEF Tables
  <2>4. ASSUME NEW s \in SymbolsOf
        PROVE  /\ s.name \in Names
               /\ s.kind \in Kinds \cup {Function}
               /\ ToSet(s.chain) \subseteq Signatures
    BY DEF SymbolsOf, ToSet
  <2>5. \A t \in DOMAIN tables : \A i \in DOMAIN tables[t] :
          LET s == tables[t][i] IN
          /\ s.name \in Names
          /\ s.kind \in Kinds \cup {Function}
          /\ (s.kind = Function) = (s.chain # <<>>)
          /\ ToSet(s.chain) \subseteq Signatures
    BY <2>3, <2>4
  <2> QED
    BY <2>2, <2>5 DEF CheckerInv, TypeOK
<1> QED
  BY <1>1, InitInv, NextInv, PTL DEF Spec

(***************************************************************************)
(* No two overloads of a chain have the same parameters, in whatever order *)
(* extern functions, functions and other things were declared.             *)
(***************************************************************************)
THEOREM OverloadsCorrect == Spec => []OverloadsDistinct
<1>1. CheckerInv => OverloadsDistinct
  BY DEF CheckerInv, GoodState, Distinct, OverloadsDistinct
<1> QED
  BY <1>1, InitInv, NextInv, PTL DEF Spec

(***************************************************************************)
(* find_function_overload takes an exact match when there is one, and what *)
(* it takes passes the validation, but for the extra arguments of a        *)
(* variadic function.                                                      *)
(***************************************************************************)
THEOREM BestCorrect == Spec => []BestOverload
<1>1. CheckerInv => BestOverload
  BY BestIsChosen DEF CheckerInv, GoodState
<1> QED
  BY <1>1, InitInv, NextInv, PTL DEF Spec

(***************************************************************************)
(* A name that C sees is found by the checker, however blocks, loops,      *)
(* catch clauses and functions are nested.                                 *)
(***************************************************************************)
THEOREM ScopesCorrect == Spec => []ScopesAgree
<1>1. CheckerInv => ScopesAgree
  BY Agreeing DEF CheckerInv, GoodState, ScopesInv
<1> QED
  BY <1>1, InitInv, NextInv, PTL DEF Spec
=============================================================================
