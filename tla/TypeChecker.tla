---------------------------- MODULE TypeChecker ----------------------------
(***************************************************************************)
(* Names, overloads and scopes in checker.c, and what codegen.c makes of   *)
(* them.  check_program goes over the declarations of a program three      *)
(* times; the program is whatever declarations and statements the actions  *)
(* below choose.                                                           *)
(*                                                                         *)
(* A symbol table is a sequence that is searched from its start.  Blocks   *)
(* of a function share the function's table: only catch clauses, lambdas   *)
(* and functions have tables of their own.  The generated C opens a scope  *)
(* for every branch and loop; visible is the names that C sees there.  The *)
(* C types of variables are chosen by other rules than the checker's and   *)
(* are left out.                                                           *)
(***************************************************************************)
EXTENDS Integers, FiniteSets, SequencesExt

CONSTANTS Names,            \* identifiers, as the sequence of parts that _ joins
          Kinds,            \* the type kinds of values
          MaxParams,        \* parameters of a function
          Externs,          \* signatures of extern functions
          Expressions,      \* expressions a program may use, see below
          MaxSymbols,       \* symbols and overloads of the global table
          MaxLocals,        \* symbols of any other table
          MaxBlocks         \* scopes open at a time in C, with the global one

Unknown == "unknown"        \* the NULL type
Function == "function"

ASSUME CheckerAssumption ==
  /\ Names \subseteq Seq(STRING)
  /\ {"int", "float", "bool", "string"} \subseteq Kinds
  /\ Unknown \notin Kinds /\ Function \notin Kinds
  /\ Externs \subseteq [params : Seq(Kinds), variadic : BOOLEAN]

ParamLists == UNION {[1 .. n -> Kinds] : n \in 0 .. MaxParams}
Signatures == [params : ParamLists, variadic : {FALSE}] \cup Externs

VARIABLES
  pass,                     \* 0: types and constants, 1: functions, 2: bodies
  tables,                   \* the global table, the function's, those of its catch clauses
  hadError,                 \* had_error
  crashed,                  \* a NULL type was looked into
  visible,                  \* in C: the open scopes, the names of each and if it has a table
  definitions               \* in C: the functions defined

vars == <<pass, tables, hadError, crashed, visible, definitions>>

Symbol(name, kind, chain) == [name |-> name, kind |-> kind, chain |-> chain]
NoSymbol == Symbol(<<>>, Unknown, <<>>)

-----------------------------------------------------------------------------
\* find_symbol: the first of that name in the innermost table that has one.
Having(name) == {t \in DOMAIN tables : \E i \in DOMAIN tables[t] : tables[t][i].name = name}
FirstIn(table, name) == CHOOSE i \in DOMAIN table :
  table[i].name = name /\ \A j \in 1 .. i - 1 : table[j].name # name

FindSymbol(name) ==
  IF Having(name) = {} THEN NoSymbol
  ELSE LET table == tables[Max(Having(name))] IN table[FirstIn(table, name)]

\* add_symbol in the table of the scope that is being checked.
AddSymbol(symbol) == tables' = [tables EXCEPT ![Len(tables)] = Append(@, symbol)]

Overloads(table) == {o \in (DOMAIN table) \X (2 .. MaxSymbols) : o[2] \in DOMAIN table[o[1]].chain}
Room == IF Len(tables) = 1 THEN Len(tables[1]) + Cardinality(Overloads(tables[1])) < MaxSymbols
                           ELSE Len(Last(tables)) < MaxLocals

\* Mutant: a variadic signature is another one.
SignatureTakenWhole(chain, sig) == \E i \in DOMAIN chain : chain[i] = sig

SignatureTaken(chain, sig) == \E i \in DOMAIN chain : chain[i].params = sig.params

(***************************************************************************)
(* add_function_overload, always in the global table: a second function of *)
(* a name joins the chain of the first, a signature that is taken is left  *)
(* out; a function whose name is first that of something else becomes a    *)
(* symbol that is never found.                                             *)
(***************************************************************************)
AddOverload(name, sig) ==
  LET known == FindSymbol(name) IN
  IF known.kind # Function THEN AddSymbol(Symbol(name, Function, <<sig>>))
  ELSE IF SignatureTaken(known.chain, sig) THEN UNCHANGED tables
  ELSE tables' = [tables EXCEPT ![1][FirstIn(tables[1], name)].chain = Append(@, sig)]

-----------------------------------------------------------------------------
\* types_equal compares kinds only, so two structs are one kind.
Converts(from, to) == from = to \/ (from = "int" /\ to = "float")

TakesCount(sig, args) ==
  IF sig.variadic THEN Len(args) >= Len(sig.params) ELSE Len(args) = Len(sig.params)

Exact(sig, args) == {i \in DOMAIN sig.params : args[i] = sig.params[i]}

\* Mutant: what can be converted counts as much as what is equal.
ScoreFlat(sig, args) ==
  IF TakesCount(sig, args) /\ \A i \in DOMAIN sig.params : Converts(args[i], sig.params[i])
    THEN 10 * Len(sig.params) + (IF Len(args) > Len(sig.params) THEN 1 ELSE 0)
    ELSE -1

\* calculate_match_score
Score(sig, args) ==
  IF TakesCount(sig, args) /\ \A i \in DOMAIN sig.params : Converts(args[i], sig.params[i])
    THEN 5 * Len(sig.params) + 5 * Cardinality(Exact(sig, args))
           + (IF Len(args) > Len(sig.params) THEN 1 ELSE 0)
    ELSE -1

\* can_convert_type dereferences the type of an argument that has none.
Dereferences(sig, args) ==
  /\ TakesCount(sig, args)
  /\ \E i \in DOMAIN sig.params :
       /\ args[i] = Unknown
       /\ \A j \in 1 .. i - 1 : Converts(args[j], sig.params[j])

\* find_function_overload: the first of the best, 0 for none.
Choice(chain, args) ==
  LET fit == {i \in DOMAIN chain : Score(chain[i], args) >= 0}
      best == {i \in fit : \A j \in fit : Score(chain[i], args) >= Score(chain[j], args)}
  IN IF fit = {} THEN 0 ELSE Min(best)

\* wyn_validate_function_call: the number of arguments has to be the number of parameters.
Valid(sig, args) ==
  /\ Len(args) = Len(sig.params)
  /\ \A i \in DOMAIN args : Converts(args[i], sig.params[i])

\* The mangled name is used unless the overload is the last of its chain.
CalledAs(name, chain, i) == IF i < Len(chain) THEN name \o chain[i].params ELSE name

-----------------------------------------------------------------------------
(***************************************************************************)
(* Expressions: <<"lit", kind>>, <<"id", name>> and <<op, left, right>>.   *)
(***************************************************************************)
Operand(e) == IF e[1] = "lit" THEN e[2] ELSE FindSymbol(e[2]).kind

BinaryKind(op, l, r) ==
  CASE op = "??"  -> r
    [] op = "and" -> IF {l, r} \subseteq {"bool", "int"} THEN "int" ELSE Unknown
    [] op = "<"   -> IF l = r \/ {l, r} \in {{"int", "bool"}, {"int", "enum"}} THEN "int" ELSE Unknown
    [] op = "+"   -> IF {l, r} = {"int", "string"} THEN "string" ELSE IF l = r THEN l ELSE Unknown
    [] OTHER      -> IF l = r THEN l ELSE Unknown

KindOf(e) ==
  IF e[1] \in {"lit", "id"} THEN Operand(e)
  ELSE IF Unknown \in {Operand(e[2]), Operand(e[3])} THEN Unknown
  ELSE BinaryKind(e[1], Operand(e[2]), Operand(e[3]))

Operands == ({"lit"} \X Kinds) \cup ({"id"} \X Names)
ASSUME ExpressionsAssumption ==
  Expressions \subseteq Operands \cup ({"??", "and", "<", "+", "-"} \X Operands \X Operands)

\* An expression without a type has had its error, here or in a part of it.
Checked(e) == hadError' = (hadError \/ KindOf(e) = Unknown)

(***************************************************************************)
(* wyn_infer_variable_type: a variable has the type of what it is set to,  *)
(* but of an operator's result only the operator and the literals count.   *)
(***************************************************************************)
Inferred(e) ==
  IF e[1] \in {"lit", "id"} THEN KindOf(e)
  ELSE IF e[1] \in {"+", "-"} /\ <<"lit", "float">> \in {e[2], e[3]} THEN "float"
  ELSE IF e[1] = "<" THEN "bool"
  ELSE "int"

\* A value of no known type is not declared.
AddValue(name, kind) ==
  IF kind = Unknown THEN UNCHANGED tables ELSE AddSymbol(Symbol(name, kind, <<>>))

\* What C declares with it: nothing, as no C is generated after the error.
NamesOf(name, kind) == IF kind = Unknown THEN {} ELSE {name}

Scope(names, own) == [names |-> names, own |-> own]
Declared(names) == [visible EXCEPT ![Len(visible)].names = @ \cup names]

-----------------------------------------------------------------------------
\* Pass 0: structs, enums and constants; extern functions.
DeclareValue(name, kind) ==
  /\ pass = 0 /\ Room
  /\ AddSymbol(Symbol(name, kind, <<>>))
  /\ visible' = Declared({name})
  /\ UNCHANGED <<pass, hadError, crashed, definitions>>

DeclareExtern(name, sig) ==
  /\ pass = 0 /\ Room
  /\ AddOverload(name, sig)
  /\ visible' = Declared({name})
  /\ definitions' = definitions \cup {name}
  /\ UNCHANGED <<pass, hadError, crashed>>

\* Pass 1: the functions, which C defines under their own names.
DeclareFunction(name, params) ==
  /\ pass = 1 /\ Room
  /\ AddOverload(name, [params |-> params, variadic |-> FALSE])
  /\ visible' = Declared({name})
  /\ definitions' = definitions \cup {name}
  /\ UNCHANGED <<pass, hadError, crashed>>

\* Exported functions never join a chain, and exported variables are integers.
ExportFunction(name, params) ==
  /\ pass = 1 /\ Room
  /\ AddSymbol(Symbol(name, Function, <<[params |-> params, variadic |-> FALSE]>>))
  /\ visible' = Declared({name})
  /\ definitions' = definitions \cup {name}
  /\ UNCHANGED <<pass, hadError, crashed>>

ExportVariable(name) ==
  /\ pass = 1 /\ Room
  /\ AddSymbol(Symbol(name, "int", <<>>))
  /\ visible' = Declared({name})
  /\ UNCHANGED <<pass, hadError, crashed, definitions>>

NextPass ==
  /\ pass < 2
  /\ pass' = pass + 1
  /\ UNCHANGED <<tables, hadError, crashed, visible, definitions>>

-----------------------------------------------------------------------------
(***************************************************************************)
(* Pass 2: bodies of functions, and the statements between functions.      *)
(* These are the body of C's main: what they declare, C sees in the        *)
(* statements that follow; here the functions see it too, which only asks  *)
(* for more.                                                               *)
(***************************************************************************)
Checking == pass = 2 /\ ~crashed
InFunction == Checking /\ Len(tables) > 1

(***************************************************************************)
(* params: <<name, kind>> of those that are looked at, none or one.  A     *)
(* function that tells no type has what it returns, e, looked at before    *)
(* its body is; a literal stands for one that tells its type.              *)
(***************************************************************************)
EnterFunction(params, e) ==
  /\ Checking /\ Len(tables) = 1
  /\ tables' = Append(tables, [i \in DOMAIN params |-> Symbol(params[i][1], params[i][2], <<>>)])
  /\ visible' = Append(visible, Scope({params[i][1] : i \in DOMAIN params}, TRUE))
  /\ hadError' = (hadError \/ KindOf(e)' = Unknown)
  /\ UNCHANGED <<pass, crashed, definitions>>

LeaveFunction ==
  /\ InFunction /\ Len(visible) = 2
  /\ tables' = Front(tables)
  /\ visible' = Front(visible)
  /\ UNCHANGED <<pass, hadError, crashed, definitions>>

(***************************************************************************)
(* A variable, with its type or (Unknown) without, or a constant.          *)
(* (Variables that hold functions are left out.)                           *)
(***************************************************************************)
DeclareVariable(name, type, e) ==
  LET kind == IF type = Unknown THEN Inferred(e) ELSE type
  IN /\ Checking /\ Room /\ kind # Function
     /\ Checked(e)
     /\ AddValue(name, kind)
     /\ visible' = Declared(NamesOf(name, kind))
     /\ UNCHANGED <<pass, crashed, definitions>>

Evaluate(e) ==
  /\ Checking
  /\ Checked(e)
  /\ UNCHANGED <<pass, tables, crashed, visible, definitions>>

\* An unknown target is told, and is no error; its value is not looked at.
Assign(name, e) ==
  /\ Checking
  /\ IF FindSymbol(name) = NoSymbol THEN UNCHANGED hadError ELSE Checked(e)
  /\ UNCHANGED <<pass, tables, crashed, visible, definitions>>

\* A branch or a while loop: a scope in C, not in the checker.
OpenBlock ==
  /\ InFunction /\ Len(visible) < MaxBlocks
  /\ visible' = Append(visible, Scope({}, FALSE))
  /\ UNCHANGED <<pass, tables, hadError, crashed, definitions>>

\* for name in array: the variable stays in the function's table.
OpenLoop(name) ==
  /\ InFunction /\ Room /\ Len(visible) < MaxBlocks
  /\ AddSymbol(Symbol(name, "int", <<>>))
  /\ visible' = Append(visible, Scope({name}, FALSE))
  /\ UNCHANGED <<pass, hadError, crashed, definitions>>

\* for name from e on: so does this one.
OpenCounted(name, e) ==
  /\ InFunction /\ Room /\ Len(visible) < MaxBlocks /\ Inferred(e) # Function
  /\ Checked(e)
  /\ AddValue(name, Inferred(e))
  /\ visible' = Append(visible, Scope(NamesOf(name, Inferred(e)), FALSE))
  /\ UNCHANGED <<pass, crashed, definitions>>

OpenCatch(name) ==
  /\ InFunction /\ Len(visible) < MaxBlocks
  /\ tables' = Append(tables, <<Symbol(name, "string", <<>>)>>)
  /\ visible' = Append(visible, Scope({name}, TRUE))
  /\ UNCHANGED <<pass, hadError, crashed, definitions>>

\* Mutant: every block that ends takes the innermost table with it.
CloseEvery ==
  /\ InFunction /\ Len(visible) > 2
  /\ visible' = Front(visible)
  /\ tables' = IF Len(tables) > 2 THEN Front(tables) ELSE tables
  /\ UNCHANGED <<pass, hadError, crashed, definitions>>

CloseBlock ==
  /\ InFunction /\ Len(visible) > 2
  /\ visible' = Front(visible)
  /\ tables' = IF Last(visible).own THEN Front(tables) ELSE tables
  /\ UNCHANGED <<pass, hadError, crashed, definitions>>

\* A lambda is checked with its parameter, an int, in a table of its own.
CheckLambda(param, e) ==
  /\ Checking
  /\ hadError' = (hadError \/ (e[1] = "id" /\ e[2] # param /\ FindSymbol(e[2]) = NoSymbol))
  /\ UNCHANGED <<pass, tables, crashed, visible, definitions>>

(***************************************************************************)
(* f(args): the types of the arguments choose an overload of f; the chosen *)
(* one is validated, and codegen.c calls it by its name.                   *)
(***************************************************************************)
Call(name) ==
  LET f == FindSymbol(name) IN
  /\ Checking
  /\ f.kind = Function
  /\ \E m \in 0 .. MaxParams + 1 : \E exprs \in [1 .. m -> Operands] :
       LET args == [i \in DOMAIN exprs |-> KindOf(exprs[i])]
           choice == Choice(f.chain, args)
       IN /\ crashed' = \E i \in DOMAIN f.chain : Dereferences(f.chain[i], args)
          /\ hadError' = (\/ hadError
                          \/ \E i \in DOMAIN args : args[i] = Unknown
                          \/ choice = 0
                          \/ ~Valid(f.chain[choice], args))
  /\ UNCHANGED <<pass, tables, visible, definitions>>

-----------------------------------------------------------------------------
Init ==
  /\ pass = 0
  /\ tables = << <<>> >>
  /\ hadError = FALSE
  /\ crashed = FALSE
  /\ visible = <<Scope({}, TRUE)>>
  /\ definitions = {}

Declare ==
  \/ \E n \in Names, k \in Kinds : DeclareValue(n, k)
  \/ \E n \in Names, s \in Externs : DeclareExtern(n, s)
  \/ \E n \in Names, p \in ParamLists : DeclareFunction(n, p) \/ ExportFunction(n, p)
  \/ \E n \in Names : ExportVariable(n)

Statement ==
  \/ \E e \in Expressions : EnterFunction(<<>>, e)
  \/ \E n \in Names, k \in Kinds, e \in Expressions : EnterFunction(<<<<n, k>>>>, e)
  \/ LeaveFunction
  \/ \E e \in Expressions : Evaluate(e)
  \/ \E n \in Names, k \in Kinds \cup {Unknown}, e \in Expressions : DeclareVariable(n, k, e)
  \/ \E n \in Names, e \in Expressions : Assign(n, e) \/ OpenCounted(n, e)
  \/ OpenBlock
  \/ \E n \in Names : OpenLoop(n) \/ OpenCatch(n)
  \/ CloseBlock
  \/ \E n \in Names, e \in Operands : CheckLambda(n, e)
  \/ \E n \in Names : Call(n)

Next == Declare \/ NextPass \/ Statement

Spec == Init /\ [][Next]_vars

-----------------------------------------------------------------------------
TypeOK ==
  /\ pass \in 0 .. 2
  /\ Len(tables) \in 1 .. Len(visible)
  /\ \A t \in DOMAIN tables : \A i \in DOMAIN tables[t] :
       LET s == tables[t][i] IN
       /\ s.name \in Names
       /\ s.kind \in Kinds \cup {Function}
       /\ (s.kind = Function) = (s.chain # <<>>)
       /\ ToSet(s.chain) \subseteq Signatures
  /\ hadError \in BOOLEAN /\ crashed \in BOOLEAN
  /\ definitions \subseteq Names

(***************************************************************************)
(* No two overloads that can be found under one name have the same         *)
(* parameters, whatever was declared under that name before.               *)
(***************************************************************************)
OverloadsDistinct ==
  \A t \in DOMAIN tables : \A i \in DOMAIN tables[t] :
    LET chain == tables[t][i].chain IN
    \A j, k \in DOMAIN chain : chain[j].params = chain[k].params => j = k

(***************************************************************************)
(* The choice among overloads: one that takes exactly the types of the     *)
(* arguments wins against conversions and variadic functions, wherever it  *)
(* is in the chain; and the chosen one passes the validation that follows, *)
(* unless it is variadic and was given more than its parameters.           *)
(***************************************************************************)
BestOverload ==
  \A name \in Names :
    LET chain == FindSymbol(name).chain IN
    \A m \in 0 .. MaxParams + 1 : \A args \in [1 .. m -> Kinds] :
      LET choice == Choice(chain, args)
      IN /\ \A i \in DOMAIN chain : chain[i].params = args => choice # 0 /\ chain[choice].params = args
         /\ choice # 0 => \/ Valid(chain[choice], args)
                          \/ chain[choice].variadic /\ m > Len(chain[choice].params)
         /\ choice = 0 => \A i \in DOMAIN chain : ~Valid(chain[i], args)

\* The table of an open scope: the last that was opened with one of the scopes up to it.
TableOf(b) == Cardinality({c \in 1 .. b : visible[c].own})

(***************************************************************************)
(* What C sees the checker sees.  A name that an open scope of the         *)
(* generated code declares is found, and not outside that declaration's    *)
(* function or catch clause: a local name is never taken for a global one, *)
(* or for one of the function around a catch clause, however blocks, loops *)
(* and catch clauses were opened, closed and declared in before.           *)
(***************************************************************************)
ScopesAgree ==
  \A b \in DOMAIN visible : \A name \in visible[b].names :
    /\ FindSymbol(name) # NoSymbol
    /\ Max(Having(name)) >= TableOf(b)

(***************************************************************************)
(* Every call the checker accepts is of a function that is defined, under  *)
(* the name by which the generated code calls it.                          *)
(***************************************************************************)
CalledIsDefined ==
  pass = 2 /\ ~hadError =>
    \A name \in Names : \A m \in 0 .. MaxParams : \A args \in [1 .. m -> Kinds] :
      LET chain == FindSymbol(name).chain
          choice == Choice(chain, args)
      IN choice # 0 /\ Valid(chain[choice], args) => CalledAs(name, chain, choice) \in definitions
=============================================================================
