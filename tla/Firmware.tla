------------------------------- MODULE Firmware -------------------------------
(***************************************************************************)
(* The Pico firmware generator of reference/separan/embedded_firmware.py:  *)
(* SEP:main of a program, grown statement by statement, as the interpreter *)
(* executes it and as the C++ that is emitted for it runs; and the order   *)
(* in which the SEPs of a program are emitted.                             *)
(*                                                                         *)
(* The program may have the global variable "g", and calls of a SEP that   *)
(* prints it.  Numbers are counted in halves, so that 2 is the integer 1   *)
(* and 5 is 2.5.  Loops are executed twice.  An operator named X_Mistake   *)
(* is X with one mistake in it; no action uses it, it shows which property *)
(* would notice.                                                           *)
(***************************************************************************)
EXTENDS Integers, Sequences, FiniteSets, SequencesExt, FiniteSetsExt, TLC

CONSTANTS Locals,         \* names of variables, besides "g"
          MaxStatements,  \* bound: statements of main
          MaxOpen,        \* bound: blocks in one another
          Seps            \* SEPs of a program, besides "main"

ASSUME FirmwareAssumption == "g" \notin Locals /\ "main" \notin Seps /\ MaxStatements \in Nat /\ MaxOpen \in Nat

VARIABLES
  main,   \* the body of main; a block that is written is its last statement
  depth,  \* blocks that are written
  size,   \* statements
  global, \* there is a global g
  calls   \* which SEPs each SEP calls

firmwareVars == <<main, depth, size, global, calls>>

Variable == Locals \cup {"g"}
Literal(halves) == [of |-> "literal", name |-> "none", halves |-> halves]
Reading(name)   == [of |-> "variable", name |-> name, halves |-> 0]
Halving(name)   == [of |-> "half", name |-> name, halves |-> 0]
Values(name) == {Literal(2), Literal(5), Halving(name)} \cup {Reading(other) : other \in Variable \ {name}}

Statement(op, name, value, body) == [op |-> op, name |-> name, value |-> value, body |-> body]
Simple == UNION {{Statement("set", name, value, <<>>) : value \in Values(name)} : name \in Variable}
          \cup {Statement(op, name, Literal(2), <<>>) : op \in {"const", "print"}, name \in Variable}
          \cup {Statement("call", "show", Literal(2), <<>>)}
\* if true and if false; a for over number_range(2) and over the literal [0, 1].
Compound == {Statement(op, "none", Literal(2), <<>>) : op \in {"if true", "if false"}}
            \cup {Statement(op, name, Literal(2), <<>>) : op \in {"range", "list"}, name \in Variable}

----------------------------------------------------------------------------
(* The interpreter: bindings of the SEP and, below them, the globals;      *)
(* blocks have none of their own.                                          *)

IsInteger(halves) == halves % 2 = 0
BoundTo(halves, constant) == [halves |-> halves, constant |-> constant]
Globals == IF global THEN "g" :> BoundTo(0, FALSE) ELSE <<>>
Sees(s, name) == name \in DOMAIN s.locals \cup DOMAIN Globals
Value(s, name) == IF name \in DOMAIN s.locals THEN s.locals[name].halves ELSE Globals[name].halves
\* Half of 2.5 is not represented: such programs are not looked at.
Known(s, value) == value.of = "literal" \/ (Sees(s, value.name) /\ (value.of = "half" => IsInteger(Value(s, value.name))))
Meaning(s, value) ==
  CASE value.of = "literal" -> value.halves [] value.of = "variable" -> Value(s, value.name)
    [] OTHER -> Value(s, value.name) \div 2
Failed(s) == [s EXCEPT !.ok = FALSE]
Prints(s, halves) == [s EXCEPT !.out = Append(@, halves)]

Assigns(s, name, halves, constant) ==
  IF name \in DOMAIN s.locals /\ (constant \/ s.locals[name].constant) THEN Failed(s)
  ELSE [s EXCEPT !.locals = (name :> BoundTo(halves, constant)) @@ @]

RECURSIVE Interpreted(_, _)
Interpret(s, st) ==
  CASE ~s.ok -> s
    [] st.op \in {"set", "const"} -> 
         IF Known(s, st.value) THEN Assigns(s, st.name, Meaning(s, st.value), st.op = "const") ELSE Failed(s)
    [] st.op = "print" -> IF Sees(s, st.name) THEN Prints(s, Value(s, st.name)) ELSE Failed(s)
    [] st.op = "call" -> IF global THEN Prints(s, Globals["g"].halves) ELSE Failed(s)
    [] st.op \in {"range", "list"} ->
         LET pass(t, item) == Interpreted(Assigns(t, st.name, item, FALSE), st.body) IN pass(pass(s, 0), 2)
    [] OTHER -> IF st.op = "if true" THEN Interpreted(s, st.body) ELSE s
Interpreted(s, body) == FoldLeft(LAMBDA t, st : IF t.ok THEN Interpret(t, st) ELSE t, s, body)

----------------------------------------------------------------------------
(* The generator: where it finds a name, and what the compiler and it      *)
(* refuse.  Scopes are those of the generator and of C++, which agree.     *)

Entry(type, constant) == [type |-> type, constant |-> constant]
Where(scopes, name) == Max({0} \cup {k \in DOMAIN scopes : name \in DOMAIN scopes[k]})
GlobalScope(entry) == IF global THEN "g" :> entry ELSE <<>>
Declared(scopes, name, entry) == [scopes EXCEPT ![Len(scopes)] = (name :> entry) @@ @]
\* auto: the type of the first value; that of int / int is int.
TypeOf(scopes, value) ==
  IF value.of = "literal" THEN IF IsInteger(value.halves) THEN "int" ELSE "double"
  ELSE scopes[Where(scopes, value.name)][value.name].type

RECURSIVE Scoped(_, _)
\* The scopes after a statement, or <<>> if it is refused: E966, or E968 for an
\* assignment to a constant.
Emit(scopes, st) ==
  CASE st.op \in {"set", "const"} ->
         LET k == Where(scopes, st.name)
         IN  IF st.value.of # "literal" /\ Where(scopes, st.value.name) = 0 THEN <<>>
             ELSE IF k = 0 THEN Declared(scopes, st.name, Entry(TypeOf(scopes, st.value), st.op = "const"))
             ELSE IF st.op = "const" \/ scopes[k][st.name].constant THEN <<>> ELSE scopes
    [] st.op = "print" -> IF Where(scopes, st.name) = 0 THEN <<>> ELSE scopes
    [] st.op = "call" -> IF global THEN scopes ELSE <<>>
    [] OTHER ->
         LET inner == Append(scopes, IF st.op \in {"range", "list"}
                                     THEN st.name :> Entry(IF st.op = "list" THEN "double" ELSE "int", st.op = "list") ELSE <<>>)
         IN  IF Scoped(inner, st.body) = <<>> THEN <<>> ELSE scopes
Scoped(scopes, body) == FoldLeft(LAMBDA s, st : IF s = <<>> THEN s ELSE Emit(s, st), scopes, body)
Accepted == Scoped(<<GlobalScope(Entry("int", FALSE)), <<>>>>, main) # <<>>

----------------------------------------------------------------------------
(* The C++ program.                                                        *)

Cell(type, halves) == [type |-> type, halves |-> IF type = "int" THEN 2 * (halves \div 2) ELSE halves]
At(f, name) == f.scopes[Where(f.scopes, name)][name]
Computed(f, value) ==
  CASE value.of = "literal" -> Cell(IF IsInteger(value.halves) THEN "int" ELSE "double", value.halves)
    [] value.of = "variable" -> At(f, value.name)
    [] OTHER -> Cell(At(f, value.name).type, At(f, value.name).halves \div 2)
StoredIn(f, name, cell) ==
  LET k == Where(f.scopes, name)
  IN  IF k = 0 THEN [f EXCEPT !.scopes = Declared(@, name, cell)]
      ELSE [f EXCEPT !.scopes[k][name] = Cell(@.type, cell.halves)]
Entered(f, scope) == [f EXCEPT !.scopes = Append(@, scope)]
Left(f) == [f EXCEPT !.scopes = Front(@)]

\* The condition of the loop over number_range(2).
Continues_Inclusive(halves) == halves <= 4
Continues(halves) == halves < 4

RECURSIVE Ran(_, _), Looped(_, _, _)
RunOne(f, st) ==
  CASE st.op \in {"set", "const"} -> StoredIn(f, st.name, Computed(f, st.value))
    [] st.op = "print"   -> Prints(f, At(f, st.name).halves)
    [] st.op = "call"    -> Prints(f, f.scopes[1]["g"].halves)
    [] st.op = "list"    -> LET pass(g, item) == Left(Ran(Entered(g, st.name :> Cell("double", item)), st.body)) IN pass(pass(f, 0), 2)
    [] st.op = "range"   -> Looped(Entered(f, st.name :> Cell("int", 0)), st, 4)
    [] st.op = "if true" -> Left(Ran(Entered(f, <<>>), st.body))
    [] OTHER -> f
Ran(f, body) == FoldLeft(RunOne, f, body)
\* for (name = 0; name < 2; name += 1): the body may assign name, so the turns are bounded.
Looped(f, st, turns) ==
  IF ~Continues(Last(f.scopes)[st.name].halves) \/ turns = 0 THEN Left(f)
  ELSE LET after == Left(Ran(Entered(f, <<>>), st.body))
       IN  Looped([after EXCEPT !.scopes[Len(after.scopes)][st.name].halves = @ + 2], st, turns - 1)

Desktop  == Interpreted([locals |-> <<>>, out |-> <<>>, ok |-> TRUE], main)
OnDevice == Ran([scopes |-> <<GlobalScope(Cell("int", 0)), <<>>>>, out |-> <<>>], main)

----------------------------------------------------------------------------
(* _ordered_functions: a SEP after all that it calls, main at last; none   *)
(* that is recursive.                                                      *)
Called_Self(name) == calls[name] \ {name}
Called(name) == calls[name]
RECURSIVE Visit(_, _, _)
Visit(done, name, visiting) ==
  IF ~done.ok \/ name \in Range(done.order) THEN done
  ELSE IF name \in visiting THEN [done EXCEPT !.ok = FALSE]
  ELSE LET below == FoldSet(LAMBDA n, d : Visit(d, n, visiting \cup {name}), done, Called(name))
       IN  IF below.ok THEN [below EXCEPT !.order = Append(@, name)] ELSE below
Emitted == Visit(FoldSet(LAMBDA n, d : Visit(d, n, {}), [order |-> <<>>, ok |-> TRUE], Seps), "main", {})

----------------------------------------------------------------------------
(* The author.                                                             *)
RECURSIVE Put(_, _, _)
Put(body, level, st) ==
  IF level = 0 THEN Append(body, st)
  ELSE Append(Front(body), [Last(body) EXCEPT !.body = Put(@, level - 1, st)])

WriteStatement(st) ==
  /\ size < MaxStatements /\ size' = size + 1
  /\ main' = Put(main, depth, st)
  /\ UNCHANGED <<depth, global, calls>>
WriteBlock(st) ==
  /\ size < MaxStatements /\ depth < MaxOpen /\ size' = size + 1 /\ depth' = depth + 1
  /\ main' = Put(main, depth, st)
  /\ UNCHANGED <<global, calls>>
EndBlock == depth > 0 /\ depth' = depth - 1 /\ UNCHANGED <<main, size, global, calls>>

NoCalls == [name \in Seps \cup {"main"} |-> {}]
FirmwareInit ==
  /\ main = <<>> /\ depth = 0 /\ size = 0 /\ global \in BOOLEAN
  /\ calls \in [Seps \cup {"main"} -> SUBSET (Seps \cup {"main"})]
FirmwareNext ==
  /\ calls = NoCalls
  /\ \/ \E st \in Simple : WriteStatement(st)
     \/ \E st \in Compound : WriteBlock(st)
     \/ EndBlock

----------------------------------------------------------------------------
\* The parts of a program in which the two differ: a global that main assigns, a
\* loop variable that is used outside its loop or assigned in it, a fraction in an
\* integer variable, a division of integers.
RECURSIVE Uses(_), Sets(_), Differing(_), Reused(_, _)
Flat(F(_), body) == UNION {F(body[k]) : k \in DOMAIN body}
IsLoop(st) == st.op \in {"range", "list"}
Uses(st) == ({st.name, st.value.name} \ {"none", "show"}) \cup Flat(Uses, st.body)
Sets(st) == (IF st.op \in {"set", "const"} THEN {st.name} ELSE {}) \cup Flat(Sets, st.body)
Differing(st) ==
  \/ IsLoop(st) /\ st.name = "g"
  \/ st.op \in {"set", "const"} /\ (st.name = "g" \/ st.value = Literal(5) \/ st.value.of = "half")
  \/ \E k \in DOMAIN st.body : Differing(st.body[k])
Reused(body, outside) ==
  \E k \in DOMAIN body :
    LET others == outside \cup UNION {Uses(body[j]) : j \in DOMAIN body \ {k}}
    IN  \/ IsLoop(body[k]) /\ body[k].name \in others \cup Flat(Sets, body[k].body)
        \/ Reused(body[k].body, others \cup (Uses([body[k] EXCEPT !.body = <<>>])))
Portable == ~Reused(main, {}) /\ \A k \in DOMAIN main : ~Differing(main[k])

\* A program that is accepted prints on the device what it prints on the desktop, if
\* it has none of the four.
FirmwareAgrees == Accepted /\ Portable /\ Desktop.ok => OnDevice.out = Desktop.out

\* "Unsupported dynamic or desktop-only constructs fail with E966", and "the source is
\* designed to stay identical": what is not refused means the same.
AcceptedMeansSame == Accepted /\ Desktop.ok => OnDevice.out = Desktop.out

\* SEPs are emitted once each, after those they call, unless a SEP calls itself,
\* directly or not.
Reaches[n \in 0..Cardinality(Seps) + 1] ==
  [name \in Seps \cup {"main"} |->
     IF n = 0 THEN calls[name] ELSE Reaches[n - 1][name] \cup UNION {Reaches[n - 1][m] : m \in calls[name]}]
EmittedInOrder ==
  /\ Emitted.ok = (\A name \in Seps \cup {"main"} : name \notin Reaches[Cardinality(Seps) + 1][name])
  /\ Emitted.ok => /\ Range(Emitted.order) = Seps \cup {"main"} /\ IsInjective(Emitted.order)
                   /\ \A i, j \in DOMAIN Emitted.order : Emitted.order[j] \in calls[Emitted.order[i]] => j < i

\* Both: a program is emitted in order and does on the device what it does here.
FirmwareKept == FirmwareAgrees /\ EmittedInOrder
=============================================================================
