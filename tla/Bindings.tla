------------------------------- MODULE Bindings -------------------------------
(***************************************************************************)
(* Identifiers and values of reference/separan/interpreter.py and          *)
(* objects.py: Environment, the type specifications, EMPTY and EMPTYS,     *)
(* indexed assignment, the list shape operations, objects and calls of a   *)
(* SEP.                                                                    *)
(*                                                                         *)
(* A program executes any statements.  A statement that raises an error    *)
(* changes nothing, so only those that succeed are steps, except a call    *)
(* that fails after the types of its arguments were recorded.              *)
(*                                                                         *)
(* Lists are objects of the host language and live in the heap; a value    *)
(* that is copied by reference shares them.  A type is the sequence of its *)
(* words: <<"list", "number">>, <<"list">> as long as no element is known, *)
(* <<>> for none.  An operator named X_Mistake is X with one mistake in    *)
(* it; no action uses it, it shows which property would notice.            *)
(***************************************************************************)
EXTENDS Naturals, Sequences, FiniteSets, SequencesExt, FiniteSetsExt, TLC

CONSTANTS Identifiers,       \* variables
          Types,       \* types that are declared
          MaxLists,    \* bound: lists and objects that exist
          MaxLength,   \* bound: elements of a list
          MaxSteps     \* bound: statements executed

ASSUME BindingsAssumption == Types \subseteq Seq({"number", "string", "list", "object"}) /\ MaxLength \in Nat

VARIABLES
  heap,      \* the elements of each list; of an object, its one field
  globals,   \* bindings of the globals
  locals,    \* bindings of the SEP that is called
  inCall,    \* a SEP is called
  inferred,  \* the type of its parameter, from its calls
  accepted,  \* the types of the arguments that it was called with
  steps

bindingVars == <<heap, globals, locals, inCall, inferred, accepted, steps>>

Scalar(type)  == [is |-> "scalar", of |-> <<type>>, at |-> 0]
Empty(type)   == [is |-> "empty", of |-> type, at |-> 0]
Emptys        == [is |-> "emptys", of |-> <<"emptys">>, at |-> 0]
Void          == [is |-> "void", of |-> <<"void">>, at |-> 0]
ListAt(r)     == [is |-> "list", of |-> <<"list">>, at |-> r]
\* An object and the type of its field.
ObjectAt(r, type) == [is |-> "object", of |-> type, at |-> r]
Binding(value, type, constant) == [value |-> value, type |-> type, constant |-> constant]

----------------------------------------------------------------------------
(* Types: type_specs_compatible, merge_type_specs, value_type_spec.        *)

Compatible(s, t) == IsPrefix(s, t) \/ IsPrefix(t, s)
Merged(s, t) == IF Len(s) < Len(t) THEN t ELSE s
Agree(types) == \A s, t \in types : Compatible(s, t)
Longest(types) == CHOOSE s \in types \cup {<<>>} : \A t \in types : Len(t) <= Len(s)
Known(type) == Len(type) > 1

RECURSIVE TypeOf(_, _), Homogeneous(_, _), Cells(_, _)
TypeOf(h, v) ==
  CASE v.is = "list"   -> <<"list">> \o Longest({TypeOf(h, w) : w \in Range(h[v.at])})
    [] v.is = "object" -> <<"object">>
    [] OTHER           -> v.of
\* list_element_type does not raise.
Homogeneous(h, v) ==
  v.is = "list" => /\ Agree({TypeOf(h, w) : w \in Range(h[v.at])})
                   /\ \A w \in Range(h[v.at]) : w.is \notin {"void", "emptys"} /\ Homogeneous(h, w)
\* The lists and objects that a value is made of.
Cells(h, v) == IF v.at = 0 THEN {} ELSE {v.at} \cup UNION {Cells(h, w) : w \in Range(h[v.at])}

\* A new list or object, and a heap without those that nothing refers to.
Free(h) == (1..MaxLists) \ DOMAIN h
New(h, items) == (Min(Free(h)) :> items) @@ h
Held(h, bindings) == UNION {Cells(h, b.value) : b \in bindings}
Collected(h, bindings) == [r \in Held(h, bindings) |-> h[r]]

\* normalize_list_values: a copy in which every EMPTY has the type of its place.
RECURSIVE Copy(_, _, _), Cleared(_, _, _), Placed(_, _, _)
CopyItems(h, items, F(_, _)) ==
  FoldLeft(LAMBDA done, item : LET c == F(done.heap, item) IN [heap |-> c.heap, items |-> Append(done.items, c.value)],
           [heap |-> h, items |-> <<>>], items)
Listed(h, items) == [heap |-> New(h, items), value |-> ListAt(Min(Free(h)))]
Object(e, type) == [heap |-> New(e.heap, <<e.value>>), value |-> ObjectAt(Min(Free(e.heap)), type)]
Copy(h, v, type) ==
  CASE v.is = "empty" -> [heap |-> h, value |-> Empty(type)]
    [] v.is = "list"  -> LET done == CopyItems(h, h[v.at], LAMBDA g, w : Copy(g, w, Tail(type)))
                         IN  Listed(done.heap, done.items)
    [] OTHER          -> [heap |-> h, value |-> v]
\* It does not raise: no list of nothing but EMPTY without a type.
Placed(h, v, type) ==
  v.is = "list" => /\ h[v.at] # <<>> => Known(type)
                   /\ \A w \in Range(h[v.at]) : Placed(h, w, Tail(type))

\* The type of an object's field: its own, or that of what is in it.
FieldType(h, v) == IF v.of # <<>> THEN v.of ELSE <<TypeOf(h, h[v.at][1])[1]>>

\* clear_container_value: the shape stays, every value goes.
Cleared(h, v, type) ==
  CASE v.is = "empty"  -> Listed(h, <<>>)
    [] v.is = "list"   ->
         LET clear(g, w) == IF w.is \in {"list", "object"} THEN Cleared(g, w, IF w.is = "list" THEN Merged(<<"list">>, Tail(type)) ELSE w.of)
                            ELSE [heap |-> g, value |-> Empty(IF Known(type) THEN Tail(type) ELSE TypeOf(g, w))]
             done == CopyItems(h, h[v.at], clear)
         IN  Listed(done.heap, done.items)
    [] v.is = "object" ->
         LET w     == h[v.at][1]
             field == IF w.is = "list" THEN Cleared(h, w, FieldType(h, v)) ELSE [heap |-> h, value |-> Empty(FieldType(h, v))]
         IN  Object(field, FieldType(h, v))
Clearable(v, type) == v.is \in {"list", "object"} \/ (v.is = "empty" /\ type[1] = "list")

----------------------------------------------------------------------------
(* Environments.                                                           *)

Scope == IF inCall THEN locals ELSE globals
Bound(name) == name \in DOMAIN Scope
Lookup(name) == IF name \in DOMAIN locals THEN locals[name] ELSE globals[name]
Visible == DOMAIN locals \cup DOMAIN globals
Bindings == {locals[n] : n \in DOMAIN locals} \cup {globals[n] : n \in DOMAIN globals}

\* _eval of the expressions that give lists and values: a literal, a variable, an
\* element and a list of them.
Atoms == {Scalar(t) : t \in {"number", "string"}} \cup {Empty(<<>>)} \cup {Lookup(n).value : n \in Visible}
         \cup UNION {Range(heap[Lookup(n).value.at]) : n \in {m \in Visible : Lookup(m).value.is = "list"}}
Here(v) == [heap |-> heap, value |-> v]
Literals == {Listed(heap, items) : items \in {<<>>, <<Scalar("number"), Empty(<<>>)>>} \cup {<<a>> : a \in Atoms} \cup {<<a, a>> : a \in {b \in Atoms : b.is = "list"}}}
Expressions == {Here(v) : v \in Atoms \cup {Emptys, Void}} \cup {l \in Literals : Homogeneous(l.heap, l.value)}

\* The statement leaves name bound in this scope, with a value made in e's heap.
Bind(name, e, type, constant) ==
  LET scope == (name :> Binding(e.value, type, constant)) @@ Scope
  IN  /\ IF inCall THEN locals' = scope /\ UNCHANGED globals ELSE globals' = scope /\ UNCHANGED locals
      /\ heap' = Collected(e.heap, Range(globals') \cup Range(locals'))
      /\ UNCHANGED <<inCall, inferred, accepted>>
\* The same for a name that may be a global: indexed assignment and the shape operations.
Rebind(name, h, value, type) ==
  LET changed(scope) == [scope EXCEPT ![name] = Binding(value, type, @.constant)]
  IN  /\ IF name \in DOMAIN locals THEN locals' = changed(locals) /\ UNCHANGED globals
         ELSE globals' = changed(globals) /\ UNCHANGED locals
      /\ heap' = Collected(h, Range(globals') \cup Range(locals'))
      /\ UNCHANGED <<inCall, inferred, accepted>>

NewValue_Shared(e, type) == e
NewValue(e, type) == Copy(e.heap, e.value, type)

Present(v) == v.is \in {"scalar", "list", "object"}
Fits_AnyElement(h, v, type) == TypeOf(h, v)[1] = type[1] /\ Homogeneous(h, v)
Fits(h, v, type) == Fits_AnyElement(h, v, type) /\ Compatible(TypeOf(h, v), type)

\* prepare_typed_value: what a declared type makes of a value, if it takes it.
Takes(e, type) ==
  CASE e.value.is = "emptys" -> type[1] = "list"
    [] e.value.is = "empty"  -> (e.value.of # <<>> => e.value.of[1] = type[1])
    [] OTHER -> Present(e.value) /\ Fits(e.heap, e.value, type) /\ Placed(e.heap, e.value, type)
Prepared(e, type) == IF e.value.is = "emptys" THEN Listed(e.heap, <<>>) ELSE Copy(e.heap, e.value, type)

\* A data block with one field, with a declared type or without (<<>>), and object_set.
ObjectExpressions ==
  LET fields == {Here(a) : a \in Atoms \cup {Emptys, Void}} \cup {Listed(heap, <<Scalar("number")>>)}
      present == {v \in Atoms : v.is = "object" /\ heap[v.at][1].is \notin {"void", "emptys"}}
  IN  {Object(f, <<>>) : f \in {g \in fields : g.value.is # "empty"}}
      \cup UNION {{Object(Prepared(f, t), t) : f \in {g \in fields : Takes(g, t)}} : t \in Types}
      \cup UNION {{Object(Prepared(f, FieldType(heap, v)), FieldType(heap, v)) :
                     f \in {g \in fields : g.value.is # "emptys" /\ Takes(g, FieldType(heap, v))}} : v \in present}
      \cup {Object(Cleared(heap, heap[v.at][1], FieldType(heap, v)), FieldType(heap, v)) :
              v \in {u \in present : Clearable(heap[u.at][1], FieldType(heap, u))}}

----------------------------------------------------------------------------
(* Statements.                                                             *)

\* Environment.assign.
Rebinds_Constant(b) == TRUE
Rebinds(b) == ~b.constant
Assign(name, e) ==
  LET b == Scope[name]
      t == IF Bound(name) THEN Merged(b.type, TypeOf(e.heap, e.value)) ELSE TypeOf(e.heap, e.value)
  IN  \/ /\ Bound(name) /\ Rebinds(b)
         /\ \/ e.value.is = "emptys" /\ Clearable(b.value, b.type)
               /\ Bind(name, Cleared(heap, b.value, b.type), b.type, FALSE)
            \/ e.value.is = "empty" /\ Bind(name, Here(Empty(b.type)), b.type, FALSE)
            \/ Present(e.value) /\ Fits(e.heap, e.value, b.type) /\ Placed(e.heap, e.value, t)
               /\ Bind(name, Copy(e.heap, e.value, t), t, FALSE)
      \/ /\ ~Bound(name) /\ Homogeneous(e.heap, e.value)
         /\ \/ e.value.is = "empty" /\ t # <<>> /\ Bind(name, e, t, FALSE)
            \/ Present(e.value) /\ Placed(e.heap, e.value, t) /\ Bind(name, NewValue(e, t), t, FALSE)
DefineConst(name, e) ==
  /\ ~Bound(name) /\ Present(e.value) /\ Homogeneous(e.heap, e.value)
  /\ Bind(name, e, TypeOf(e.heap, e.value), TRUE)
DefineTyped(name, type, e, constant) ==
  /\ ~Bound(name) /\ (constant => Present(e.value)) /\ Takes(e, type)
  /\ Bind(name, Prepared(e, type), type, constant)

\* assign_indexes: the lists on the path and the new value are copied.
RECURSIVE At(_, _, _), With(_, _, _, _)
At(h, v, path) == IF path = <<>> THEN v ELSE At(h, h[v.at][path[1]], Tail(path))
With(h, v, path, w) ==
  IF path = <<>> THEN [heap |-> h, value |-> w]
  ELSE LET inner == With(h, h[v.at][path[1]], Tail(path), w)
       IN  Listed(inner.heap, [h[v.at] EXCEPT ![path[1]] = inner.value])
RECURSIVE Leads(_, _)
Leads(v, path) == path # <<>> => v.is = "list" /\ path[1] \in DOMAIN heap[v.at] /\ Leads(heap[v.at][path[1]], Tail(path))
Paths == UNION {[1..n -> 1..MaxLength] : n \in 1..2}
ElementType(b, path) == SubSeq(b.type, 1 + Len(path), Len(b.type))

AssignIndex(name, path, e) ==
  LET b        == Lookup(name)
      current  == At(heap, b.value, path)
      expected == ElementType(b, path)
      adopted  == Merged(expected, IF Present(e.value) THEN TypeOf(e.heap, e.value) ELSE TypeOf(heap, current))
      type     == [k \in DOMAIN path |-> "list"] \o adopted
      set      == CASE e.value.is = "emptys" -> Cleared(heap, current, adopted)
                    [] e.value.is = "empty"  -> Here(Empty(adopted))
                    [] OTHER                 -> e
      whole    == With(set.heap, b.value, path, set.value)
  IN  /\ Rebinds(b) /\ Leads(b.value, path)
      /\ \/ e.value.is = "emptys" /\ current.is \in {"list", "object"}
         \/ e.value.is = "empty"
         \/ Present(e.value) /\ Compatible(expected, TypeOf(e.heap, e.value)) /\ Homogeneous(e.heap, e.value)
      /\ Placed(whole.heap, whole.value, type)
      /\ LET copy == Copy(whole.heap, whole.value, type) IN Rebind(name, copy.heap, copy.value, type)

\* list_insert, list_remove and list_remove_horizontal of one slot, in place.
Target(name, path) == Rebinds(Lookup(name)) /\ Leads(Lookup(name).value, path) /\ At(heap, Lookup(name).value, path).is = "list"
TargetCell(name, path) == At(heap, Lookup(name).value, path).at
Reshape(cells) ==
  /\ heap' = Collected(cells @@ heap, Bindings)
  /\ UNCHANGED <<globals, locals, inCall, inferred, accepted>>
InsertSlot(name, path, k) ==
  /\ Target(name, path)
  /\ LET r    == TargetCell(name, path)
         type == Merged(ElementType(Lookup(name), path), TypeOf(heap, ListAt(r)))
     IN  /\ Known(type) /\ Len(heap[r]) < MaxLength /\ k \in 1..Len(heap[r]) + 1
         /\ Reshape(r :> InsertAt(heap[r], k, Empty(Tail(type))))
RemoveSlot(name, path, k) ==
  /\ Target(name, path) /\ k \in DOMAIN heap[TargetCell(name, path)]
  /\ Reshape(TargetCell(name, path) :> RemoveAt(heap[TargetCell(name, path)], k))
\* list_remove_vertical: a column moves up from below, its last cell becomes EMPTY.
RemoveVertical(name, column, row) ==
  /\ Target(name, <<>>)
  /\ LET rows == heap[TargetCell(name, <<>>)]
         type == Merged(ElementType(Lookup(name), <<1, 1>>), Longest({TypeOf(heap, w) : w \in UNION {Range(heap[v.at]) : v \in {u \in Range(rows) : u.is = "list"}}}))
         below(k) == IF k < Len(rows) THEN heap[rows[k + 1].at][column] ELSE Empty(type)
         moved(r) == [heap[r] EXCEPT ![column] = below(CHOOSE k \in row..Len(rows) : rows[k].at = r)]
     IN  /\ row \in DOMAIN rows /\ type # <<>>
         /\ \A k \in row..Len(rows) : rows[k].is = "list" /\ column \in DOMAIN heap[rows[k].at]
         /\ Reshape([r \in {rows[k].at : k \in row..Len(rows)} |-> moved(r)])

\* _call of a SEP with one parameter, typed or not (<<>>); it may fail as the
\* parameter is bound.
Recorded_Never(type) == inferred
Recorded(type) == IF inferred = <<>> \/ (inferred = <<"list">> /\ Known(type)) THEN type ELSE inferred
Call(name, declared, e) ==
  LET value == IF declared = <<>> THEN e ELSE Prepared(e, declared)
      type  == TypeOf(value.heap, value.value)
  IN  /\ ~inCall /\ (Present(e.value) \/ e.value.is = "empty")
      /\ IF declared = <<>> THEN e.value # Empty(<<>>) ELSE Takes(e, declared)
      /\ Homogeneous(value.heap, value.value)
      /\ inferred # <<>> => inferred[1] = type[1] /\ Compatible(inferred, type)
      /\ inferred' = Recorded(type) /\ accepted' = accepted \cup {type}
      /\ IF Placed(value.heap, value.value, type)
         THEN LET copy == Copy(value.heap, value.value, type)
              IN  /\ locals' = (name :> Binding(copy.value, IF declared = <<>> THEN type ELSE declared, FALSE))
                  /\ inCall' = TRUE /\ heap' = Collected(copy.heap, Range(globals) \cup Range(locals'))
         ELSE UNCHANGED <<heap, locals, inCall>>
      /\ UNCHANGED globals
Leave ==
  /\ inCall /\ inCall' = FALSE /\ locals' = <<>>
  /\ heap' = Collected(heap, Range(globals)) /\ UNCHANGED <<globals, inferred, accepted>>

----------------------------------------------------------------------------
BindingsInit ==
  /\ heap = <<>> /\ globals = <<>> /\ locals = <<>> /\ inCall = FALSE
  /\ inferred = <<>> /\ accepted = {} /\ steps = 0

BindingsNext ==
  \/ /\ steps < MaxSteps /\ steps' = steps + 1
     /\ \/ \E name \in Identifiers, e \in Expressions :
             \/ Assign(name, e) \/ DefineConst(name, e)
             \/ \E type \in Types, constant \in BOOLEAN : DefineTyped(name, type, e, constant)
             \/ \E type \in Types \cup {<<>>} : Call(name, type, e)
        \/ \E name \in Identifiers, e \in ObjectExpressions : Assign(name, e)
        \/ \E name \in Visible, path \in Paths, e \in Expressions : AssignIndex(name, path, e)
        \/ \E name \in Visible, path \in {<<>>} \cup {<<i>> : i \in 1..MaxLength}, k \in 1..MaxLength :
             InsertSlot(name, path, k) \/ RemoveSlot(name, path, k)
        \/ \E name \in Visible, column \in 1..MaxLength, row \in 1..MaxLength : RemoveVertical(name, column, row)
  \/ Leave /\ UNCHANGED steps

----------------------------------------------------------------------------
Variables == {b \in Bindings : ~b.constant}

\* A variable always holds a value of its type, EMPTY included, all the way down,
\* and a constant is never EMPTY.
BindingsTypeOK ==
  /\ \A b \in Variables : /\ Homogeneous(heap, b.value) /\ Compatible(TypeOf(heap, b.value), b.type)
                          /\ Len(TypeOf(heap, b.value)) <= Len(b.type)
  /\ \A b \in Bindings \ Variables : Present(b.value)

\* An assignment copies: no list is of two variables or twice in one, so that a
\* shape operation changes one variable only.
Trees(v) ==
  v.is = "list" => \A i, j \in DOMAIN heap[v.at] :
                     i # j /\ heap[v.at][i].is = "list" => heap[v.at][i].at # heap[v.at][j].at
RECURSIVE ListsOf(_)
ListsOf(v) == IF v.is # "list" THEN {} ELSE {v.at} \cup UNION {ListsOf(w) : w \in Range(heap[v.at])}
OwnLists ==
  /\ \A b \in Variables : b.value.is = "list" => Trees(b.value)
  /\ \A scope \in {globals, locals} : \A n, m \in DOMAIN scope :
       n # m /\ ~scope[n].constant /\ ~scope[m].constant =>
         ListsOf(scope[n].value) \cap ListsOf(scope[m].value) = {}

\* The type of a variable is fixed: it only gains the element type it lacked, and a
\* constant keeps value and type.
Fixed(scope, next) ==
  \A n \in DOMAIN scope : n \in DOMAIN next =>
    /\ IsPrefix(scope[n].type, next[n].type)
    /\ scope[n].constant => next[n] = scope[n]
TypesFixed == [][Fixed(globals, globals') /\ Fixed(locals, locals')]_bindingVars

\* "inferred by its first call": all arguments that a SEP was called with are of one
\* type, as far as the elements of the list.
ArgumentsAgree == Agree({SubSeq(t, 1, Min({2, Len(t)})) : t \in accepted})

\* objects.py: "Immutable Separan object values".  They are not: a list that is put
\* in a field stays the list of the variable it came from.
ObjectsImmutable ==
  [][\A b \in Bindings : b.value.is = "object" /\ b.value.at \in DOMAIN heap' =>
       \A r \in Cells(heap, b.value) : r \in DOMAIN heap' => heap'[r] = heap[r]]_bindingVars

\* All of these together: variables keep their types and own their lists.
BindingsKept == [](BindingsTypeOK /\ OwnLists /\ ArgumentsAgree) /\ TypesFixed
=============================================================================
