-------------------------------- MODULE Imports --------------------------------
(***************************************************************************)
(* Imports of reference/separan/interpreter.py: a program of several files *)
(* is executed, with the import stack and the module cache that all of its *)
(* interpreters share.                                                     *)
(*                                                                         *)
(* A file is a list of imports, which the parser allows at its beginning   *)
(* only, and the statements after them, which count as one.  An operator   *)
(* named X_Mistake is X with one mistake in it; no action uses it, it      *)
(* shows which property would notice.                                      *)
(***************************************************************************)
EXTENDS Naturals, Sequences, FiniteSets, SequencesExt

CONSTANTS Files,      \* the files of the program
          Root,       \* the one that is run
          MaxImports  \* bound: imports of a file

ASSUME ImportsAssumption == IsFiniteSet(Files) /\ Root \in Files /\ MaxImports \in Nat

VARIABLES
  imports,  \* the imports of each file
  fault,    \* what is wrong with each file
  running,  \* the interpreters at work: what they run and which import is next
  importing,\* the import stack: files
  cache,    \* the modules that are loaded
  ran,      \* files in the order in which their statements were executed
  outcome   \* how the program ended

importVars == <<imports, fault, running, importing, cache, ran, outcome>>

ImportLists == UNION {[1..n -> Files] : n \in 0..MaxImports}
\* The file is missing, does not parse, gives two imports one alias, or its
\* statements raise an error.
Faults == {"none", "unreadable", "refused", "clash", "raises"}
Work(file) == [file |-> file, next |-> 1]
Now == Last(running)

\* run begins: the root without a place on the stack.
ImportsInit ==
  /\ imports \in [Files -> ImportLists]
  /\ fault \in [Files -> Faults] /\ Cardinality({f \in Files : fault[f] # "none"}) <= 1 /\ fault[Root] \notin {"unreadable", "refused"}
  /\ running = <<Work(Root)>>
  /\ importing = <<>> /\ cache = {} /\ ran = <<>> /\ outcome = "none"

\* An error leaves all interpreters; each takes its file off the stack.
Fail(code) ==
  /\ outcome' = code /\ running' = <<>> /\ importing' = <<>>
  /\ UNCHANGED <<imports, fault, cache, ran>>

\* define_const of the alias, once the module is there.
BindAlias ==
  IF fault[Now.file] = "clash" /\ Now.next > 1 THEN Fail("E210")
  ELSE running' = [running EXCEPT ![Len(running)].next = @ + 1] /\ UNCHANGED <<imports, fault, importing, cache, ran, outcome>>

\* _import: what is on the stack is not imported again, what is in the cache is
\* not read again.
BeingImported_LastOnly(file) == importing # <<>> /\ Last(importing) = file
BeingImported(file) == file \in Range(importing)
Begin(file) ==
  IF fault[file] \in {"unreadable", "refused"}
  THEN Fail(IF fault[file] = "refused" THEN "E100" ELSE "E705")
  ELSE /\ running' = Append(running, Work(file)) /\ importing' = Append(importing, file)
       /\ UNCHANGED <<imports, fault, cache, ran, outcome>>
Import_PartlyLoaded ==
  /\ running # <<>> /\ Now.next <= Len(imports[Now.file])
  /\ LET file == imports[Now.file][Now.next]
     IN  IF BeingImported(file) \/ file \in cache THEN BindAlias ELSE Begin(file)
Import ==
  /\ running # <<>> /\ Now.next <= Len(imports[Now.file])
  /\ LET file == imports[Now.file][Now.next]
     IN  IF BeingImported(file) THEN Fail("E701") ELSE IF file \in cache THEN BindAlias ELSE Begin(file)

\* The statements of a file; then the module is in the cache, and the import that
\* asked for it goes on with its alias.
Loaded_Never(file) == cache
Loaded(file) == cache \cup {file}
Statements ==
  /\ running # <<>> /\ Now.next > Len(imports[Now.file])
  /\ IF fault[Now.file] = "raises" THEN Fail("raised")
     ELSE /\ ran' = Append(ran, Now.file)
          /\ running' = Front(running)
          /\ IF Len(running) = 1 THEN outcome' = "done" /\ UNCHANGED <<importing, cache>>
             ELSE cache' = Loaded(Now.file) /\ importing' = Front(importing) /\ UNCHANGED outcome
          /\ UNCHANGED <<imports, fault>>

ImportsNext == Import \/ Statements

ImportsSpec == ImportsInit /\ [][ImportsNext]_importVars

----------------------------------------------------------------------------
\* Which files a file imports; and, directly or not: the least set with those and all
\* that its members import.
Targets(file) == Range(imports[file])
Closed(set) == set \subseteq Files /\ \A f \in set : Targets(f) \subseteq set
Reach(file) == {g \in Files : \A set \in SUBSET Files : Targets(file) \subseteq set /\ Closed(set) => g \in set}
Cyclic == \E f \in {Root} \cup Reach(Root) : f \in Reach(f)

\* The stack is the files at work, each once; a loaded module is not at work; and
\* an import goes to another file or the program ends.
ImportsTypeOK ==
  /\ outcome = "none" => importing = [k \in 1..Len(running) - 1 |-> running[k + 1].file]
  /\ IsInjective(importing) /\ Range(importing) \cap cache = {}
  /\ Len(running) <= Cardinality(Files) + 1

\* Every file runs once, after all the files it imports, and no statement before
\* its imports are complete.
EachOnce ==
  /\ \A i, j \in DOMAIN ran : i # j => ran[i] # ran[j]
  /\ \A i \in DOMAIN ran : Targets(ran[i]) \subseteq Range(SubSeq(ran, 1, i - 1))

\* A circle of imports, the root included, is always refused before a statement of
\* a file in it is executed; and a program without one is never refused for it.
CirclesRefused ==
  /\ outcome = "E701" => Cyclic
  /\ outcome = "done" => ~Cyclic /\ Range(ran) = {Root} \cup Reach(Root)
  /\ \A i \in DOMAIN ran : ran[i] \notin Reach(ran[i])

\* All three: the stack, the cache and what was executed agree with the imports.
ImportsKept == ImportsTypeOK /\ EachOnce /\ CirclesRefused
=============================================================================
