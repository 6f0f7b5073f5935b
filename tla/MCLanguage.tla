------------------------------ MODULE MCLanguage ------------------------------
(***************************************************************************)
(* The modules of the language for TLC.  They share no state, so one check *)
(* looks at the behaviours of each, with the others at a start of theirs.  *)
(***************************************************************************)
EXTENDS Blocks, Structure, Bindings, Imports, Handling, Expressions

CONSTANTS x, y
MCIdentifiers == {x, y}
MCTypes == {<<"number">>, <<"list", "number">>, <<"list", "list", "number">>}
MCCategories == {"command_timeout_error", "command_error", "process_error", "io_error"}
MCKindOf == [c \in {"command_timeout_error", "command_error"} |->
               IF c = "command_error" THEN "process_error" ELSE "command_error"]
IdentifiersPermuted == Permutations(MCIdentifiers)

VARIABLE part  \* the module whose steps the behaviour takes
Parts == {"blocks", "structure", "bindings", "imports", "handling", "expressions"}

\* One start of the modules that have several, for when another one moves.
NothingReviewed == before = <<>>
NothingImported == \A f \in Files : imports[f] = <<>> /\ fault[f] = "none"

Init ==
  /\ part \in Parts
  /\ BlocksInit /\ BindingsInit /\ HandlingInit /\ ExpressionsInit
  /\ StructureInit /\ (part # "structure" => NothingReviewed)
  /\ ImportsInit /\ (part # "imports" => NothingImported)
Next ==
  /\ UNCHANGED part
  /\ \/ part = "blocks" /\ BlocksNext
        /\ UNCHANGED <<structureVars, bindingVars, importVars, handlingVars, expressionVars>>
     \/ part = "structure" /\ StructureNext
        /\ UNCHANGED <<blockVars, bindingVars, importVars, handlingVars, expressionVars>>
     \/ part = "bindings" /\ BindingsNext
        /\ UNCHANGED <<blockVars, structureVars, importVars, handlingVars, expressionVars>>
     \/ part = "imports" /\ ImportsNext
        /\ UNCHANGED <<blockVars, structureVars, bindingVars, handlingVars, expressionVars>>
     \/ part = "handling" /\ HandlingNext
        /\ UNCHANGED <<blockVars, structureVars, bindingVars, importVars, expressionVars>>
     \/ part = "expressions" /\ ExpressionsNext
        /\ UNCHANGED <<blockVars, structureVars, bindingVars, importVars, handlingVars>>
Spec == Init /\ [][Next]_<<part, blockVars, structureVars, bindingVars, importVars, handlingVars, expressionVars>>
=============================================================================
