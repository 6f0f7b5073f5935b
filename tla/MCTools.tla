-------------------------------- MODULE MCTools --------------------------------
(***************************************************************************)
(* The tools around the language for TLC: the language server, the         *)
(* validation of embedded programs and the firmware they become.  They     *)
(* share no state, so one check looks at the behaviours of each, with the  *)
(* others at a start of theirs.                                            *)
(***************************************************************************)
EXTENDS EditorBlocks, Workspace, Embedded, Firmware

VARIABLE part  \* the module whose steps the behaviour takes
Parts == {"blocks", "workspace", "embedded", "firmware"}

MCBelow == [f \in WorkspaceFiles |-> IF f = "f" THEN WorkspaceFiles ELSE {f}]

\* One start of the modules that have several, for when another one moves.
NoFolder == ~rooted
OneBoard == target = "none" /\ allowed = Boards
OneProgram == ~global /\ calls = NoCalls

Init ==
  /\ part \in Parts
  /\ EditorInit
  /\ WorkspaceInit /\ (part # "workspace" => NoFolder)
  /\ EmbeddedInit /\ (part # "embedded" => OneBoard)
  /\ FirmwareInit /\ (part # "firmware" => OneProgram)
Next ==
  /\ UNCHANGED part
  /\ \/ part = "blocks" /\ EditorNext /\ UNCHANGED <<workspaceVars, embeddedVars, firmwareVars>>
     \/ part = "workspace" /\ WorkspaceNext /\ UNCHANGED <<editorVars, embeddedVars, firmwareVars>>
     \/ part = "embedded" /\ EmbeddedNext /\ UNCHANGED <<editorVars, workspaceVars, firmwareVars>>
     \/ part = "firmware" /\ FirmwareNext /\ UNCHANGED <<editorVars, workspaceVars, embeddedVars>>
Spec == Init /\ [][Next]_<<part, editorVars, workspaceVars, embeddedVars, firmwareVars>>
=============================================================================
