------------------------------- MODULE Workspace -------------------------------
(***************************************************************************)
(* The files of a workspace as the language server sees them               *)
(* (reference/separan/lsp.py): open documents over files on disk,          *)
(* references and call hierarchy across imports, and the rename of a       *)
(* semantic tag.  A file imports one other as "m".                         *)
(*                                                                         *)
(* An operator named X_Mistake is X with one mistake in it; no action uses *)
(* it, it shows which property would notice.                               *)
(***************************************************************************)
EXTENDS Integers, FiniteSets

CONSTANTS WorkspaceFiles,
          Below,     \* the files in the directory of a file and below it
          SepNames, Tags,
          MaxEdits   \* bound: changes of texts

ASSUME WorkspaceAssumption ==
  /\ IsFiniteSet(WorkspaceFiles) /\ "none" \notin WorkspaceFiles
  /\ IsFiniteSet(SepNames) /\ "top" \notin SepNames
  /\ Below \in [WorkspaceFiles -> SUBSET WorkspaceFiles] /\ \A f \in WorkspaceFiles : f \in Below[f]
  /\ MaxEdits \in Nat

VARIABLES
  disk,      \* texts
  documents, \* texts of the files that are open
  rooted,    \* the client has named a folder: the one of all files
  edits      \* changes so far

workspaceVars == <<disk, documents, rooted, edits>>

\* A text parses, has an error of the parser only, or of the lexer; it has SEPs
\* with tags, calls of SEPs in a SEP or outside, and imports a file as "m" or none.
States == {"parses", "lexes", "garbled"}
EmptyText == [state |-> "parses", seps |-> {}, tags |-> [s \in SepNames |-> [t \in Tags |-> 0]], calls |-> {}, import |-> "none"]
\* s(), m.s() and box.m.s(): of the file, of the imported file, of a field of a value.
CallAt(in, via, to) == [in |-> in, via |-> via, to |-> to]
AllCalls == {CallAt(in, via, to) : in \in SepNames \cup {"top"}, via \in {"own", "m", "box.m"}, to \in SepNames}

----------------------------------------------------------------------------
(* The server.                                                             *)

\* Some texts over others.
Over(top, base) == [f \in DOMAIN top \cup DOMAIN base |-> IF f \in DOMAIN top THEN top[f] ELSE base[f]]
Overlaid_DiskFirst(texts) == Over(texts, documents)
Overlaid(texts) == Over(documents, texts)
WorkspaceSources(current) ==
  LET found == IF rooted THEN WorkspaceFiles ELSE Below[current]
  IN  Overlaid([f \in found |-> disk[f]])

Indexed(sources) == {f \in DOMAIN sources : sources[f].state # "garbled"}
WorkspacePrograms(sources) == {f \in DOMAIN sources : sources[f].state = "parses"}

\* logic_references reads tokens: a name before a parenthesis, alone or after "m .".
TokenTarget(f, text, call) == IF call.via = "own" THEN f ELSE text.import
LogicReferences(current, f, name) ==
  LET sources == WorkspaceSources(current)
  IN  IF f \notin Indexed(sources) \/ name \notin sources[f].seps THEN {}
      ELSE {[file |-> g, call |-> c] : g \in Indexed(sources), c \in AllCalls}
           \cap UNION {{[file |-> g, call |-> c] : c \in {d \in sources[g].calls : d.to = name /\ TokenTarget(g, sources[g], d) = f}} : g \in Indexed(sources)}
\* Asked with the cursor on a call.
ReferencesAt(place) ==
  LET sources == WorkspaceSources(place.file)
  IN  IF place.file \notin Indexed(sources) THEN {}
      ELSE LogicReferences(place.file, TokenTarget(place.file, sources[place.file], place.call), place.call.to)

\* The call hierarchy reads the program: the calls in SEPs, of files that parse.
CalledLogic_AnyMember(f, text, call) == <<IF call.via = "own" THEN f ELSE text.import, call.to>>
CalledLogic(f, text, call) ==
  <<CASE call.via = "own" -> f [] call.via = "m" -> text.import [] OTHER -> "none", call.to>>
InSep(call) == call.in # "top"
Prepared(f, name) ==
  LET sources == WorkspaceSources(f) IN f \in WorkspacePrograms(sources) /\ name \in sources[f].seps
IncomingCalls(f, name) ==
  LET sources == WorkspaceSources(f)
  IN  UNION {{[file |-> g, call |-> c] : c \in {d \in sources[g].calls : InSep(d) /\ CalledLogic(g, sources[g], d) = <<f, name>>}} : g \in WorkspacePrograms(sources)}
OutgoingCalls(f, name) ==
  LET sources == WorkspaceSources(f)
      callees == {CalledLogic(f, sources[f], c) : c \in {d \in sources[f].calls : d.in = name}}
  IN  {callee \in callees : callee[1] \in WorkspacePrograms(sources) /\ callee[2] \in sources[callee[1]].seps}
\* reference_code_lenses: the count above a SEP of a file that parses.
CountShown(f, name) == Cardinality(LogicReferences(f, f, name))

\* semantic_tag_workspace_edits: nothing if a SEP of a file that parses has both tags.
HasTag(text, tag) == \E s \in text.seps : text.tags[s][tag] > 0
Merges_Current(current, sources, old, new) ==
  current \in WorkspacePrograms(sources) /\ \E s \in sources[current].seps : sources[current].tags[s][old] > 0 /\ sources[current].tags[s][new] > 0
Merges(current, sources, old, new) ==
  \E f \in WorkspacePrograms(sources) : \E s \in sources[f].seps : sources[f].tags[s][old] > 0 /\ sources[f].tags[s][new] > 0
Retagged(text, old, new) ==
  [text EXCEPT !.tags = [s \in SepNames |-> [text.tags[s] EXCEPT ![new] = @ + text.tags[s][old], ![old] = 0]]]

----------------------------------------------------------------------------
(* The client: what it shows, and its changes.                             *)
Shown == Over(documents, disk)

Edited(text) ==
  {[text EXCEPT !.seps = @ \cup {s}] : s \in SepNames \ text.seps}
  \cup {[text EXCEPT !.calls = @ \cup {c}] : c \in {d \in AllCalls \ text.calls : InSep(d) => d.in \in text.seps}}
  \cup {[text EXCEPT !.tags[s][t] = 1] : s \in text.seps, t \in {u \in Tags : \A v \in text.seps : text.tags[v][u] = 0}}
  \cup {[text EXCEPT !.import = f] : f \in WorkspaceFiles \ {text.import}}
  \cup {[text EXCEPT !.state = state] : state \in States \ {text.state}}
Edit == edits < MaxEdits /\ edits' = edits + 1

DidOpen(f) ==
  /\ f \notin DOMAIN documents
  /\ documents' = Over([g \in {f} |-> disk[f]], documents)
  /\ UNCHANGED <<disk, rooted, edits>>
DidChange(f) ==
  /\ f \in DOMAIN documents /\ Edit
  /\ \E text \in Edited(documents[f]) : documents' = [documents EXCEPT ![f] = text]
  /\ UNCHANGED <<disk, rooted>>
DidClose(f) ==
  /\ f \in DOMAIN documents /\ documents' = [g \in DOMAIN documents \ {f} |-> documents[g]]
  /\ UNCHANGED <<disk, rooted, edits>>
Save(f) == f \in DOMAIN documents /\ disk' = [disk EXCEPT ![f] = documents[f]] /\ UNCHANGED <<documents, rooted, edits>>
\* Another program writes the file.
WriteFile(f) ==
  /\ Edit /\ \E text \in Edited(disk[f]) : disk' = [disk EXCEPT ![f] = text]
  /\ UNCHANGED <<documents, rooted>>
\* The edits of a tag rename, applied to the texts that are shown.
RenameTag(current, old, new) ==
  LET sources == WorkspaceSources(current)
      changed == {f \in Indexed(sources) : HasTag(sources[f], old)}
  IN  /\ Edit /\ ~Merges(current, sources, old, new) /\ changed # {}
      /\ documents' = [f \in DOMAIN documents |-> IF f \in changed THEN Retagged(documents[f], old, new) ELSE documents[f]]
      /\ disk' = [f \in WorkspaceFiles |-> IF f \in changed \ DOMAIN documents THEN Retagged(disk[f], old, new) ELSE disk[f]]
      /\ UNCHANGED rooted

WorkspaceInit == disk = [f \in WorkspaceFiles |-> EmptyText] /\ documents = <<>> /\ rooted \in BOOLEAN /\ edits = 0
WorkspaceNext ==
  \/ \E f \in WorkspaceFiles : DidOpen(f) \/ DidChange(f) \/ DidClose(f) \/ Save(f) \/ WriteFile(f)
  \/ \E f \in WorkspaceFiles, old, new \in Tags : old # new /\ RenameTag(f, old, new)

----------------------------------------------------------------------------
\* The references of a SEP are calls in the texts that are shown, and asking at any of
\* them gives all of them again.
ReferencesAgree ==
  \A f \in WorkspaceFiles, name \in SepNames :
    LET places == LogicReferences(f, f, name)
    IN  /\ \A p \in places : p.call \in Shown[p.file].calls
        /\ rooted => \A p \in places : ReferencesAt(p) = places

\* The incoming calls of a SEP are its references in SEPs of files that parse, other
\* than calls of fields; outgoing calls are the converse; and where all files parse and
\* there are no calls of fields, the count above it is of them and of the calls outside SEPs.
HierarchyAgrees ==
  \A f \in WorkspaceFiles, name \in SepNames : Prepared(f, name) =>
    LET references == LogicReferences(f, f, name)
        sources == WorkspaceSources(f)
    IN  /\ IncomingCalls(f, name) = {p \in references : InSep(p.call) /\ p.call.via # "box.m" /\ p.file \in WorkspacePrograms(sources)}
        /\ rooted => \A g \in WorkspacePrograms(sources) : \A s \in sources[g].seps :
             (\E p \in IncomingCalls(f, name) : p.file = g /\ p.call.in = s) <=> <<f, name>> \in OutgoingCalls(g, s)
        /\ (\A p \in references : p.file \in WorkspacePrograms(sources) /\ p.call.via # "box.m") =>
             CountShown(f, name) = Cardinality(IncomingCalls(f, name)) + Cardinality({p \in references : ~InSep(p.call)})

\* "collision checks": the rename of a tag does not give a SEP one tag twice (which is
\* refused as E218), in files that parse.
Twice(text) == {s \in SepNames : \E t \in Tags : text.tags[s][t] > 1}
TagsStayApart ==
  [][\A f \in WorkspaceFiles : edits' # edits /\ Shown[f].state = "parses" => Twice(Shown[f]') \subseteq Twice(Shown[f])]_workspaceVars

\* All three: the answers about several files agree with one another and with the texts.
WorkspaceKept == [](ReferencesAgree /\ HierarchyAgrees) /\ TagsStayApart
=============================================================================
