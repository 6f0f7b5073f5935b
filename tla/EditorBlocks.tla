----------------------------- MODULE EditorBlocks -----------------------------
(***************************************************************************)
(* What the language server makes of the blocks of a document              *)
(* (analyze_blocks of reference/separan/lsp_analysis.py, and its users in  *)
(* lsp.py), next to what the parser makes of it (Blocks), while the author *)
(* writes it: outline, folding, the closers offered, label rename and the  *)
(* formatter.                                                              *)
(*                                                                         *)
(* An operator named X_Mistake is X with one mistake in it; no action uses *)
(* it, it shows which property would notice.                               *)
(***************************************************************************)
EXTENDS Blocks

CONSTANTS EditorKinds, MaxLines  \* kinds of blocks written; bound: lines

ASSUME EditorAssumption == EditorKinds \subseteq Kinds /\ MaxLines \in Nat

VARIABLE doc  \* the lines of the document

editorVars == <<blockVars, doc>>

\* list<string> times = ["10:30"]: a typed declaration that ends in a colon and one more word.
TypedLine == Line("typed", "list", "30")
Typed == \E n \in DOMAIN doc : doc[n] = TypedLine

----------------------------------------------------------------------------
(* analyze_blocks.  A block: where it begins and ends (0: nowhere), the    *)
(* SEP-local labels used in it and the lines its label occurs on.          *)

Item(line, n) == [kind |-> line.kind, label |-> line.label, line |-> n, end |-> 0, used |-> {}, at |-> {n}]

\* OPEN_RE looks at the first word and at what follows the last colon.
LooksOpen(line) == line.what \in {"open", "typed"}

\* The SEP whose numbers a label is looked up in: the innermost that is open.
Holder_First(a) == LET seps == {k \in Range(a.open) : a.items[k].kind = "SEP"} IN IF seps = {} THEN 0 ELSE Min(seps)
Holder(a)       == LET seps == {k \in Range(a.open) : a.items[k].kind = "SEP"} IN IF seps = {} THEN 0 ELSE Max(seps)
Numbered(line) == line.label \in SepLocal

OpenItem(a, line, n) ==
  LET sep == Holder(a)
      noted == IF Numbered(line) /\ sep # 0 THEN [a.items EXCEPT ![sep].used = @ \cup {line.label}] ELSE a.items
  IN  IF Numbered(line) /\ sep # 0 /\ line.label \in a.items[sep].used THEN a
      ELSE [items |-> Append(noted, Item(line, n)), open |-> Append(a.open, Len(noted) + 1)]
\* An occurrence of the label of the innermost block.
Occurs(a, line) == a.open # <<>> /\ a.items[Last(a.open)].label = line.label
BranchItem_Unmarked(a, line, n) == a
BranchItem(a, line, n) == IF Occurs(a, line) THEN [a EXCEPT !.items[Last(a.open)].at = @ \cup {n}] ELSE a
CloseItem(a, line, n) ==
  IF Occurs(a, line) /\ a.items[Last(a.open)].kind = line.kind
  THEN [items |-> [a.items EXCEPT ![Last(a.open)].at = @ \cup {n}, ![Last(a.open)].end = n], open |-> Front(a.open)]
  ELSE a
AnalyzeLine(a, n, line) ==
  CASE LooksOpen(line)      -> OpenItem(a, line, n)
    [] line.what = "branch" -> BranchItem(a, line, n)
    [] line.what = "close"  -> CloseItem(a, line, n)
    [] OTHER                -> a
\* What it knows after each line.
Analysis(lines) ==
  LET a[n \in 0..Len(lines)] ==
        IF n = 0 THEN [items |-> <<>>, open |-> <<>>] ELSE AnalyzeLine(a[n - 1], n, lines[n])
  IN  a
AnalyzeBlocks(lines) == Analysis(lines)[Len(lines)]

\* label_edits: SEP, object and list names are not renamed.
Renamable == {"http_route", "if", "try", "while"}
LabelEdits(item, label) == [n \in DOMAIN doc |-> IF n \in item.at THEN [doc[n] EXCEPT !.label = label] ELSE doc[n]]
\* completions: the closers of the open blocks, innermost first.
ClosersOffered(lines) ==
  LET a == AnalyzeBlocks(lines)
  IN  Reverse([k \in DOMAIN a.open |-> Line("close", a.items[a.open[k]].kind, a.items[a.open[k]].label)])
\* format_source: how deep the line after these lines is indented.
Dedented(depth) == IF depth = 0 THEN 0 ELSE depth - 1
IndentLine_BranchKept(depth, line) ==
  IF line.what = "close" THEN Dedented(depth) ELSE IF LooksOpen(line) \/ line.what = "branch" THEN depth + 1 ELSE depth
IndentLine(depth, line) ==
  IF line.what = "close" THEN Dedented(depth)
  ELSE IF LooksOpen(line) THEN depth + 1
  ELSE IF line.what = "branch" THEN Dedented(depth) + 1 ELSE depth
Indents(lines) ==
  LET depth[n \in 0..Len(lines)] == IF n = 0 THEN 0 ELSE IndentLine(depth[n - 1], lines[n])
  IN  depth
Indent(lines) == Indents(lines)[Len(lines)]

----------------------------------------------------------------------------
(* The blocks of the parser, with their first and last lines.              *)
ParseLine(p, n, line) ==
  IF ~p.ok \/ ~Accepts(line, p.open) THEN [p EXCEPT !.ok = FALSE]
  ELSE [p EXCEPT !.open = After(line, @, {}),
                 !.since = IF line.what = "open" THEN Append(@, n) ELSE IF line.what = "close" THEN Front(@) ELSE @,
                 !.nodes = IF line.what = "close" THEN @ \cup {[kind |-> line.kind, label |-> line.label, line |-> Last(p.since), end |-> n]} ELSE @]
Parses(lines) ==
  LET p[n \in 0..Len(lines)] ==
        IF n = 0 THEN [ok |-> TRUE, open |-> <<>>, since |-> <<>>, nodes |-> {}] ELSE ParseLine(p[n - 1], n, lines[n])
  IN  p
Parsed(lines) == Parses(lines)[Len(lines)]
IsProgram(lines) == Parsed(lines).ok /\ Parsed(lines).open = <<>>

----------------------------------------------------------------------------
EditorInit == BlocksInit /\ doc = <<>>
Written(line) == (line.kind \in EditorKinds \/ line.what = "branch") /\ doc' = Append(doc, line)
EditorNext ==
  /\ ~ended
  /\ \/ EndOfFile /\ UNCHANGED doc
     \/ /\ Len(doc) < MaxLines /\ UNCHANGED ended
        /\ \/ \E line \in Legal : Written(line) /\ Write(line)
           \/ doc' = Append(doc, TypedLine) /\ Write(TypedLine)
           \/ \E line \in {l \in Legal : Structural(l)} : LeaveOut(line) /\ line.kind \in EditorKinds /\ UNCHANGED doc
           \/ \E line \in Openers \cup Closers : Written(line) /\ AddLine(line)
           \/ \E meant \in {l \in Legal : Structural(l)}, line \in Openers \cup Closers :
                meant.kind \in EditorKinds /\ Written(line) /\ Mistake(line, meant)

----------------------------------------------------------------------------
\* The outline, the folding and the indentation are those of the parser, as long as it
\* accepts the document.
OutlineAgrees ==
  LET a == AnalyzeBlocks(doc)
      p == Parsed(doc)
  IN  p.ok /\ ~Typed =>
        /\ {[kind |-> i.kind, label |-> i.label, line |-> i.line, end |-> i.end] : i \in {j \in Range(a.items) : j.end # 0}} = p.nodes
        /\ [k \in DOMAIN a.open |-> a.items[a.open[k]].line] = p.since
        /\ Indent(doc) = Len(p.open)

\* Whatever is wrong with the declarations above it, in a declaration without a mistake
\* the first closers that are offered are those of the blocks the author has open.
ClosersFit ==
  clean /\ ~Typed =>
    LET offered == ClosersOffered(doc)
    IN  /\ Len(offered) >= Len(intent)
        /\ \A k \in DOMAIN intent : offered[Len(intent) + 1 - k] = Line("close", intent[k].kind, intent[k].label)

\* Renaming the label of a block in a program leaves a program with the same blocks, if
\* no block around it or in it has the label (nor, of the form _1_, any of the SEP).
Place(item) == [line |-> item.line, end |-> item.end, kind |-> item.kind]
FreeLabel(item, label) ==
  LET related == {i \in Parsed(doc).nodes : (i.line < item.line /\ i.end > item.end) \/ (i.line > item.line /\ i.end < item.end)}
      sep == {i \in related : i.kind = "SEP"}
  IN  /\ label \notin {i.label : i \in related}
      /\ label \in SepLocal => sep # {} /\ \A s \in sep : \A i \in Parsed(doc).nodes : i.line > s.line /\ i.end < s.end => i.label # label
RenamesWell(item, label) ==
  LET renamed == LabelEdits(item, label)
  IN  /\ FreeLabel(item, label) => IsProgram(renamed)
      /\ IsProgram(renamed) => {Place(i) : i \in Parsed(renamed).nodes} = {Place(i) : i \in Parsed(doc).nodes}
RenameWhole ==
  ended /\ IsProgram(doc) =>
    \A item \in {i \in Range(AnalyzeBlocks(doc).items) : i.kind \in Renamable} : \A label \in Labels \ {item.label} : RenamesWell(item, label)
RenameSafe == ~Typed => RenameWhole

\* All three: what the editor shows, offers and renames is what the parser sees.
EditorKept == OutlineAgrees /\ ClosersFit /\ RenameSafe
=============================================================================
