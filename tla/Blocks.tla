-------------------------------- MODULE Blocks --------------------------------
(***************************************************************************)
(* The block structure of reference/separan/parser.py, read by             *)
(* parse_with_diagnostics: labelled blocks, their branches and closers,    *)
(* the errors, and the recovery at the next declaration.                   *)
(*                                                                         *)
(* An author writes line after line of a program that is right, and makes  *)
(* MaxMistakes mistakes with its openers and closers.  The kinds while and *)
(* object stand for the others of their shape: for and transaction; list.  *)
(* An assignment, which may stand anywhere, is the "plain" line.           *)
(*                                                                         *)
(* An operator named X_Mistake is X with one mistake in it; no action uses *)
(* it, it shows which property would notice.                               *)
(***************************************************************************)
EXTENDS Naturals, Sequences, FiniteSets, SequencesExt

CONSTANTS Labels,       \* the labels of blocks
          SepLocal,     \* those of the form _1_, which are used once in a SEP
          MaxUnits,     \* bound: blocks at top level
          MaxDepth,     \* bound: blocks open at once
          MaxMistakes   \* bound: mistakes of the author

ASSUME BlocksAssumption == SepLocal \subseteq Labels /\ MaxUnits \in Nat /\ MaxDepth \in Nat

Kinds    == {"SEP", "http_route", "object", "if", "try", "while"}
Branches == {"elseif", "else", "catch", "catch any", "finally"}
Line(what, kind, label) == [what |-> what, kind |-> kind, label |-> label]
Openers  == {Line("open", kind, label) : kind \in Kinds, label \in Labels}
Closers  == {Line("close", kind, label) : kind \in Kinds, label \in Labels}
BranchLines == {Line("branch", kind, label) : kind \in Branches, label \in Labels}
Plain == Line("plain", "none", "none")

VARIABLES
  stack,      \* the blocks the parser has open
  skipping,   \* the kind of block the recovery looks for the end of
  stale,      \* SEP-local labels left under the identities of dropped SEPs
  diagnosed,  \* there is a diagnostic
  intent,     \* the blocks the author has open
  unit,       \* declarations the author has begun
  local,      \* SEP-local labels of the declaration
  mistakes,   \* mistakes made
  clean,      \* the declaration has none
  lost,       \* a SEP without a mistake was not parsed: with SEP-local labels or without
  ended       \* end of file

parserVars == <<stack, skipping, stale, diagnosed>>
blockVars  == <<parserVars, intent, unit, local, mistakes, clean, lost, ended>>

\* An open block: the branch it is in, those it has had and, of a SEP, the
\* SEP-local labels used.
Block(kind, label, used) ==
  [kind |-> kind, label |-> label, branch |-> "body", seen |-> {}, used |-> used]
Top(blocks) == IF blocks = <<>> THEN Block("none", "none", {}) ELSE Last(blocks)
LabelsOf(blocks) == {blocks[k].label : k \in DOMAIN blocks}

----------------------------------------------------------------------------
(* The parser: what it makes of one line with these blocks open.           *)

\* _statement, _object: where a block may begin.
MayOpen(kind, blocks) ==
  /\ Top(blocks).kind = "object" => kind = "object"
  /\ kind \in {"SEP", "http_route"} => blocks = <<>>
  /\ kind \in {"if", "try", "while"} => blocks # <<>>

\* _push: an open label is not used again, a SEP-local one not in its SEP.
MayPush_Again(label, blocks) ==
  label \in SepLocal => blocks # <<>> /\ blocks[1].kind = "SEP" /\ label \notin blocks[1].used
MayPush(label, blocks) == label \notin LabelsOf(blocks) /\ MayPush_Again(label, blocks)

\* _if, _try and _branch_label: else once and last; no catch twice, none after
\* catch any, none after finally.
MayBranch_CatchFirst(branch, b) ==
  \/ b.kind = "if"  /\ branch \in {"elseif", "else"} /\ b.branch # "else"
  \/ b.kind = "try" /\ branch \in {"catch", "catch any"} /\ b.branch # "finally"
                    /\ branch \notin b.seen /\ "catch any" \notin b.seen
  \/ b.kind = "try" /\ branch = "finally" /\ b.branch # "finally" /\ b.seen # {}
MayBranch(branch, b) ==
  \/ MayBranch_CatchFirst(branch, b)
  \/ b.kind = "try" /\ branch = "finally" /\ b.branch # "finally"

\* _close: the closer of the innermost block's kind, with its label.
MayClose_AnyLabel(line, b) == b.kind = line.kind
MayClose(line, b) == b.kind = line.kind /\ b.label = line.label
\* _try: it has handlers, or is refused once it is closed.
Handled(b) == b.kind = "try" => b.branch # "body"

Accepts(line, blocks) ==
  /\ line.what = "open"   => MayOpen(line.kind, blocks) /\ MayPush(line.label, blocks)
  /\ line.what = "branch" => MayBranch(line.kind, Top(blocks)) /\ line.label = Top(blocks).label
  /\ line.what = "close"  => MayClose(line, Top(blocks)) /\ Handled(Top(blocks))

\* The blocks after a line that is accepted.  The labels that a dropped SEP left
\* are found again if the new one is given its identity.
Opened(line, blocks, leftover) ==
  LET used == IF line.label \in SepLocal
              THEN [blocks EXCEPT ![1].used = @ \cup {line.label}] ELSE blocks
  IN  Append(used, Block(line.kind, line.label, leftover))
Branched(line, blocks) ==
  [blocks EXCEPT ![Len(blocks)].branch = line.kind, ![Len(blocks)].seen = @ \cup {line.kind}]
Continued(line, blocks) ==
  IF line.what = "branch" THEN Branched(line, blocks)
  ELSE IF line.what = "close" THEN Front(blocks) ELSE blocks
After(line, blocks, leftover) ==
  IF line.what = "open" THEN Opened(line, blocks, leftover) ELSE Continued(line, blocks)

\* _recover_top_level: the closer that ends it, unless the error consumed it, or
\* the SEP it stops at.  An error without an open block drops its line only, or
\* all up to the end of a SEP if the line is one.
EndsRecovery(line, kind) == line.what = "close" /\ line.kind = kind
StopsAt_Never(line) == FALSE
StopsAt(line) == line.what = "open" /\ line.kind = "SEP"
Consumed(line) == line.what = "close" /\ Top(stack).kind = line.kind
Outermost(line) ==
  IF stack # <<>> THEN stack[1].kind ELSE IF line.what = "open" THEN line.kind ELSE "nothing"
Recovering(line) ==
  IF Outermost(line) \in {"SEP"} \cup {stack[k].kind : k \in DOMAIN stack}
       /\ ~(EndsRecovery(line, Outermost(line)) /\ ~Consumed(line))
  THEN Outermost(line) ELSE "nothing"
Leftover == {stack[k].used : k \in DOMAIN stack} \ {{}}

Take(line, blocks, leftovers) ==
  /\ \E leftover \in {{}} \cup (IF StopsAt(line) THEN leftovers ELSE {}) :
       /\ stack' = After(line, blocks, leftover)
       /\ stale' \in {leftovers, leftovers \ {leftover}}
  /\ skipping' = "nothing"
Drop(line) ==
  /\ stack' = <<>> /\ skipping' = Recovering(line)
  /\ stale' = stale \cup Leftover
Refuse(line) ==
  /\ diagnosed' = TRUE
  /\ IF StopsAt(line) /\ stack # <<>> /\ Accepts(line, <<>>) THEN Take(line, <<>>, stale \cup Leftover) ELSE Drop(line)
Skip(line) ==
  /\ skipping' = IF EndsRecovery(line, skipping) THEN "nothing" ELSE skipping
  /\ UNCHANGED <<stack, stale, diagnosed>>

\* One line of the file.
Read(line) ==
  IF skipping # "nothing" /\ ~StopsAt(line) THEN Skip(line)
  ELSE IF Accepts(line, stack) THEN Take(line, stack, stale) /\ UNCHANGED diagnosed ELSE Refuse(line)

----------------------------------------------------------------------------
(* The author, by the rules of the language.                               *)

Openable(blocks) ==
  IF blocks = <<>> THEN {"SEP", "http_route", "object"}
  ELSE IF Last(blocks).kind = "object" THEN {"object"} ELSE {"object", "if", "try", "while"}
MayFollow(branch, b) ==
  \/ b.kind = "if"  /\ branch \in {"elseif", "else"} /\ "else" \notin b.seen
  \/ b.kind = "try" /\ branch = "finally" /\ "finally" \notin b.seen
  \/ b.kind = "try" /\ branch \in {"catch", "catch any"} \ b.seen
                    /\ b.seen \cap {"catch any", "finally"} = {}
Legal ==
  {line \in Openers :
     /\ Len(intent) < MaxDepth /\ (intent = <<>> => unit < MaxUnits)
     /\ line.kind \in Openable(intent) /\ line.label \notin LabelsOf(intent)
     /\ line.label \in SepLocal => intent # <<>> /\ intent[1].kind = "SEP" /\ line.label \notin local}
  \cup {line \in BranchLines : intent # <<>> /\ line.label = Last(intent).label
                               /\ MayFollow(line.kind, Last(intent))}
  \cup {line \in Closers : intent # <<>> /\ line.kind = Last(intent).kind /\ line.label = Last(intent).label
                           /\ (line.kind = "try" => Last(intent).seen # {})}
  \cup {Plain}
Structural(line) == line.what \in {"open", "close"}

\* The author means a line, or nothing: what is open then, and what declaration
\* it is in.
Moved(line, blocks) ==
  IF line.what = "open" THEN Append(blocks, Block(line.kind, line.label, {})) ELSE Continued(line, blocks)
Means(line) ==
  LET begins == line.what = "open" /\ intent = <<>>
  IN  /\ intent' = Moved(line, intent)
      /\ unit' = IF begins THEN unit + 1 ELSE unit
      /\ local' = (IF begins THEN {} ELSE local) \cup ({line.label} \cap SepLocal)

\* A right line.  A SEP that was written without a mistake is parsed as its
\* closer is read.
Write(line) ==
  /\ Means(line) /\ Read(line) /\ UNCHANGED mistakes
  /\ clean' = (clean \/ (line.what = "open" /\ intent = <<>>))
  /\ lost' = IF EndsRecovery(line, "SEP") /\ clean /\ (skipping # "nothing" \/ ~Accepts(line, stack))
             THEN IF local = {} THEN "plain" ELSE "local" ELSE lost
Errs(line, meant) ==
  /\ mistakes < MaxMistakes /\ mistakes' = mistakes + 1 /\ clean' = FALSE /\ UNCHANGED lost
  /\ Means(meant) /\ Read(line)
\* A line left out, one too many, or one with another kind or label.
LeaveOut(line) == Errs(Plain, line)
AddLine(line) == Errs(line, Plain)
Mistake(line, meant) == line # meant /\ line.what = meant.what /\ Errs(line, meant)

EndOfFile ==
  /\ intent = <<>> /\ ended' = TRUE
  /\ diagnosed' = (diagnosed \/ stack # <<>>) /\ stack' = <<>>
  /\ UNCHANGED <<skipping, stale, intent, unit, local, mistakes, clean, lost>>

----------------------------------------------------------------------------
BlocksInit ==
  /\ stack = <<>> /\ skipping = "nothing" /\ stale = {} /\ diagnosed = FALSE
  /\ intent = <<>> /\ unit = 0 /\ local = {} /\ mistakes = 0 /\ clean = TRUE /\ lost = "none"
  /\ ended = FALSE

BlocksNext ==
  /\ ~ended
  /\ \/ EndOfFile
     \/ /\ UNCHANGED ended
        /\ \/ \E line \in Legal : Write(line)
           \/ \E line \in {l \in Legal : Structural(l)} : LeaveOut(line)
           \/ \E line \in Openers \cup Closers : AddLine(line)
           \/ \E meant \in {l \in Legal : Structural(l)}, line \in Openers \cup Closers : Mistake(line, meant)

BlocksSpec == BlocksInit /\ [][BlocksNext]_blockVars

----------------------------------------------------------------------------
\* Every variable has its type; no label is open twice, and a SEP contains all
\* that is open with it.
BlocksTypeOK ==
  /\ \A k \in DOMAIN stack : stack[k].kind \in Kinds /\ stack[k].used \subseteq SepLocal
  /\ IsInjective([k \in DOMAIN stack |-> stack[k].label])
  /\ \A k \in DOMAIN stack : stack[k].kind \in {"SEP", "http_route"} => k = 1
  /\ skipping \in Kinds \cup {"nothing"}

\* A right program is parsed without a diagnostic.
RightIsAccepted == mistakes = 0 => ~diagnosed

\* A mistake with one opener or closer, anywhere, is always noticed: no program
\* is silently parsed as one that the author did not mean.
MistakeIsFound == ended /\ mistakes > 0 => diagnosed

\* "error recovery across independent top-level declarations": a SEP without a
\* mistake is parsed, whatever was wrong with those before it.  It is not if it
\* uses a SEP-local label that a broken one has used (SepLocalIndependent).
NextSepParsed == lost # "plain"

\* SEP-local labels are of one SEP: "numbers are unique for the lifetime of their
\* containing SEP" (spec/sep-local-labels.md), those of another do not matter.
SepLocalIndependent == lost = "none"

\* All of these together: what is parsed is what was meant, and nothing else is.
BlocksKept == BlocksTypeOK /\ RightIsAccepted /\ MistakeIsFound /\ NextSepParsed
=============================================================================
