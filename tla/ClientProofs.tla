---------------------------- MODULE ClientProofs ----------------------------
(***************************************************************************)
(* Proofs about the parts of the client that keep something outside the    *)
(* program.  Files: what a reader of a shared file gets, for any programs. *)
(* Lambda: one alert in a window and a configuration that is written once, *)
(* for any workers.  BytecodeCache: what runtimes that share a cache load, *)
(* for any number of starts.  HttpClient: what a chain of redirects        *)
(* carries and where the cookies of the jar go, for any addresses, any     *)
(* max_redirects and whatever servers set and answer.                      *)
(***************************************************************************)
EXTENDS HttpClient, Files, Lambda, BytecodeCache, SequenceTheorems, FiniteSetTheorems,
        NaturalsInduction, WellFoundedInduction, TLAPS

----------------------------------------------------------------------------
(* Files: the temporary file of a program is its own until it is renamed.  *)

\* What a path or a temporary file may hold.
Texts    == [parts : Seq(Nat), whole : {TRUE}]
Stores   == [protection : Protections, jar : Nat, whole : {TRUE}]
Contents == {Absent, Partial} \cup Texts \cup Stores
Tasks    == [name : {"write", "copy", "fill", "move"}, path : Paths, content : Contents]

FilesTyped ==
  /\ files \in [Paths -> Contents] /\ temporary \in [Programs -> Contents]
  /\ doing \in [Programs -> {NoTask} \cup Tasks]
  /\ copied \subseteq Paths /\ written \in Nat /\ crashed \subseteq Programs

Writing(p) == doing[p].name = "write"

\* A temporary file, and what a program is about to write to one, is whole; what is
\* killed does nothing more.
TemporariesWhole == \A p \in Programs : temporary[p] # Absent => temporary[p].whole
WritingWhole == \A p \in Programs : Writing(p) => doing[p].content.whole /\ doing[p].content # Absent
KilledDoNothing == \A p \in crashed : doing[p] = NoTask

FilesInv == /\ FilesTyped /\ TemporariesWhole /\ WritingWhole /\ KilledDoNothing
            /\ WritesWhole /\ TemporariesGo /\ LoadedWithItsKey

LEMMA Whole ==
  /\ Partial.whole = FALSE /\ Partial # Absent
  /\ \A content \in Texts \cup Stores : content.whole = TRUE /\ content # Absent
<1>1. DOMAIN Absent = {"absent"} /\ DOMAIN Partial = {"parts", "whole"}
  BY DEF Absent, Partial
<1>2. \A content \in Texts : DOMAIN content = {"parts", "whole"} /\ content.whole = TRUE
  BY DEF Texts
<1>3. \A content \in Stores : DOMAIN content = {"protection", "jar", "whole"} /\ content.whole = TRUE
  BY DEF Stores
<1>4. "whole" \notin {"absent"}
  OBVIOUS
<1>5. Partial.whole = FALSE
  BY DEF Partial
<1>. QED
  BY <1>1, <1>2, <1>3, <1>4, <1>5

LEMMA TextsAre ==
  ASSUME NEW content \in Contents, content = Absent \/ IsText(content)
  PROVE  (IF content = Absent THEN <<>> ELSE content.parts) \in Seq(Nat)
<1>1. CASE content = Absent
  BY <1>1
<1>2. CASE content \in Stores
  <2>1. DOMAIN content = {"protection", "jar", "whole"}
    BY <1>2 DEF Stores
  <2>2. "parts" \notin {"protection", "jar", "whole"}
    OBVIOUS
  <2>3. content # Absent /\ ~IsText(content)
    BY <1>2, <2>1, <2>2, Whole DEF IsText
  <2>. QED
    BY <2>3
<1>3. CASE content \in Texts
  BY <1>3 DEF Texts
<1>4. CASE content = Partial
  <2>1. Partial.parts = <<>>
    BY DEF Partial
  <2>. QED
    BY <1>4, <2>1, Whole
<1>. QED
  BY <1>1, <1>2, <1>3, <1>4 DEF Contents

LEMMA TaskType ==
  ASSUME FilesTyped, NEW p \in Programs
  PROVE  /\ doing[p] \in {NoTask} \cup Tasks /\ temporary[p] \in Contents
         /\ NoTask.name = "none"
         /\ doing[p].name # "none" => doing[p] \in Tasks
<1>1. NoTask.name = "none"
  BY DEF NoTask
<1>. QED
  BY <1>1 DEF FilesTyped

\* What a program begins to do, or ends, is what it does then.
LEMMA TaskMade ==
  ASSUME NEW name, NEW path, NEW content, NEW p \in Programs, FilesTyped, Task(p, name, path, content),
         name \in {"write", "copy", "fill", "move"}, path \in Paths, content \in Contents
  PROVE  /\ doing' \in [Programs -> {NoTask} \cup Tasks]
         /\ doing'[p].name = name /\ doing'[p].path = path /\ doing'[p].content = content
         /\ \A q \in Programs \ {p} : doing'[q] = doing[q]
<1>1. PICK task : task = [name |-> name, path |-> path, content |-> content]
  OBVIOUS
<1>2. task \in Tasks /\ task.name = name /\ task.path = path /\ task.content = content
  BY <1>1 DEF Tasks
<1>3. doing' = [doing EXCEPT ![p] = task]
  BY <1>1 DEF Task
<1>. QED
  BY <1>2, <1>3 DEF FilesTyped

LEMMA TaskEnded ==
  ASSUME NEW p \in Programs, FilesTyped, Ends(p)
  PROVE  /\ doing' \in [Programs -> {NoTask} \cup Tasks] /\ doing'[p] = NoTask
         /\ \A q \in Programs \ {p} : doing'[q] = doing[q]
  BY DEF Ends, FilesTyped

\* What a step has to show: the invariant is about one program, one path and the
\* last load at a time.
LEMMA FilesStep ==
  ASSUME FilesInv, FilesTyped',
         \A p \in Programs : /\ temporary'[p] # Absent => temporary'[p].whole
                             /\ Writing(p)' => doing'[p].content.whole /\ doing'[p].content # Absent
                             /\ p \in crashed' => doing'[p] = NoTask
                             /\ temporary'[p] # Absent => Writing(p)' \/ p \in crashed',
         \A path \in Paths \ copied' : files'[path] = Absent \/ files'[path].whole,
         LoadedWithItsKey'
  PROVE  FilesInv'
<1>1. TemporariesWhole' /\ WritingWhole' /\ TemporariesGo'
  BY DEF TemporariesWhole, WritingWhole, TemporariesGo, Writing
<1>2. crashed' \subseteq Programs
  BY DEF FilesTyped
<1>3. KilledDoNothing'
  BY <1>2 DEF KilledDoNothing
<1>4. WritesWhole'
  BY DEF WritesWhole
<1>. QED
  BY <1>1, <1>3, <1>4 DEF FilesInv

LEMMA BeginWriteKeeps ==
  ASSUME FilesInv, NEW p \in Programs, NEW path \in Paths, NEW appends \in BOOLEAN,
         NEW protection, protection = {} \/ \E c \in Protections : protection = {c},
         BeginWrite(p, path, appends, protection)
  PROVE  FilesInv'
<1>1. FilesTyped /\ Free(p) /\ written' = written + 1 /\ written' \in Nat
  BY DEF FilesInv, FilesTyped, BeginWrite
<1>. DEFINE content ==
       IF protection = {} THEN Text(Append(IF appends THEN Previous(path) ELSE <<>>, written'))
       ELSE Store(CHOOSE c \in protection : TRUE, written')
<1>2. content \in Texts \cup Stores
  <2>1. CASE protection = {}
    <3>1. (IF appends THEN Previous(path) ELSE <<>>) \in Seq(Nat)
      BY <1>1, TextsAre, EmptySeq DEF FilesTyped, BeginWrite, Previous
    <3>2. Append(IF appends THEN Previous(path) ELSE <<>>, written') \in Seq(Nat)
      BY <1>1, <3>1, AppendProperties
    <3>. QED
      BY <2>1, <3>2 DEF Text, Texts
  <2>2. ASSUME NEW c \in Protections, protection = {c} PROVE content \in Stores
    <3>1. (CHOOSE d \in protection : TRUE) = c
      BY <2>2
    <3>2. content = Store(c, written')
      BY <2>2, <3>1
    <3>3. Store(c, written') \in Stores
      BY <1>1 DEF Store, Stores
    <3>. HIDE DEF content
    <3>. QED
      BY <3>2, <3>3
  <2>. QED
    BY <2>1, <2>2
<1>. HIDE DEF content
<1>3. content \in Contents /\ content.whole /\ content # Absent
  BY <1>2, Whole DEF Contents
<1>4. Task(p, "write", path, content)
  BY DEF BeginWrite, content
<1>5. /\ doing' \in [Programs -> {NoTask} \cup Tasks] /\ doing'[p].content = content
      /\ doing'[p].name = "write" /\ \A q \in Programs \ {p} : doing'[q] = doing[q]
  BY <1>1, <1>3, <1>4, TaskMade
<1>6. p \notin crashed /\ UNCHANGED <<files, temporary, copied, crashed, loaded>>
  BY DEF BeginWrite, Free
<1>. QED
  BY <1>1, <1>3, <1>5, <1>6, FilesStep DEF FilesInv, FilesTyped, TemporariesWhole, WritingWhole,
     KilledDoNothing, WritesWhole, TemporariesGo, LoadedWithItsKey, Writing

LEMMA MakeTemporaryKeeps ==
  ASSUME FilesInv, NEW p \in Programs, MakeTemporary(p)
  PROVE  FilesInv'
<1>1. /\ FilesTyped /\ Writing(p) /\ doing[p].content \in Contents
      /\ doing[p].content.whole /\ doing[p].content # Absent
  <2>1. FilesTyped /\ Writing(p)
    BY DEF FilesInv, MakeTemporary, Writing
  <2>2. doing[p] \in Tasks
    BY <2>1, TaskType DEF Writing
  <2>. QED
    BY <2>1, <2>2 DEF FilesInv, WritingWhole, Tasks
<1>2. /\ temporary' = [temporary EXCEPT ![p] = doing[p].content]
      /\ UNCHANGED <<files, doing, copied, written, crashed, loaded>>
  BY DEF MakeTemporary
<1>. QED
  BY <1>1, <1>2, FilesStep DEF FilesInv, FilesTyped, TemporariesWhole, WritingWhole,
     KilledDoNothing, WritesWhole, TemporariesGo, LoadedWithItsKey, Writing

LEMMA AbsentContent == Absent \in Contents /\ Partial \in Contents
  BY DEF Contents

LEMMA ReplaceKeeps ==
  ASSUME FilesInv, NEW p \in Programs, Replace(p)
  PROVE  FilesInv'
<1>1. FilesTyped /\ Writing(p) /\ temporary[p] \in Contents /\ temporary[p].whole
      /\ doing[p].path \in Paths
  <2>1. FilesTyped /\ Writing(p)
    BY DEF FilesInv, Replace, Writing
  <2>2. doing[p] \in Tasks /\ temporary[p] \in Contents
    BY <2>1, TaskType DEF Writing
  <2>. QED
    BY <2>1, <2>2 DEF FilesInv, TemporariesWhole, Tasks, Replace
<1>2. PICK path \in Paths : path = doing[p].path
  BY <1>1
<1>3. /\ files' = [files EXCEPT ![path] = temporary[p]] /\ copied' = copied \ {path}
      /\ temporary' = [temporary EXCEPT ![p] = Absent] /\ Ends(p)
      /\ UNCHANGED <<written, crashed, loaded>>
  BY <1>2 DEF Replace
<1>4. /\ doing' \in [Programs -> {NoTask} \cup Tasks] /\ doing'[p] = NoTask
      /\ \A q \in Programs \ {p} : doing'[q] = doing[q]
  BY <1>1, <1>3, TaskEnded
<1>5. NoTask.name = "none"
  BY DEF NoTask
<1>6. FilesTyped'
  BY <1>1, <1>3, <1>4, AbsentContent DEF FilesTyped
<1>7. \A q \in Paths \ copied' : files'[q] = Absent \/ files'[q].whole
  BY <1>1, <1>3 DEF FilesInv, FilesTyped, WritesWhole
<1>8. \A q \in Programs : temporary'[q] = IF q = p THEN Absent ELSE temporary[q]
  BY <1>1, <1>3 DEF FilesTyped
<1>. QED
  BY <1>3, <1>4, <1>5, <1>6, <1>7, <1>8, FilesStep DEF FilesInv, TemporariesWhole, WritingWhole,
     KilledDoNothing, TemporariesGo, LoadedWithItsKey, Writing

LEMMA WriteFailsKeeps ==
  ASSUME FilesInv, NEW p \in Programs, WriteFails(p)
  PROVE  FilesInv'
<1>1. /\ FilesTyped /\ temporary' = [temporary EXCEPT ![p] = Absent] /\ Ends(p)
      /\ UNCHANGED <<files, copied, written, crashed, loaded>>
  BY DEF FilesInv, WriteFails, FilesAfterFailure, AfterFailure
<1>2. /\ doing' \in [Programs -> {NoTask} \cup Tasks] /\ doing'[p] = NoTask
      /\ \A q \in Programs \ {p} : doing'[q] = doing[q]
  BY <1>1, TaskEnded
<1>3. NoTask.name = "none"
  BY DEF NoTask
<1>4. FilesTyped'
  BY <1>1, <1>2, AbsentContent DEF FilesTyped
<1>5. \A q \in Programs : temporary'[q] = IF q = p THEN Absent ELSE temporary[q]
  BY <1>1 DEF FilesTyped
<1>. QED
  BY <1>1, <1>2, <1>3, <1>4, <1>5, FilesStep DEF FilesInv, TemporariesWhole, WritingWhole,
     KilledDoNothing, TemporariesGo, WritesWhole, LoadedWithItsKey, Writing

\* A program that copies or moves has no temporary file.
LEMMA NoTemporary ==
  ASSUME FilesInv, NEW p \in Programs, p \notin crashed, ~Writing(p)
  PROVE  temporary[p] = Absent
  BY DEF FilesInv, TemporariesGo, Writing

LEMMA CopyingKeeps ==
  ASSUME FilesInv, NEW p \in Programs,
         \/ \E from, to \in Paths, name \in {"copy", "move"} : BeginCopy(p, name, from, to)
         \/ CopyOpens(p) \/ CopyFills(p)
  PROVE  FilesInv'
<1>1. FilesTyped /\ NoTask.name = "none"
  BY DEF FilesInv, NoTask
<1>2. ASSUME NEW from \in Paths, NEW to \in Paths, NEW name \in {"copy", "move"},
             BeginCopy(p, name, from, to)
      PROVE  FilesInv'
  <2>1. /\ doing' \in [Programs -> {NoTask} \cup Tasks] /\ doing'[p].name = name
        /\ \A q \in Programs \ {p} : doing'[q] = doing[q]
    BY <1>1, <1>2, TaskMade DEF BeginCopy, FilesTyped
  <2>2. /\ UNCHANGED <<files, temporary, copied, written, crashed, loaded>>
        /\ p \notin crashed /\ temporary[p] = Absent
    BY <1>1, <1>2, NoTemporary DEF BeginCopy, Free, Writing
  <2>. QED
    BY <1>1, <2>1, <2>2, FilesStep DEF FilesInv, FilesTyped, TemporariesWhole, WritingWhole,
       KilledDoNothing, WritesWhole, TemporariesGo, LoadedWithItsKey, Writing
<1>3. ASSUME doing[p].name \in {"copy", "fill"}, NEW path \in Paths, path = doing[p].path,
             doing' \in [Programs -> {NoTask} \cup Tasks], doing'[p].name \in {"fill", "none"},
             \A q \in Programs \ {p} : doing'[q] = doing[q],
             NEW content \in Contents, files' = [files EXCEPT ![path] = content],
             copied' = copied \cup {path}, UNCHANGED <<temporary, written, crashed, loaded>>
      PROVE  FilesInv'
  <2>1. p \notin crashed /\ temporary[p] = Absent
    <3>1. p \notin crashed
      BY <1>1, <1>3 DEF FilesInv, KilledDoNothing
    <3>. QED
      BY <1>3, <3>1, NoTemporary DEF Writing
  <2>2. FilesTyped'
    BY <1>1, <1>3 DEF FilesTyped
  <2>3. \A q \in Paths \ copied' : files'[q] = Absent \/ files'[q].whole
    BY <1>1, <1>3 DEF FilesInv, FilesTyped, WritesWhole
  <2>. QED
    BY <1>3, <2>1, <2>2, <2>3, FilesStep DEF FilesInv, TemporariesWhole, WritingWhole,
       KilledDoNothing, TemporariesGo, LoadedWithItsKey, Writing
<1>4. ASSUME doing[p].name \in {"copy", "fill"}
      PROVE  doing[p].path \in Paths /\ doing[p].content \in Contents
  BY <1>1, <1>4, TaskType DEF Tasks
<1>5. CASE CopyOpens(p)
  <2>1. /\ doing[p].name = "copy" /\ Task(p, "fill", doing[p].path, doing[p].content)
        /\ files' = [files EXCEPT ![doing[p].path] = Partial] /\ copied' = copied \cup {doing[p].path}
        /\ UNCHANGED <<temporary, written, crashed, loaded>>
    BY <1>5 DEF CopyOpens
  <2>2. PICK path \in Paths, content \in Contents : path = doing[p].path /\ content = doing[p].content
    BY <1>4, <2>1
  <2>3. /\ doing' \in [Programs -> {NoTask} \cup Tasks] /\ doing'[p].name = "fill"
        /\ \A q \in Programs \ {p} : doing'[q] = doing[q]
    BY <1>1, <2>1, <2>2, TaskMade
  <2>. QED
    BY <1>3, <2>1, <2>2, <2>3, AbsentContent
<1>6. CASE CopyFills(p)
  <2>1. /\ doing[p].name = "fill" /\ Ends(p) /\ copied' = copied \cup {doing[p].path}
        /\ UNCHANGED <<temporary, written, crashed, loaded>>
    BY <1>6 DEF CopyFills
  <2>2. PICK path \in Paths : path = doing[p].path
    BY <1>4, <2>1
  <2>3. PICK content \in Contents : files' = [files EXCEPT ![path] = content]
    BY <1>4, <1>6, <2>1, <2>2, AbsentContent DEF CopyFills
  <2>4. /\ doing' \in [Programs -> {NoTask} \cup Tasks] /\ doing'[p] = NoTask
        /\ \A q \in Programs \ {p} : doing'[q] = doing[q]
    BY <1>1, <2>1, TaskEnded
  <2>. QED
    BY <1>1, <1>3, <2>1, <2>2, <2>3, <2>4
<1>. QED
  BY <1>2, <1>5, <1>6

LEMMA MoveKeeps ==
  ASSUME FilesInv, NEW p \in Programs, NEW from \in Paths, Move(p, from)
  PROVE  FilesInv'
<1>1. FilesTyped /\ NoTask.name = "none" /\ doing[p].name = "move"
  BY DEF FilesInv, NoTask, Move
<1>2. PICK path \in Paths : path = doing[p].path
  BY <1>1, TaskType DEF Tasks
<1>3. /\ Ends(p) /\ from # path /\ UNCHANGED <<temporary, written, crashed, loaded>>
      /\ files' = IF files[from] = Absent THEN files
                   ELSE [files EXCEPT ![path] = files[from], ![from] = Absent]
      /\ copied' = IF from \in copied THEN copied \cup {path} ELSE copied
  BY <1>2 DEF Move
<1>4. /\ doing' \in [Programs -> {NoTask} \cup Tasks] /\ doing'[p] = NoTask
      /\ \A q \in Programs \ {p} : doing'[q] = doing[q]
  BY <1>1, <1>3, TaskEnded
<1>5. p \notin crashed /\ temporary[p] = Absent
  <2>1. p \notin crashed
    BY <1>1 DEF FilesInv, KilledDoNothing
  <2>. QED
    BY <1>1, <2>1, NoTemporary DEF Writing
<1>6. FilesTyped'
  BY <1>1, <1>3, <1>4, AbsentContent DEF FilesTyped
<1>7. \A q \in Paths \ copied' : files'[q] = Absent \/ files'[q].whole
  <2>1. CASE files[from] = Absent
    BY <1>3, <2>1 DEF FilesInv, WritesWhole
  <2>2. CASE files[from] # Absent
    <3>1. \A q \in Paths : files'[q] = IF q = from THEN Absent ELSE IF q = path THEN files[from] ELSE files[q]
      BY <1>1, <1>3, <2>2 DEF FilesTyped
    <3>. QED
      BY <1>3, <2>2, <3>1 DEF FilesInv, WritesWhole
  <2>. QED
    BY <2>1, <2>2
<1>. QED
  BY <1>1, <1>3, <1>4, <1>5, <1>6, <1>7, FilesStep DEF FilesInv, TemporariesWhole, WritingWhole,
     KilledDoNothing, TemporariesGo, LoadedWithItsKey, Writing

\* A delete, a load, and a program that is killed.
LEMMA OthersKeep ==
  ASSUME FilesInv, NEW p \in Programs,
         \/ \E path \in Paths : Delete(p, path)
         \/ \E path \in Paths, protection \in Protections : Load(p, path, protection)
         \/ Crash(p)
  PROVE  FilesInv'
<1>1. FilesTyped /\ NoTask.name = "none"
  BY DEF FilesInv, NoTask
<1>2. ASSUME NEW path \in Paths, Delete(p, path) PROVE FilesInv'
  <2>1. /\ files' = [files EXCEPT ![path] = Absent]
        /\ UNCHANGED <<temporary, doing, copied, written, crashed, loaded>>
    BY <1>2 DEF Delete
  <2>2. FilesTyped'
    BY <1>1, <2>1, AbsentContent DEF FilesTyped
  <2>3. \A q \in Paths \ copied' : files'[q] = Absent \/ files'[q].whole
    BY <1>1, <2>1 DEF FilesInv, FilesTyped, WritesWhole
  <2>. QED
    BY <2>1, <2>2, <2>3, FilesStep DEF FilesInv, TemporariesWhole, WritingWhole, KilledDoNothing,
       TemporariesGo, LoadedWithItsKey, Writing
<1>3. ASSUME NEW path \in Paths, NEW protection \in Protections, Load(p, path, protection)
      PROVE  FilesInv'
  <2>1. UNCHANGED <<files, temporary, doing, copied, written, crashed>>
    BY <1>3 DEF Load
  <2>2. LoadedWithItsKey'
    <3>1. PICK error : error = IF OpensFile(files[path], protection) THEN "none"
                        ELSE IF "jar" \notin DOMAIN files[path] THEN "E884"
                        ELSE IF files[path].protection[1] # protection[1] THEN "E882" ELSE "E885"
      OBVIOUS
    <3>2. error = "none" => files[path].protection = protection
      BY <3>1 DEF OpensFile
    <3>3. loaded' = [path |-> path, protection |-> protection, store |-> files[path], error |-> error]
      BY <1>3, <3>1 DEF Load
    <3>4. loaded'.error = error /\ loaded'.store = files[path] /\ loaded'.protection = protection
      BY <3>3
    <3>. QED
      BY <3>2, <3>4 DEF LoadedWithItsKey
  <2>. QED
    BY <1>1, <2>1, <2>2, FilesStep DEF FilesInv, FilesTyped, TemporariesWhole, WritingWhole,
       KilledDoNothing, WritesWhole, TemporariesGo, Writing
<1>4. CASE Crash(p)
  <2>1. Ends(p) /\ crashed' = crashed \cup {p} /\ UNCHANGED <<files, temporary, copied, written, loaded>>
    BY <1>4 DEF Crash
  <2>2. /\ doing' \in [Programs -> {NoTask} \cup Tasks] /\ doing'[p] = NoTask
        /\ \A q \in Programs \ {p} : doing'[q] = doing[q]
    BY <1>1, <2>1, TaskEnded
  <2>. QED
    BY <1>1, <2>1, <2>2, FilesStep DEF FilesInv, FilesTyped, TemporariesWhole, WritingWhole,
       KilledDoNothing, WritesWhole, TemporariesGo, LoadedWithItsKey, Writing
<1>. QED
  BY <1>2, <1>3, <1>4

LEMMA FilesStarts == FilesInit => FilesInv
<1>. SUFFICES ASSUME FilesInit PROVE FilesInv
  OBVIOUS
<1>1. NoTask.name = "none"
  BY DEF NoTask
<1>. QED
  BY <1>1, AbsentContent DEF FilesInit, FilesInv, FilesTyped, TemporariesWhole, WritingWhole,
     KilledDoNothing, WritesWhole, TemporariesGo, LoadedWithItsKey, Writing

\* However many programs write, copy, move, delete and load, fail and are killed, a file
\* that is no copy is whole, temporary files stay only behind those that were killed, and
\* a jar opens only with the protection it was sealed with.
THEOREM FilesAlwaysKept == FilesSpec => []FilesKept
<1>1. FilesInv /\ [FilesNext]_fileVars => FilesInv'
  <2>. SUFFICES ASSUME FilesInv, [FilesNext]_fileVars PROVE FilesInv'
    OBVIOUS
  <2>1. ASSUME FilesNext PROVE FilesInv'
    <3>1. PICK p \in Programs :
        \/ \E path \in Paths, appends \in BOOLEAN : BeginWrite(p, path, appends, {})
        \/ \E path \in Paths, protection \in Protections : BeginWrite(p, path, FALSE, {protection})
        \/ MakeTemporary(p) \/ Replace(p) \/ WriteFails(p) \/ CopyOpens(p) \/ CopyFills(p) \/ Crash(p)
        \/ \E from, to \in Paths, name \in {"copy", "move"} : BeginCopy(p, name, from, to)
        \/ \E path \in Paths : Move(p, path) \/ Delete(p, path)
        \/ \E path \in Paths, protection \in Protections : Load(p, path, protection)
      BY <2>1 DEF FilesNext
    <3>2. ASSUME NEW path \in Paths, NEW appends \in BOOLEAN, BeginWrite(p, path, appends, {})
          PROVE  FilesInv'
      <4>1. PICK protection : protection = {}
        OBVIOUS
      <4>. QED
        BY <3>2, <4>1, BeginWriteKeeps
    <3>3. ASSUME NEW path \in Paths, NEW protection \in Protections,
                 BeginWrite(p, path, FALSE, {protection})
          PROVE  FilesInv'
      BY <3>3, BeginWriteKeeps
    <3>. QED
      BY <3>1, <3>2, <3>3, MakeTemporaryKeeps, ReplaceKeeps, WriteFailsKeeps, CopyingKeeps,
         MoveKeeps, OthersKeep
  <2>2. ASSUME UNCHANGED fileVars PROVE FilesInv'
    BY <2>2 DEF fileVars, FilesInv, FilesTyped, TemporariesWhole, WritingWhole, KilledDoNothing,
                WritesWhole, TemporariesGo, LoadedWithItsKey, Writing
  <2>. QED
    BY <2>1, <2>2
<1>2. FilesInv => FilesKept
  BY DEF FilesInv, FilesKept
<1>. QED
  BY <1>1, <1>2, FilesStarts, PTL DEF FilesSpec

----------------------------------------------------------------------------
(* Lambda: one alert, and the file that is written if it is absent.        *)

LambdaTyped ==
  /\ clock \in Nat /\ stage \in [LambdaWorkers -> {"idle", "reserve", "publish", "release"}]
  /\ began \in [LambdaWorkers -> Nat] /\ expires \in Nat \cup {NotReserved}
  /\ deliveries \in Seq(Nat) /\ suppressed \in [LambdaWorkers -> BOOLEAN]
  /\ file \in {"absent", "default", "edited"} /\ fileEdits \in Nat
  /\ seen \in [Writers -> Nat \cup {NotLooked}]

Reserving(w) == stage[w] = "reserve"
Holding(w) == stage[w] \in {"publish", "release"}
LastSent == deliveries[Len(deliveries)]

\* An invocation lasts no longer than its limit.
InTime == \A w \in LambdaWorkers : Reserving(w) \/ Holding(w) =>
            began[w] <= clock /\ clock <= began[w] + TimeLimit
\* One worker at a time is about to send or release, and the reservation is its own.
HoldsIt == \A w \in LambdaWorkers : Holding(w) => holder = w /\ expires = began[w] + Window
\* Whoever is about to send has waited long enough since the last time; before that,
\* the reservation of the last time stands.
Spaced == deliveries # <<>> =>
            /\ LastSent <= clock
            /\ \/ clock - LastSent > Window - TimeLimit
               \/ expires >= LastSent + Window - TimeLimit /\ \A w \in LambdaWorkers : ~Holding(w)
\* Behind every reservation there is a worker that holds it, one that was killed, or a
\* sending that it speaks of.
Reasoned == expires # NotReserved =>
              \/ holder = "killed"
              \/ holder \in LambdaWorkers /\ Holding(holder)
              \/ deliveries # <<>> /\ LastSent >= expires - Window
\* A writer that saw no file saw fewer edits than the file has, if it is edited.
SeenBefore == \A w \in Writers : seen[w] # NotLooked =>
                seen[w] <= fileEdits /\ (file = "edited" => seen[w] < fileEdits)

LambdaInv == LambdaTyped /\ InTime /\ HoldsIt /\ Spaced /\ Reasoned /\ SentOnce /\ SeenBefore

AlertInv  == InTime /\ HoldsIt /\ Spaced /\ Reasoned /\ SentOnce

LEMMA Sent ==
  ASSUME LambdaTyped
  PROVE  /\ Len(deliveries) \in Nat /\ \A k \in 1..Len(deliveries) : deliveries[k] \in Nat
         /\ deliveries # <<>> <=> Len(deliveries) # 0
         /\ deliveries # <<>> => LastSent \in Nat
<1>1. deliveries \in Seq(Nat)
  BY DEF LambdaTyped
<1>2. Len(deliveries) \in Nat /\ \A k \in 1..Len(deliveries) : deliveries[k] \in Nat
  BY <1>1, LenProperties, ElementOfSeq
<1>3. deliveries # <<>> <=> Len(deliveries) # 0
  BY <1>1, EmptySeq
<1>. QED
  BY <1>2, <1>3 DEF LastSent

\* A worker goes from one stage to the next, and nothing was sent.
LEMMA StageKeeps ==
  ASSUME LambdaInv, NEW w \in LambdaWorkers, NEW to, stage' = [stage EXCEPT ![w] = to],
         \/ to = "idle" /\ ~Holding(w)
         \/ to = "reserve" /\ ~Holding(w) /\ began'[w] = clock
         \/ to = "release" /\ Holding(w),
         to # "reserve" => UNCHANGED began,
         \A v \in LambdaWorkers \ {w} : began'[v] = began[v],
         UNCHANGED <<clock, expires, holder, deliveries>>
  PROVE  AlertInv'
<1>1. LambdaTyped
  BY DEF LambdaInv
<1>2. \A v \in LambdaWorkers : stage'[v] = IF v = w THEN to ELSE stage[v]
  BY <1>1 DEF LambdaTyped
<1>3. \A v \in LambdaWorkers : Holding(v)' <=> Holding(v)
  BY <1>2 DEF Holding
<1>4. \A v \in LambdaWorkers : Holding(v) => began'[v] = began[v]
  BY DEF Holding
<1>5. InTime'
  <2>. SUFFICES ASSUME NEW v \in LambdaWorkers, Reserving(v)' \/ Holding(v)'
                PROVE  began'[v] <= clock /\ clock <= began'[v] + TimeLimit
    BY DEF InTime
  <2>1. CASE v = w /\ to = "reserve"
    BY <1>1, <2>1, LambdaAssumption DEF LambdaTyped
  <2>2. CASE v # w \/ to # "reserve"
    BY <1>2, <1>3, <1>4, <2>2 DEF LambdaInv, InTime, Holding, Reserving
  <2>. QED
    BY <2>1, <2>2
<1>6. HoldsIt'
  BY <1>3, <1>4 DEF LambdaInv, HoldsIt
<1>7. Spaced' /\ Reasoned' /\ SentOnce'
  BY <1>3 DEF LambdaInv, Spaced, Reasoned, SentOnce, LastSent
<1>. QED
  BY <1>5, <1>6, <1>7 DEF AlertInv

LEMMA InvokeKeeps ==
  ASSUME LambdaInv, NEW w \in LambdaWorkers, Invoke(w)
  PROVE  AlertInv' /\ LambdaTyped' /\ SeenBefore'
<1>1. /\ stage[w] = "idle" /\ stage' = [stage EXCEPT ![w] = "reserve"]
      /\ began' = [began EXCEPT ![w] = clock]
      /\ UNCHANGED <<clock, expires, holder, deliveries, file, fileEdits, seen>>
  BY DEF Invoke, tableVars, configVars
<1>2. LambdaTyped
  BY DEF LambdaInv
<1>3. ~Holding(w) /\ began'[w] = clock /\ \A v \in LambdaWorkers \ {w} : began'[v] = began[v]
  BY <1>1, <1>2 DEF Holding, LambdaTyped
<1>4. AlertInv'
  BY <1>1, <1>3, StageKeeps
<1>5. LambdaTyped'
  BY <1>1, <1>2 DEF LambdaTyped, Invoke
<1>6. SeenBefore'
  BY <1>1 DEF LambdaInv, SeenBefore
<1>. QED
  BY <1>4, <1>5, <1>6

\* A reservation fails, sending fails, and the release of what was not sent.
LEMMA FailuresKeep ==
  ASSUME LambdaInv, NEW w \in LambdaWorkers, ReserveFails(w) \/ PublishFails(w)
  PROVE  AlertInv' /\ LambdaTyped' /\ SeenBefore'
<1>1. LambdaTyped
  BY DEF LambdaInv
<1>2. UNCHANGED <<clock, began, expires, holder, deliveries, suppressed, file, fileEdits, seen>>
  BY DEF ReserveFails, PublishFails, tableVars, configVars
<1>3. PICK to \in {"idle", "release"} : /\ stage' = [stage EXCEPT ![w] = to]
                                        /\ to = "idle" => ~Holding(w)
                                        /\ to = "release" => Holding(w)
  <2>1. CASE ReserveFails(w)
    BY <2>1 DEF ReserveFails, Holding
  <2>2. CASE PublishFails(w)
    BY <2>2 DEF PublishFails, AfterPublishFailure, Holding
  <2>. QED
    BY <2>1, <2>2
<1>4. AlertInv'
  BY <1>2, <1>3, StageKeeps
<1>5. LambdaTyped'
  BY <1>1, <1>2, <1>3 DEF LambdaTyped
<1>6. SeenBefore'
  BY <1>2 DEF LambdaInv, SeenBefore
<1>. QED
  BY <1>4, <1>5, <1>6

\* Whoever holds the reservation is the only one, and nobody else can reserve.
LEMMA ReserveUntilKeeps ==
  ASSUME LambdaInv, NEW w \in LambdaWorkers, ReserveUntil(w)
  PROVE  AlertInv' /\ LambdaTyped' /\ SeenBefore'
<1>1. /\ LambdaTyped /\ Reserving(w) /\ ~Holding(w)
      /\ UNCHANGED <<clock, began, deliveries, file, fileEdits, seen>>
  BY DEF LambdaInv, ReserveUntil, Reserving, Holding, configVars
<1>2. CASE ~Reservable(began[w])
  <2>1. stage' = [stage EXCEPT ![w] = "idle"] /\ UNCHANGED <<expires, holder>>
        /\ suppressed' = [suppressed EXCEPT ![w] = TRUE]
    BY <1>2 DEF ReserveUntil, tableVars
  <2>2. AlertInv'
    BY <1>1, <2>1, StageKeeps
  <2>3. LambdaTyped'
    BY <1>1, <2>1 DEF LambdaTyped
  <2>. QED
    BY <1>1, <2>2, <2>3 DEF LambdaInv, SeenBefore
<1>3. CASE Reservable(began[w])
  <2>1. /\ expires' = began[w] + Window /\ holder' = w /\ UNCHANGED suppressed
        /\ stage' = [stage EXCEPT ![w] = "publish"]
    BY <1>3 DEF ReserveUntil
  <2>2. /\ began[w] \in Nat /\ clock \in Nat /\ Window \in Nat /\ TimeLimit \in Nat
        /\ TimeLimit < Window /\ began[w] <= clock /\ clock <= began[w] + TimeLimit
    BY <1>1, LambdaAssumption DEF LambdaInv, LambdaTyped, InTime
  <2>3. \A v \in LambdaWorkers : ~Holding(v)
    <3>. SUFFICES ASSUME NEW v \in LambdaWorkers, Holding(v) PROVE FALSE
      OBVIOUS
    <3>1. /\ expires = began[v] + Window /\ began[v] \in Nat /\ clock <= began[v] + TimeLimit
      BY <1>1 DEF LambdaInv, HoldsIt, InTime, LambdaTyped
    <3>. QED
      BY <1>3, <2>2, <3>1 DEF Reservable, NotReserved
  <2>4. \A v \in LambdaWorkers : stage'[v] = IF v = w THEN "publish" ELSE stage[v]
    BY <1>1, <2>1 DEF LambdaTyped
  <2>5. Holding(w)' /\ \A v \in LambdaWorkers \ {w} : ~Holding(v)'
    BY <2>3, <2>4 DEF Holding
  <2>6. InTime'
    BY <1>1, <2>2, <2>4 DEF LambdaInv, InTime, Reserving, Holding
  <2>7. HoldsIt'
    BY <1>1, <2>1, <2>5 DEF HoldsIt
  <2>8. Spaced'
    <3>. SUFFICES ASSUME deliveries # <<>> PROVE LastSent <= clock /\ clock - LastSent > Window - TimeLimit
      BY <1>1 DEF Spaced, LastSent
    <3>1. LastSent \in Nat /\ LastSent <= clock
      BY <1>1, Sent DEF LambdaInv, Spaced
    <3>2. CASE expires >= LastSent + Window - TimeLimit
      BY <1>1, <1>3, <2>2, <3>1, <3>2 DEF Reservable, NotReserved, LambdaTyped
    <3>. QED
      BY <3>1, <3>2 DEF LambdaInv, Spaced
  <2>9. Reasoned'
    BY <2>1, <2>5 DEF Reasoned
  <2>10. LambdaTyped'
    BY <1>1, <2>1, <2>2 DEF LambdaTyped
  <2>11. SentOnce' /\ SeenBefore'
    BY <1>1 DEF LambdaInv, SentOnce, SeenBefore
  <2>. QED
    BY <2>6, <2>7, <2>8, <2>9, <2>10, <2>11 DEF AlertInv
<1>. QED
  BY <1>2, <1>3

\* What is sent now is the last that was sent, and the reservation stands for it.
LEMMA SnsPublishKeeps ==
  ASSUME LambdaInv, NEW w \in LambdaWorkers, SnsPublish(w)
  PROVE  AlertInv' /\ LambdaTyped' /\ SeenBefore'
<1>1. /\ LambdaTyped /\ Holding(w) /\ stage' = [stage EXCEPT ![w] = "idle"]
      /\ deliveries' = Append(deliveries, clock)
      /\ UNCHANGED <<clock, began, expires, holder, suppressed, file, fileEdits, seen>>
  BY DEF LambdaInv, SnsPublish, Holding, tableVars, configVars
<1>2. /\ began[w] \in Nat /\ clock \in Nat /\ Window \in Nat /\ TimeLimit \in Nat
      /\ TimeLimit < Window /\ began[w] <= clock /\ clock <= began[w] + TimeLimit
      /\ holder = w /\ expires = began[w] + Window
  BY <1>1, LambdaAssumption DEF LambdaInv, LambdaTyped, InTime, HoldsIt
<1>3. /\ deliveries' \in Seq(Nat) /\ Len(deliveries') = Len(deliveries) + 1
      /\ deliveries'[Len(deliveries) + 1] = clock /\ Len(deliveries) \in Nat
      /\ \A k \in 1..Len(deliveries) : deliveries'[k] = deliveries[k]
  BY <1>1, <1>2, AppendProperties, Sent DEF LambdaTyped
<1>4. LastSent' = clock /\ deliveries' # <<>>
  BY <1>3, EmptySeq DEF LastSent
<1>5. \A v \in LambdaWorkers : stage'[v] = IF v = w THEN "idle" ELSE stage[v]
  BY <1>1 DEF LambdaTyped
<1>6. \A v \in LambdaWorkers : ~Holding(v)'
  <2>1. \A v \in LambdaWorkers \ {w} : ~Holding(v)
    BY <1>2 DEF LambdaInv, HoldsIt
  <2>. QED
    BY <1>5, <2>1 DEF Holding
<1>7. InTime' /\ HoldsIt'
  BY <1>1, <1>5, <1>6 DEF LambdaInv, InTime, HoldsIt, Reserving
<1>8. Spaced'
  BY <1>1, <1>2, <1>4, <1>6 DEF Spaced
<1>9. Reasoned'
  BY <1>1, <1>2, <1>4 DEF Reasoned
<1>10. SentOnce'
  <2>. SUFFICES ASSUME NEW i \in 1..Len(deliveries') - 1
                PROVE  deliveries'[i + 1] - deliveries'[i] > Window - TimeLimit
    BY DEF SentOnce
  <2>1. i \in 1..Len(deliveries) /\ i \in Nat
    BY <1>3
  <2>2. CASE i = Len(deliveries)
    <3>1. deliveries # <<>> /\ LastSent = deliveries[i]
      BY <1>1, <2>1, <2>2, Sent DEF LastSent
    <3>2. clock - LastSent > Window - TimeLimit
      BY <1>1, <3>1 DEF LambdaInv, Spaced
    <3>. QED
      BY <1>3, <2>1, <2>2, <3>1, <3>2
  <2>3. CASE i # Len(deliveries)
    <3>1. i \in 1..Len(deliveries) - 1 /\ i + 1 \in 1..Len(deliveries)
      BY <1>3, <2>1, <2>3
    <3>. QED
      BY <1>3, <2>1, <3>1 DEF LambdaInv, SentOnce
  <2>. QED
    BY <2>2, <2>3
<1>11. LambdaTyped' /\ SeenBefore'
  BY <1>1, <1>3 DEF LambdaTyped, LambdaInv, SeenBefore
<1>. QED
  BY <1>7, <1>8, <1>9, <1>10, <1>11 DEF AlertInv

LEMMA DynamodbDeleteKeeps ==
  ASSUME LambdaInv, NEW w \in LambdaWorkers, DynamodbDelete(w)
  PROVE  AlertInv' /\ LambdaTyped' /\ SeenBefore'
<1>1. /\ LambdaTyped /\ Holding(w) /\ stage' = [stage EXCEPT ![w] = "idle"]
      /\ expires' = NotReserved
      /\ UNCHANGED <<clock, began, deliveries, suppressed, file, fileEdits, seen>>
  BY DEF LambdaInv, DynamodbDelete, Holding, configVars
<1>2. \A v \in LambdaWorkers : stage'[v] = IF v = w THEN "idle" ELSE stage[v]
  BY <1>1 DEF LambdaTyped
<1>3. \A v \in LambdaWorkers : ~Holding(v)'
  <2>1. \A v \in LambdaWorkers \ {w} : ~Holding(v)
    BY <1>1 DEF LambdaInv, HoldsIt
  <2>. QED
    BY <1>2, <2>1 DEF Holding
<1>4. InTime' /\ HoldsIt' /\ Reasoned' /\ SentOnce'
  BY <1>1, <1>2, <1>3 DEF LambdaInv, InTime, HoldsIt, Reasoned, SentOnce, Reserving
<1>5. Spaced'
  BY <1>1 DEF LambdaInv, Spaced, LastSent
<1>6. LambdaTyped' /\ SeenBefore'
  BY <1>1 DEF LambdaTyped, LambdaInv, SeenBefore
<1>. QED
  BY <1>4, <1>5, <1>6 DEF AlertInv

LEMMA WorkerKilledKeeps ==
  ASSUME LambdaInv, NEW w \in LambdaWorkers, WorkerKilled(w)
  PROVE  AlertInv' /\ LambdaTyped' /\ SeenBefore'
<1>1. /\ LambdaTyped /\ (Reserving(w) \/ Holding(w)) /\ stage' = [stage EXCEPT ![w] = "idle"]
      /\ holder' = IF holder = w /\ stage[w] # "reserve" THEN "killed" ELSE holder
      /\ UNCHANGED <<clock, began, expires, deliveries, suppressed, file, fileEdits, seen>>
  BY DEF LambdaInv, WorkerKilled, Holding, Reserving, configVars
<1>2. \A v \in LambdaWorkers : stage'[v] = IF v = w THEN "idle" ELSE stage[v]
  BY <1>1 DEF LambdaTyped
<1>3. CASE Reserving(w)
  <2>1. ~Holding(w) /\ UNCHANGED holder
    BY <1>1, <1>3 DEF Reserving, Holding
  <2>2. AlertInv'
    BY <1>1, <2>1, StageKeeps
  <2>. QED
    BY <1>1, <2>2 DEF LambdaTyped, LambdaInv, SeenBefore
<1>4. CASE Holding(w)
  <2>1. holder = w /\ holder' = "killed"
    BY <1>1, <1>4 DEF LambdaInv, HoldsIt, Holding
  <2>2. \A v \in LambdaWorkers : ~Holding(v)'
    <3>1. \A v \in LambdaWorkers \ {w} : ~Holding(v)
      BY <2>1 DEF LambdaInv, HoldsIt
    <3>. QED
      BY <1>2, <3>1 DEF Holding
  <2>3. InTime' /\ HoldsIt' /\ Reasoned' /\ SentOnce'
    BY <1>1, <1>2, <2>1, <2>2 DEF LambdaInv, InTime, HoldsIt, Reasoned, SentOnce, Reserving
  <2>4. Spaced'
    BY <1>1, <1>4 DEF LambdaInv, Spaced, LastSent
  <2>. QED
    BY <1>1, <2>3, <2>4 DEF LambdaTyped, LambdaInv, SeenBefore, AlertInv
<1>. QED
  BY <1>1, <1>3, <1>4

LEMMA PassKeeps ==
  ASSUME LambdaInv, Pass
  PROVE  AlertInv' /\ LambdaTyped' /\ SeenBefore'
<1>1. /\ LambdaTyped /\ clock' = clock + 1
      /\ \A w \in LambdaWorkers : Reserving(w) \/ Holding(w) => clock < began[w] + TimeLimit
      /\ UNCHANGED <<stage, began, expires, holder, deliveries, suppressed, file, fileEdits, seen>>
  BY DEF LambdaInv, Pass, Holding, Reserving, tableVars, configVars
<1>2. clock \in Nat /\ Window \in Nat /\ TimeLimit \in Nat /\ \A w \in LambdaWorkers : began[w] \in Nat
  BY <1>1, LambdaAssumption DEF LambdaTyped
<1>3. InTime'
  BY <1>1, <1>2 DEF LambdaInv, InTime, Holding, Reserving
<1>4. Spaced'
  <2>1. LastSent' = LastSent /\ (deliveries # <<>> => LastSent \in Nat)
    BY <1>1, Sent DEF LastSent
  <2>. QED
    BY <1>1, <1>2, <2>1 DEF LambdaInv, Spaced, Holding
<1>5. HoldsIt' /\ Reasoned' /\ SentOnce' /\ LambdaTyped' /\ SeenBefore'
  BY <1>1, <1>2 DEF LambdaInv, HoldsIt, Reasoned, SentOnce, LambdaTyped, SeenBefore, Holding, LastSent
<1>. QED
  BY <1>3, <1>4, <1>5 DEF AlertInv

LEMMA FileKeeps ==
  ASSUME LambdaInv, FileNext
  PROVE  AlertInv' /\ LambdaTyped' /\ SeenBefore'
<1>1. LambdaTyped /\ UNCHANGED <<clock, stage, began, expires, holder, deliveries, suppressed>>
  BY DEF LambdaInv, FileNext, EditFile, HeadObject, PutObject, tableVars
<1>2. AlertInv'
  BY <1>1 DEF LambdaInv, AlertInv, InTime, HoldsIt, Spaced, Reasoned, SentOnce, LastSent, Holding, Reserving
<1>. DEFINE FileTyped == /\ file \in {"absent", "default", "edited"} /\ fileEdits \in Nat
                        /\ seen \in [Writers -> Nat \cup {NotLooked}]
<1>3. FileTyped' /\ SeenBefore'
  <2>1. CASE EditFile
    BY <1>1, <2>1 DEF LambdaInv, LambdaTyped, SeenBefore, EditFile, NotLooked
  <2>2. ASSUME NEW w \in Writers, HeadObject(w) PROVE FileTyped' /\ SeenBefore'
    BY <1>1, <2>2 DEF LambdaInv, LambdaTyped, SeenBefore, HeadObject, WhenThere, NotLooked
  <2>3. ASSUME NEW w \in Writers, PutObject(w) PROVE FileTyped' /\ SeenBefore'
    BY <1>1, <2>3 DEF LambdaInv, LambdaTyped, SeenBefore, PutObject, NotLooked
  <2>. QED
    BY <2>1, <2>2, <2>3 DEF FileNext
<1>. QED
  BY <1>1, <1>2, <1>3 DEF LambdaTyped

LEMMA LambdaKeeps ==
  ASSUME LambdaInv, [AlertNext \/ FileNext]_lambdaVars
  PROVE  LambdaInv'
<1>1. ASSUME AlertNext \/ FileNext PROVE AlertInv' /\ LambdaTyped' /\ SeenBefore'
  BY <1>1, InvokeKeeps, ReserveUntilKeeps, FailuresKeep, SnsPublishKeeps, DynamodbDeleteKeeps,
     WorkerKilledKeeps, PassKeeps, FileKeeps DEF AlertNext
<1>2. ASSUME UNCHANGED lambdaVars PROVE LambdaInv'
  BY <1>2 DEF lambdaVars, LambdaInv, LambdaTyped, InTime, HoldsIt, Spaced, Reasoned, SentOnce,
     SeenBefore, LastSent, Holding, Reserving
<1>. QED
  BY <1>1, <1>2 DEF LambdaInv, AlertInv

LEMMA LambdaStarts == LambdaInit => LambdaInv
<1>. SUFFICES ASSUME LambdaInit PROVE LambdaInv
  OBVIOUS
<1>1. Len(deliveries) = 0 /\ deliveries \in Seq(Nat) /\ 1..Len(deliveries) - 1 = {}
  BY EmptySeq DEF LambdaInit
<1>. QED
  BY <1>1 DEF LambdaInit, LambdaInv, LambdaTyped, InTime, HoldsIt, Spaced, Reasoned, SentOnce,
     SeenBefore, Holding, Reserving


\* A duplicate is one: the reservation it is refused for is held, was made by a worker
\* that was killed, or is the one of the last sending.
LEMMA SuppressedStep ==
  ASSUME LambdaInv, [AlertNext \/ FileNext]_lambdaVars, NEW w \in LambdaWorkers,
         ~suppressed[w], suppressed'[w]
  PROVE  \/ deliveries # <<>> /\ deliveries[Len(deliveries)] >= began[w] - Window
         \/ holder = "killed"
         \/ stage[holder] \in {"publish", "release"}
<1>1. LambdaTyped
  BY DEF LambdaInv
<1>2. ASSUME NEW v \in LambdaWorkers,
             \/ Invoke(v) \/ ReserveFails(v) \/ SnsPublish(v) \/ PublishFails(v)
             \/ DynamodbDelete(v) \/ WorkerKilled(v)
      PROVE  FALSE
  BY <1>1, <1>2 DEF LambdaTyped, Invoke, ReserveFails, SnsPublish, PublishFails, DynamodbDelete,
     WorkerKilled
<1>3. ~UNCHANGED suppressed
  OBVIOUS
<1>4. PICK v \in LambdaWorkers : ReserveUntil(v)
  BY <1>2, <1>3 DEF AlertNext, FileNext, Pass, EditFile, HeadObject, PutObject, lambdaVars
<1>5. ~Reservable(began[v]) /\ suppressed' = [suppressed EXCEPT ![v] = TRUE]
  BY <1>3, <1>4 DEF ReserveUntil
<1>6. v = w
  BY <1>1, <1>5 DEF LambdaTyped
<1>7. /\ expires # NotReserved /\ expires \in Nat /\ began[w] \in Nat /\ Window \in Nat
      /\ expires >= began[w]
  BY <1>1, <1>5, <1>6, LambdaAssumption DEF Reservable, LambdaTyped
<1>8. CASE deliveries # <<>> /\ LastSent >= expires - Window
  <2>1. LastSent \in Nat
    BY <1>1, <1>8, Sent
  <2>2. LastSent >= began[w] - Window
    BY <1>7, <1>8, <2>1
  <2>. QED
    BY <1>8, <2>2 DEF LastSent
<1>. QED
  BY <1>7, <1>8 DEF LambdaInv, Reasoned, Holding

LEMMA EditsStep ==
  ASSUME LambdaInv, [AlertNext \/ FileNext]_lambdaVars, file = "edited", file' = "default"
  PROVE  \E w \in Writers : seen[w] # NotLooked /\ seen[w] < fileEdits
<1>1. PICK w \in Writers : PutObject(w)
  BY DEF AlertNext, FileNext, Invoke, ReserveUntil, ReserveFails, SnsPublish, PublishFails,
     DynamodbDelete, WorkerKilled, Pass, EditFile, HeadObject, lambdaVars, configVars
<1>. QED
  BY <1>1 DEF LambdaInv, SeenBefore, PutObject

\* However many workers handle one alert, and fail or are killed at any step: it is not sent
\* twice within the window less an invocation, none is suppressed without a reason, and
\* nobody overwrites an edit whose writer had looked after it was made.
THEOREM LambdaAlwaysKept == LambdaSpec => LambdaKept
<1>1. LambdaInv /\ [AlertNext \/ FileNext]_lambdaVars => LambdaInv'
  BY LambdaKeeps
<1>2. LambdaInv => SentOnce
  BY DEF LambdaInv
<1>3. LambdaInv /\ [AlertNext \/ FileNext]_lambdaVars =>
        [\A w \in LambdaWorkers : ~suppressed[w] /\ suppressed'[w] =>
           \/ deliveries # <<>> /\ deliveries[Len(deliveries)] >= began[w] - Window
           \/ holder = "killed"
           \/ stage[holder] \in {"publish", "release"}]_lambdaVars
  BY SuppressedStep
<1>4. LambdaInv /\ [AlertNext \/ FileNext]_lambdaVars =>
        [file = "edited" /\ file' = "default" =>
           \E w \in Writers : seen[w] # NotLooked /\ seen[w] < fileEdits]_lambdaVars
  BY EditsStep
<1>. QED
  BY <1>1, <1>2, <1>3, <1>4, LambdaStarts, PTL
     DEF LambdaSpec, LambdaKept, SuppressedForReason, EditsKept

----------------------------------------------------------------------------
(* BytecodeCache: as long as no two runtimes write the same file.          *)

\* The first pieces of a program.
UpTo(text, k) == [j \in 1..k |-> text]

RuntimeStates == [at : {"idle", "save", "write"}, text : Sources,
                  program : {<<>>} \cup {Compiled(text) : text \in Sources},
                  opened : {"none", "temporary"}, written : 0..Pieces]
CacheFiles == [Sources -> [Names -> {Missing} \cup Seq(Sources)]]
CacheTyped ==
  /\ source \in Sources /\ cached_files \in CacheFiles
  /\ runtime \in [Runtimes -> RuntimeStates]

Writes(p) == runtime[p].at = "write"

\* Of a source at most one runtime writes the file.
OneWriter == \A p, q \in Runtimes : Writes(p) /\ Writes(q) /\ runtime[p].text = runtime[q].text => p = q
\* What it has written is in the temporary file, which it has open.
WritesOwn == \A p \in Runtimes :
  /\ Writes(p) => /\ runtime[p].opened = "temporary"
                  /\ cached_files[runtime[p].text].temporary = UpTo(runtime[p].text, runtime[p].written)
  /\ runtime[p].at = "save" => runtime[p].written = 0
\* A cache file that is there is whole.
CachedWhole == \A text \in Sources : cached_files[text].cached \in {Missing, Compiled(text)}

Separate == CacheTyped /\ OneWriter /\ WritesOwn /\ CachedWhole /\ LoadedIsCompiled
CacheInv == overlap \in BOOLEAN /\ (~overlap => Separate)

LEMMA Three ==
  ASSUME NEW text \in Sources
  PROVE  /\ Compiled(text) = UpTo(text, 3) /\ Compiled(text) \in Seq(Sources)
         /\ Len(Compiled(text)) = 3 /\ Compiled(text) # Missing
         /\ \A k \in 1..3 : Compiled(text)[k] = text
         /\ UpTo(text, 0) = <<>>
<1>1. Compiled(text) = UpTo(text, 3) /\ Compiled(text) = [k \in 1..3 |-> text]
  BY DEF Compiled, UpTo, Pieces
<1>2. Compiled(text) \in Seq(Sources)
  <2>1. Compiled(text) \in [1..3 -> Sources] /\ 3 \in Nat
    BY <1>1
  <2>. QED
    BY <2>1, SeqDef
<1>3. Len(Compiled(text)) = 3
  BY <1>1, <1>2, LenProperties
<1>4. Len(Missing) = 1
  BY DEF Missing
<1>5. UpTo(text, 0) = <<>>
  BY DEF UpTo
<1>. QED
  BY <1>1, <1>2, <1>3, <1>4, <1>5

LEMMA IdleType ==
  Idle \in RuntimeStates /\ Idle.at = "idle"
  BY DEF Idle, Runtime, RuntimeStates, Sources, Pieces

\* One runtime goes on, with a program of its own source, and no file changes but the
\* temporary one of its source.
LEMMA OneMoves ==
  ASSUME Separate, NEW p \in Runtimes, NEW r, runtime' = [runtime EXCEPT ![p] = r],
         r \in RuntimeStates,
         r.at # "idle" => r.program = Compiled(r.text),
         r.at = "save" => r.written = 0,
         r.at = "write" => /\ r.opened = "temporary" /\ cached_files'[r.text].temporary = UpTo(r.text, r.written)
                           /\ \A q \in Runtimes \ {p} : Writes(q) => runtime[q].text # r.text,
         \A q \in Runtimes \ {p} : Writes(q) =>
           cached_files'[runtime[q].text].temporary = cached_files[runtime[q].text].temporary,
         cached_files' \in CacheFiles, CachedWhole',
         source' \in Sources
  PROVE  Separate'
<1>1. CacheTyped
  BY DEF Separate
<1>2. \A q \in Runtimes : runtime'[q] = IF q = p THEN r ELSE runtime[q]
  BY <1>1 DEF CacheTyped
<1>3. CacheTyped'
  BY <1>1 DEF CacheTyped
<1>4. OneWriter'
  BY <1>2 DEF Separate, OneWriter, Writes
<1>5. WritesOwn'
  BY <1>2 DEF Separate, WritesOwn, Writes
<1>6. LoadedIsCompiled'
  BY <1>2 DEF Separate, LoadedIsCompiled
<1>. QED
  BY <1>3, <1>4, <1>5, <1>6 DEF Separate

LEMMA RuntimeType ==
  ASSUME CacheTyped, NEW p \in Runtimes
  PROVE  /\ runtime[p].at \in {"idle", "save", "write"} /\ runtime[p].text \in Sources
         /\ runtime[p].written \in 0..Pieces /\ runtime[p].opened \in {"none", "temporary"}
         /\ Key(p) = runtime[p].text
  BY DEF CacheTyped, RuntimeStates, Key, Hash

\* The temporary file of one source is put in place of another, and no other file.
LEMMA OneTemporary ==
  ASSUME CacheTyped, CachedWhole, NEW text \in Sources, NEW content \in {Missing} \cup Seq(Sources),
         cached_files' = [cached_files EXCEPT ![text].temporary = content]
  PROVE  /\ cached_files' \in CacheFiles /\ CachedWhole'
         /\ cached_files'[text].temporary = content
         /\ \A other \in Sources \ {text} : cached_files'[other] = cached_files[other]
<1>1. "temporary" \in Names /\ "cached" \in Names /\ "temporary" # "cached"
  BY DEF Names
<1>2. PICK f : f = [cached_files[text] EXCEPT !.temporary = content]
  OBVIOUS
<1>3. cached_files[text] \in [Names -> {Missing} \cup Seq(Sources)]
  BY DEF CacheTyped, CacheFiles
<1>4. /\ f \in [Names -> {Missing} \cup Seq(Sources)] /\ f.temporary = content
      /\ f.cached = cached_files[text].cached
  BY <1>1, <1>2, <1>3
<1>5. cached_files' = [cached_files EXCEPT ![text] = f]
  BY <1>2
<1>6. /\ cached_files' \in CacheFiles /\ cached_files'[text] = f
      /\ \A other \in Sources \ {text} : cached_files'[other] = cached_files[other]
  BY <1>4, <1>5 DEF CacheTyped, CacheFiles
<1>7. CachedWhole'
  BY <1>4, <1>6 DEF CachedWhole
<1>. QED
  BY <1>4, <1>6, <1>7

LEMMA StartKeeps ==
  ASSUME Separate, NEW p \in Runtimes, Start(p)
  PROVE  Separate'
<1>1. CacheTyped /\ CachedWhole /\ source \in Sources
  BY DEF Separate, CacheTyped
<1>. DEFINE kept == cached_files[source].cached
            program == IF Accepts(kept, source) THEN kept ELSE Compiled(source)
<1>2. program = Compiled(source)
  <2>1. kept = Missing \/ kept = Compiled(source)
    BY <1>1 DEF CachedWhole
  <2>2. ~Accepts(Missing, source)
    BY DEF Accepts, Missing, Pieces
  <2>. QED
    BY <2>1, <2>2
<1>3. PICK r : r = Runtime("save", source, Compiled(source), "none", 0)
  OBVIOUS
<1>4. /\ runtime' = [runtime EXCEPT ![p] = r] /\ UNCHANGED <<source, cached_files>>
  BY <1>2, <1>3 DEF Start, Moves, Hash
<1>5. /\ r \in RuntimeStates /\ r.at = "save" /\ r.text = source /\ r.program = Compiled(source)
      /\ r.written = 0
  BY <1>1, <1>3 DEF Runtime, RuntimeStates, Pieces
<1>. QED
  BY <1>1, <1>4, <1>5, OneMoves DEF CacheTyped, CachedWhole

LEMMA OpenKeeps ==
  ASSUME Separate, NEW p \in Runtimes, Open(p), Sharers(p, "temporary") = {}
  PROVE  Separate'
<1>1. CacheTyped /\ CachedWhole /\ runtime[p] \in RuntimeStates /\ runtime[p].at = "save"
      /\ runtime[p].text \in Sources /\ Key(p) = runtime[p].text /\ runtime[p].written = 0
      /\ runtime[p].program = Compiled(runtime[p].text)
  BY RuntimeType DEF Separate, CacheTyped, Open, WritesOwn, LoadedIsCompiled
<1>2. PICK text \in Sources : text = runtime[p].text
  BY <1>1
<1>3. PICK r : r = [runtime[p] EXCEPT !.at = "write", !.opened = "temporary"]
  OBVIOUS
<1>4. /\ r \in RuntimeStates /\ r.at = "write" /\ r.opened = "temporary" /\ r.text = text
      /\ r.written = 0 /\ r.program = Compiled(text)
  BY <1>1, <1>2, <1>3 DEF RuntimeStates
<1>5. /\ cached_files' = [cached_files EXCEPT ![text].temporary = <<>>]
      /\ runtime' = [runtime EXCEPT ![p] = r] /\ UNCHANGED source
  BY <1>1, <1>2, <1>3 DEF Open, Moves
<1>6. /\ cached_files' \in CacheFiles /\ CachedWhole' /\ cached_files'[text].temporary = UpTo(text, 0)
      /\ \A other \in Sources \ {text} : cached_files'[other] = cached_files[other]
  BY <1>1, <1>5, OneTemporary, Three, EmptySeq
<1>7. \A q \in Runtimes \ {p} : Writes(q) => runtime[q].text # text /\ runtime[q].text \in Sources
  BY <1>1, <1>2, RuntimeType DEF Sharers, Separate, WritesOwn, Writes
<1>. QED
  BY <1>1, <1>4, <1>5, <1>6, <1>7, OneMoves DEF CacheTyped

\* A runtime that writes: nobody shares its file, and what it has written is there.
LEMMA Writer ==
  ASSUME Separate, NEW p \in Runtimes, Writes(p)
  PROVE  /\ CacheTyped /\ CachedWhole /\ runtime[p] \in RuntimeStates /\ runtime[p].text \in Sources
         /\ Key(p) = runtime[p].text /\ runtime[p].opened = "temporary"
         /\ runtime[p].program = Compiled(runtime[p].text)
         /\ cached_files[runtime[p].text].temporary = UpTo(runtime[p].text, runtime[p].written)
         /\ \A name : Sharers(p, name) = {}
         /\ \A q \in Runtimes \ {p} : Writes(q) => runtime[q].text # runtime[p].text
                                                  /\ runtime[q].text \in Sources
<1>1. CacheTyped /\ CachedWhole /\ OneWriter
  BY DEF Separate
<1>2. \A q \in Runtimes : Key(q) = runtime[q].text /\ runtime[q].text \in Sources
  BY <1>1, RuntimeType
<1>3. \A name : Sharers(p, name) = {}
  BY <1>1, <1>2 DEF Sharers, OneWriter, Writes
<1>. QED
  BY <1>1, <1>2, <1>3 DEF Separate, CacheTyped, OneWriter, WritesOwn, LoadedIsCompiled, Writes

LEMMA WritePieceKeeps ==
  ASSUME Separate, NEW p \in Runtimes, WritePiece(p)
  PROVE  Separate'
<1>1. Writes(p)
  BY DEF WritePiece, Writes
<1>2. PICK text \in Sources, k \in 1..3 : text = runtime[p].text /\ k = runtime[p].written + 1
  <2>1. runtime[p].written \in 0..3 /\ runtime[p].written < 3
    BY <1>1, Writer, RuntimeType DEF WritePiece, Pieces
  <2>. QED
    BY <1>1, <2>1, Writer
<1>3. PICK r : r = [runtime[p] EXCEPT !.written = k]
  OBVIOUS
<1>4. /\ r \in RuntimeStates /\ r.at = "write" /\ r.opened = "temporary" /\ r.text = text
      /\ r.written = k /\ r.program = Compiled(text)
  BY <1>1, <1>2, <1>3, Writer DEF RuntimeStates, Writes, Pieces
<1>5. WrittenAt(UpTo(text, k - 1), k, text) = UpTo(text, k)
  <2>1. Len(UpTo(text, k - 1)) = k - 1
    <3>1. k - 1 \in Nat /\ UpTo(text, k - 1) \in [1..(k - 1) -> Sources]
      BY DEF UpTo
    <3>2. UpTo(text, k - 1) \in Seq(Sources)
      BY <3>1, SeqDef
    <3>3. /\ Len(UpTo(text, k - 1)) \in Nat /\ DOMAIN UpTo(text, k - 1) = 1..Len(UpTo(text, k - 1))
      BY <3>2, LenProperties
    <3>. QED
      BY <3>1, <3>3
  <2>. QED
    BY <2>1 DEF WrittenAt, UpTo
<1>6. /\ cached_files' = [cached_files EXCEPT ![text].temporary = UpTo(text, k)]
      /\ runtime' = [runtime EXCEPT ![p] = r] /\ UNCHANGED source
  <2>1. runtime[p].program[k] = text
    BY <1>1, <1>2, Writer, Three
  <2>2. cached_files' = [cached_files EXCEPT ![Key(p)][runtime[p].opened] = WrittenAt(@, k, text)]
    BY <1>1, <1>2, <2>1, Writer DEF WritePiece
  <2>3. cached_files' = [cached_files EXCEPT ![text]["temporary"] = WrittenAt(@, k, text)]
    BY <1>1, <1>2, <2>2, Writer
  <2>4. cached_files[text].temporary = UpTo(text, k - 1)
    <3>1. runtime[p].written = k - 1
      BY <1>1, <1>2, Writer, RuntimeType DEF Pieces
    <3>. QED
      BY <1>1, <1>2, <3>1, Writer
  <2>5. cached_files' = [cached_files EXCEPT ![text].temporary = UpTo(text, k)]
    BY <1>5, <2>3, <2>4
  <2>. QED
    BY <1>2, <1>3, <2>5 DEF WritePiece, Moves
<1>7. UpTo(text, k) \in Seq(Sources)
  <2>1. k \in Nat /\ UpTo(text, k) \in [1..k -> Sources]
    BY DEF UpTo
  <2>. QED
    BY <2>1, SeqDef
<1>8. /\ cached_files' \in CacheFiles /\ CachedWhole' /\ cached_files'[text].temporary = UpTo(text, k)
      /\ \A other \in Sources \ {text} : cached_files'[other] = cached_files[other]
  BY <1>1, <1>6, <1>7, OneTemporary, Writer
<1>9. \A q \in Runtimes \ {p} : Writes(q) => runtime[q].text # text /\ runtime[q].text \in Sources
  BY <1>1, <1>2, Writer
<1>. QED
  BY <1>1, <1>4, <1>6, <1>8, <1>9, OneMoves, Writer DEF CacheTyped

LEMMA SaveFailsKeeps ==
  ASSUME Separate, NEW p \in Runtimes, SaveFails(p)
  PROVE  Separate'
<1>1. Writes(p)
  BY DEF SaveFails, Writes
<1>2. PICK text \in Sources : text = runtime[p].text
  BY <1>1, Writer
<1>3. Renamed(p, "none") /\ UNCHANGED source
      /\ cached_files' = [cached_files EXCEPT ![text].temporary = Missing]
  BY <1>1, <1>2, Writer DEF SaveFails
<1>4. runtime' = [runtime EXCEPT ![p] = Idle]
  <2>1. runtime' = [q \in Runtimes |-> IF q = p THEN Idle ELSE runtime[q]]
    BY <1>1, <1>3, Writer DEF Renamed
  <2>. QED
    BY <1>1, <2>1, Writer DEF CacheTyped
<1>5. /\ cached_files' \in CacheFiles /\ CachedWhole'
      /\ \A other \in Sources \ {text} : cached_files'[other] = cached_files[other]
  BY <1>1, <1>3, OneTemporary, Writer
<1>6. \A q \in Runtimes \ {p} : Writes(q) => runtime[q].text # text /\ runtime[q].text \in Sources
  BY <1>1, <1>2, Writer
<1>. QED
  BY <1>1, <1>3, <1>4, <1>5, <1>6, OneMoves, Writer, IdleType DEF CacheTyped

LEMMA ReplaceFileKeeps ==
  ASSUME Separate, NEW p \in Runtimes, ReplaceFile(p)
  PROVE  Separate'
<1>1. Writes(p)
  BY DEF ReplaceFile, Writes
<1>2. PICK text \in Sources : text = runtime[p].text
  BY <1>1, Writer
<1>3. cached_files[text].temporary = Compiled(text) /\ Compiled(text) # Missing
      /\ Compiled(text) \in Seq(Sources)
  BY <1>1, <1>2, Writer, Three DEF ReplaceFile, Pieces
<1>4. PICK f : f = [cached |-> Compiled(text), temporary |-> Missing]
  OBVIOUS
<1>5. Renamed(p, "cached") /\ UNCHANGED source /\ cached_files' = [cached_files EXCEPT ![text] = f]
  BY <1>1, <1>2, <1>3, <1>4, Writer DEF ReplaceFile
<1>6. runtime' = [runtime EXCEPT ![p] = Idle]
  <2>1. runtime' = [q \in Runtimes |-> IF q = p THEN Idle ELSE runtime[q]]
    BY <1>1, <1>5, Writer DEF Renamed
  <2>. QED
    BY <1>1, <2>1, Writer DEF CacheTyped
<1>7. f \in [Names -> {Missing} \cup Seq(Sources)] /\ f.cached = Compiled(text)
  BY <1>3, <1>4 DEF Names
<1>8. /\ cached_files' \in CacheFiles /\ cached_files'[text] = f
      /\ \A other \in Sources \ {text} : cached_files'[other] = cached_files[other]
  BY <1>1, <1>5, <1>7, Writer DEF CacheTyped, CacheFiles
<1>9. CachedWhole'
  BY <1>1, <1>7, <1>8, Writer DEF CachedWhole
<1>10. \A q \in Runtimes \ {p} : Writes(q) => runtime[q].text # text /\ runtime[q].text \in Sources
  BY <1>1, <1>2, Writer
<1>. QED
  BY <1>1, <1>5, <1>6, <1>8, <1>9, <1>10, OneMoves, Writer, IdleType DEF CacheTyped

LEMMA KilledKeeps ==
  ASSUME Separate, NEW p \in Runtimes, Killed(p)
  PROVE  Separate'
<1>1. runtime' = [runtime EXCEPT ![p] = Idle] /\ UNCHANGED <<source, cached_files>>
  BY DEF Killed, Moves
<1>. QED
  BY <1>1, OneMoves, IdleType DEF Separate, CacheTyped, CachedWhole

LEMMA OverlapStep ==
  ASSUME overlap \in BOOLEAN, CacheNext, ~overlap'
  PROVE  ~overlap /\ \A p \in Runtimes : Open(p) => Sharers(p, "temporary") = {}
<1>1. ASSUME NEW p \in Runtimes, Open(p)
      PROVE  ~overlap /\ Sharers(p, "temporary") = {}
  <2>1. overlap' = (overlap \/ Sharers(p, "temporary") # {})
    BY <1>1 DEF Open
  <2>. QED
    BY <2>1, Zenon
<1>2. ASSUME UNCHANGED overlap PROVE ~overlap
  BY <1>2
<1>3. \/ UNCHANGED overlap
      \/ \E p \in Runtimes : Open(p)
  BY DEF CacheNext, Edit, Start, WritePiece, SaveFails, ReplaceFile, Killed
<1>. QED
  BY <1>1, <1>2, <1>3

LEMMA CacheKeeps ==
  ASSUME CacheInv, [CacheNext]_cacheVars
  PROVE  CacheInv'
<1>1. overlap' \in BOOLEAN
  BY DEF CacheInv, CacheNext, Edit, Start, Open, WritePiece, SaveFails, ReplaceFile, Killed, cacheVars
<1>2. ASSUME ~overlap', CacheNext PROVE Separate'
  <2>1. Separate /\ \A p \in Runtimes : Open(p) => Sharers(p, "temporary") = {}
    BY <1>2, OverlapStep DEF CacheInv
  <2>2. ASSUME Edit PROVE Separate'
    BY <2>1, <2>2 DEF Edit, Separate, CacheTyped, OneWriter, WritesOwn, CachedWhole, LoadedIsCompiled,
       Writes
  <2>. QED
    BY <1>2, <2>1, <2>2, StartKeeps, OpenKeeps, WritePieceKeeps, SaveFailsKeeps, ReplaceFileKeeps,
       KilledKeeps DEF CacheNext
<1>3. ASSUME ~overlap', UNCHANGED cacheVars PROVE Separate'
  BY <1>3 DEF cacheVars, CacheInv, Separate, CacheTyped, OneWriter, WritesOwn, CachedWhole,
     LoadedIsCompiled, Writes
<1>. QED
  BY <1>1, <1>2, <1>3 DEF CacheInv

LEMMA CacheStarts == CacheInit => CacheInv
<1>. SUFFICES ASSUME CacheInit PROVE CacheInv
  OBVIOUS
<1>1. CacheTyped
  BY IdleType DEF CacheInit, CacheTyped, CacheFiles, Sources
<1>2. \A p \in Runtimes : runtime[p].at = "idle"
  BY IdleType DEF CacheInit
<1>3. \A text \in Sources : cached_files[text].cached = Missing
  BY DEF CacheInit, Names
<1>. QED
  BY <1>1, <1>2, <1>3 DEF CacheInit, CacheInv, Separate, OneWriter, WritesOwn, CachedWhole,
     LoadedIsCompiled, Writes

\* Any number of runtimes that start, are killed and find the disk full, on POSIX or
\* Windows, while the application is edited: as long as no two have written one cache
\* file at once, what is loaded is what the source compiles to.
THEOREM CacheAlwaysSound == CacheSpec => []LoadedIfAlone
<1>1. CacheInv /\ [CacheNext]_cacheVars => CacheInv'
  BY CacheKeeps
<1>2. CacheInv => LoadedIfAlone
  BY DEF CacheInv, Separate, LoadedIfAlone
<1>. QED
  BY <1>1, <1>2, CacheStarts, PTL DEF CacheSpec

----------------------------------------------------------------------------
(* HttpClient: the requests of a chain of redirects.                       *)

Requests == [visited : Seq(URLs), method : {"GET", "POST"}, body : BOOLEAN,
             authorized : BOOLEAN, explicit : BOOLEAN]

\* A call has addresses that it visited one after the other, each once, from https only to
\* https; with Authorization all of one origin, and with a body by POST.
Chain ==
  Requesting =>
    LET visited == request.visited
    IN  /\ request \in Requests /\ visited # <<>> /\ Len(visited) <= MaxRedirects + 1
        /\ \A j, k \in 1..Len(visited) : visited[j] = visited[k] => j = k
        /\ \A j, k \in 1..Len(visited) :
             j < k /\ visited[j].scheme = "https" => visited[k].scheme = "https"
        /\ request.authorized => \A k \in 1..Len(visited) : Origin(visited[k]) = Origin(visited[1])
        /\ request.body => request.method = "POST"

RequestsInv == Chain /\ AuthorizationStays /\ BodyWithMethod /\ ExplicitStays

LEMMA ChainFacts ==
  ASSUME Chain, Requesting
  PROVE  /\ request \in Requests /\ request.visited \in Seq(URLs) /\ Len(request.visited) \in Nat \ {0}
         /\ DOMAIN request.visited = 1..Len(request.visited)
         /\ \A k \in 1..Len(request.visited) : request.visited[k] \in URLs
         /\ Current = request.visited[Len(request.visited)] /\ Initial = request.visited[1]
<1>1. request \in Requests /\ request.visited # <<>>
  BY DEF Chain
<1>2. request.visited \in Seq(URLs)
  BY <1>1 DEF Requests
<1>. QED
  BY <1>1, <1>2, EmptySeq, LenProperties, ElementOfSeq, HeadTailProperties DEF Current, Initial, Last

\* What an exchange carries is of the call and of the address it is at.
LEMMA CarriesKeeps ==
  ASSUME RequestsInv, Requesting, NEW cookies, sent' = Carries(Current, cookies)
  PROVE  AuthorizationStays' /\ BodyWithMethod' /\ ExplicitStays'
<1>1. /\ sent'.url = Current /\ sent'.initial = Initial /\ sent'.authorized = request.authorized
      /\ sent'.body = request.body /\ sent'.method = request.method /\ sent'.explicit = Explicit(Current)
  BY DEF Carries
<1>2. request.authorized => Origin(Current) = Origin(Initial)
  BY ChainFacts DEF RequestsInv, Chain
<1>3. request.body => request.method = "POST"
  BY DEF RequestsInv, Chain
<1>. QED
  BY <1>1, <1>2, <1>3 DEF AuthorizationStays, BodyWithMethod, ExplicitStays, Explicit, Origin

LEMMA RedirectedKeeps ==
  ASSUME RequestsInv, Requesting, NEW target \in URLs, NEW status \in {303, 307}, Follows(target),
         request' = Redirected(target, status)
  PROVE  Chain'
<1>. DEFINE visited == request.visited
<1>1. /\ request \in Requests /\ visited \in Seq(URLs) /\ Len(visited) \in Nat \ {0}
      /\ DOMAIN visited = 1..Len(visited) /\ \A k \in 1..Len(visited) : visited[k] \in URLs
      /\ Current = visited[Len(visited)] /\ Initial = visited[1]
  BY ChainFacts DEF RequestsInv
<1>2. PICK authorized \in BOOLEAN, body \in BOOLEAN, method \in {"GET", "POST"} :
         /\ authorized = (request.authorized /\ Origin(target) = Origin(Current))
         /\ body = (request.body /\ status # 303)
         /\ method = IF status = 303 THEN "GET" ELSE request.method
  BY <1>1 DEF Requests
<1>3. request' = [request EXCEPT !.visited = Append(visited, target), !.authorized = authorized,
                                 !.method = method, !.body = body]
  BY <1>1, <1>2 DEF Redirected, Redirected_BodyKept, Authorized, Requests
<1>4. /\ Append(visited, target) \in Seq(URLs) /\ Len(Append(visited, target)) = Len(visited) + 1
      /\ Append(visited, target)[Len(visited) + 1] = target
      /\ \A k \in 1..Len(visited) : Append(visited, target)[k] = visited[k]
  BY <1>1, AppendProperties
<1>5. /\ request' \in Requests /\ request'.visited = Append(visited, target)
      /\ request'.authorized = authorized /\ request'.body = body /\ request'.method = method
  <2>1. PICK followed \in Seq(URLs) : followed = Append(visited, target)
    BY <1>4
  <2>2. request' = [request EXCEPT !.visited = followed, !.authorized = authorized,
                                   !.method = method, !.body = body]
    BY <1>3, <2>1
  <2>3. /\ request' \in Requests /\ request'.visited = followed
        /\ request'.authorized = authorized /\ request'.body = body /\ request'.method = method
    <3>1. request \in Requests
      BY <1>1
    <3>. HIDE DEF visited
    <3>2. PICK new : new = [request EXCEPT !.visited = followed, !.authorized = authorized,
                                           !.method = method, !.body = body]
      OBVIOUS
    <3>3. new \in Requests
      BY <3>1, <3>2 DEF Requests
    <3>4. new.visited = followed /\ new.method = method
      BY <3>1, <3>2 DEF Requests
    <3>5. new.authorized = authorized /\ new.body = body
      BY <3>1, <3>2, Zenon DEF Requests
    <3>6. request' = new
      BY <2>2, <3>2, Zenon
    <3>. QED
      BY <3>3, <3>4, <3>5, <3>6, Zenon
  <2>. QED
    BY <2>1, <2>3
<1>6. /\ Len(visited) <= MaxRedirects /\ ~(Current.scheme = "https" /\ target.scheme = "http")
      /\ \A k \in 1..Len(visited) : visited[k] # target
  BY <1>1 DEF Follows, Follows_Unbounded, ToSet
<1>7. MaxRedirects \in Nat /\ Len(request'.visited) = Len(visited) + 1
  BY <1>4, <1>5, ClientAssumption
<1>8. /\ \A k \in 1..Len(request'.visited) : k \in 1..Len(visited) \/ k = Len(visited) + 1
      /\ \A k \in 1..Len(visited) : request'.visited[k] = visited[k]
      /\ request'.visited[Len(visited) + 1] = target
  BY <1>1, <1>4, <1>5, <1>7
<1>9. request'.visited # <<>> /\ Len(request'.visited) <= MaxRedirects + 1
  BY <1>1, <1>4, <1>5, <1>6, <1>7, EmptySeq
<1>10. \A j, k \in 1..Len(request'.visited) : request'.visited[j] = request'.visited[k] => j = k
  <2>1. \A j, k \in 1..Len(visited) : visited[j] = visited[k] => j = k
    BY DEF RequestsInv, Chain
  <2>. HIDE DEF visited
  <2>. QED
    BY <1>6, <1>8, <2>1
<1>11. \A j, k \in 1..Len(request'.visited) :
         j < k /\ request'.visited[j].scheme = "https" => request'.visited[k].scheme = "https"
  <2>1. \A j, k \in 1..Len(visited) : j < k /\ visited[j].scheme = "https" => visited[k].scheme = "https"
    BY DEF RequestsInv, Chain
  <2>2. \A url \in URLs : url.scheme \in {"http", "https"}
    BY AddressesAssumption
  <2>3. \A j \in 1..Len(visited) : visited[j].scheme = "https" => target.scheme = "https"
    <3>. SUFFICES ASSUME NEW j \in 1..Len(visited), visited[j].scheme = "https"
                  PROVE  target.scheme = "https"
      OBVIOUS
    <3>1. Current.scheme = "https"
      <4>1. j = Len(visited) \/ j < Len(visited)
        BY <1>1
      <4>2. Len(visited) \in 1..Len(visited) /\ Current = visited[Len(visited)]
        BY <1>1
      <4>. HIDE DEF visited
      <4>3. visited[Len(visited)].scheme = "https"
        BY <2>1, <4>1, <4>2
      <4>. QED
        BY <4>2, <4>3
    <3>. QED
      BY <1>6, <2>2, <3>1
  <2>. HIDE DEF visited
  <2>. QED
    BY <1>1, <1>8, <2>1, <2>3
<1>12. request'.authorized =>
         \A k \in 1..Len(request'.visited) : Origin(request'.visited[k]) = Origin(request'.visited[1])
  <2>. SUFFICES ASSUME authorized
                PROVE  \A k \in 1..Len(request'.visited) :
                         Origin(request'.visited[k]) = Origin(request'.visited[1])
    BY <1>5
  <2>1. /\ \A k \in 1..Len(visited) : Origin(visited[k]) = Origin(visited[1])
        /\ Origin(target) = Origin(visited[Len(visited)])
    BY <1>1, <1>2 DEF RequestsInv, Chain
  <2>2. 1 \in 1..Len(visited) /\ Len(visited) \in 1..Len(visited)
    BY <1>1
  <2>. HIDE DEF visited
  <2>. QED
    BY <1>8, <2>1, <2>2
<1>13. request'.body => request'.method = "POST"
  BY <1>2, <1>5 DEF RequestsInv, Chain
<1>. QED
  BY <1>5, <1>9, <1>10, <1>11, <1>12, <1>13 DEF Chain

LEMMA BeginRequestKeeps ==
  ASSUME NEW url \in URLs, NEW call \in Calls, BeginRequest(url, call)
  PROVE  RequestsInv'
<1>1. PICK visited : visited = <<url>>
  OBVIOUS
<1>2. request' = [visited |-> visited, method |-> call.method, body |-> call.body,
                  authorized |-> call.authorized, explicit |-> call.explicit]
  BY <1>1 DEF BeginRequest
<1>3. visited \in Seq(URLs) /\ Len(visited) = 1 /\ visited[1] = url /\ visited # <<>>
  BY <1>1, EmptySeq
<1>4. /\ call.method \in {"GET", "POST"} /\ call.body \in BOOLEAN /\ call.authorized \in BOOLEAN
      /\ call.explicit \in BOOLEAN /\ (call.body => call.method = "POST")
  <2>1. ASSUME NEW method \in {"GET", "POST"}, NEW authorized \in BOOLEAN, NEW explicit \in BOOLEAN,
               call = Call(method, authorized, explicit)
        PROVE  /\ call.method = method /\ call.body = (method = "POST")
               /\ call.authorized = authorized /\ call.explicit = explicit
    BY <2>1 DEF Call
  <2>2. PICK method \in {"GET", "POST"}, authorized \in BOOLEAN, explicit \in BOOLEAN :
           call = Call(method, authorized, explicit)
    BY CallsAssumption
  <2>. QED
    BY <2>1, <2>2
<1>5. request' \in Requests /\ request'.visited = visited /\ request'.body = call.body
      /\ request'.method = call.method
  BY <1>2, <1>3, <1>4 DEF Requests
<1>6. Chain'
  <2>1. Len(request'.visited) = 1 /\ request'.visited # <<>>
    BY <1>3, <1>5
  <2>2. \A k \in 1..Len(request'.visited) : k = 1
    BY <2>1
  <2>3. MaxRedirects \in Nat /\ Len(request'.visited) <= MaxRedirects + 1
    BY <2>1, ClientAssumption
  <2>4. \A j, k \in 1..Len(request'.visited) : j = k /\ ~(j < k)
    BY <2>2
  <2>5. \A k \in 1..Len(request'.visited) : Origin(request'.visited[k]) = Origin(request'.visited[1])
    BY <2>2
  <2>. QED
    BY <1>4, <1>5, <2>1, <2>3, <2>4, <2>5 DEF Chain
<1>7. AuthorizationStays' /\ BodyWithMethod' /\ ExplicitStays'
  BY DEF BeginRequest, AuthorizationStays, BodyWithMethod, ExplicitStays
<1>. QED
  BY <1>6, <1>7 DEF RequestsInv

LEMMA RequestsKeep ==
  ASSUME RequestsInv, [ClientNext]_clientVars
  PROVE  RequestsInv'
<1>1. ASSUME UNCHANGED request, UNCHANGED sent PROVE RequestsInv'
  BY <1>1 DEF RequestsInv, Chain, AuthorizationStays, BodyWithMethod, ExplicitStays, Requesting
<1>2. ASSUME Requesting, request' = NoRequest, NEW cookies, sent' = Carries(Current, cookies)
      PROVE  RequestsInv'
  BY <1>2, CarriesKeeps DEF RequestsInv, Chain, Requesting
<1>3. CASE Exchange
  <2>1. Requesting /\ sent' = Carries(Current, Bound(jar, Current.host))
    BY <1>3 DEF Exchange
  <2>2. \/ request' = NoRequest
        \/ \E target \in URLs, status \in {303, 307} : Follows(target) /\ request' = Redirected(target, status)
    BY <1>3 DEF Exchange
  <2>3. ASSUME NEW target \in URLs, NEW status \in {303, 307}, Follows(target),
               request' = Redirected(target, status)
        PROVE  RequestsInv'
    BY <2>1, <2>3, CarriesKeeps, RedirectedKeeps DEF RequestsInv
  <2>. QED
    BY <1>2, <2>1, <2>2, <2>3
<1>4. CASE TransportFails
  BY <1>2, <1>4 DEF TransportFails
<1>5. ASSUME NEW url \in URLs, NEW call \in Calls, BeginRequest(url, call) PROVE RequestsInv'
  BY <1>5, BeginRequestKeeps
<1>. QED
  BY <1>1, <1>3, <1>4, <1>5 DEF ClientNext, clientVars, CookieSet, CookieClear, TimePasses

\* Whatever servers answer: a chain of redirects ends, repeats no address and does not
\* leave https, a body goes with POST only, and neither Authorization nor the cookies given
\* for one request leave the origin of its first address, not even to come back.
THEOREM RequestsAlwaysSound == ClientSpec => [](RequestsSound /\ ExplicitStays)
<1>1. ClientInit => RequestsInv
  BY DEF ClientInit, RequestsInv, Chain, Requesting, AuthorizationStays, BodyWithMethod, ExplicitStays
<1>2. RequestsInv /\ [ClientNext]_clientVars => RequestsInv'
  BY RequestsKeep
<1>3. RequestsInv => RequestsSound /\ ExplicitStays
  <2>. SUFFICES ASSUME RequestsInv PROVE RedirectsSound
    BY DEF RequestsInv, RequestsSound
  <2>. SUFFICES ASSUME Requesting
                PROVE  /\ IsInjective(request.visited) /\ Len(request.visited) <= MaxRedirects + 1
                       /\ \A j, k \in DOMAIN request.visited : j < k /\ request.visited[j].scheme = "https"
                                                              => request.visited[k].scheme = "https"
    BY DEF RedirectsSound
  <2>. QED
    BY ChainFacts DEF RequestsInv, Chain, IsInjective
<1>. QED
  BY <1>1, <1>2, <1>3, PTL DEF ClientSpec

----------------------------------------------------------------------------
(* The operators of the model on sequences, and the least of a set.        *)

LEMMA Smallest ==
  ASSUME NEW S \in SUBSET Nat, S # {}
  PROVE  \E m \in S : \A n \in S : m <= n
<1>. DEFINE Less == {ss \in Nat \X Nat : ss[1] < ss[2]}
<1>1. IsWellFoundedOn(Less, Nat)
  BY NatLessThanWellFounded, Zenon DEF OpToRel
<1>2. \E m \in S : \A n \in S : <<n, m>> \notin Less
  <2>. HIDE DEF Less
  <2>. QED
    BY <1>1, WFMin, Zenon
<1>3. \A m, n \in Nat : <<n, m>> \in Less <=> n < m
  OBVIOUS
<1>4. PICK m \in S : \A n \in S : ~(n < m)
  <2>. HIDE DEF Less
  <2>. QED
    BY <1>2, <1>3
<1>. QED
  BY <1>4

\* f counts up to m.
Picks(f, m, s, keep) ==
  f = [n \in 0..m |-> IF n = 0 THEN <<>> ELSE IF n \in keep THEN Append(f[n - 1], s[n]) ELSE f[n - 1]]

LEMMA PicksExist ==
  ASSUME NEW s, NEW keep
  PROVE  \A m \in Nat : \E f : Picks(f, m, s, keep)
<1>. DEFINE Without == {m \in Nat : ~\E f : Picks(f, m, s, keep)}
<1>. SUFFICES ASSUME Without # {} PROVE FALSE
  OBVIOUS
<1>1. PICK m \in Without : \A n \in Without : m <= n
  BY Smallest
<1>2. m # 0
  <2>1. Picks([n \in 0..0 |-> <<>>], 0, s, keep)
    BY DEF Picks
  <2>. QED
    BY <2>1
<1>3. m - 1 \in Nat /\ m - 1 \notin Without
  BY <1>1, <1>2
<1>4. PICK f : Picks(f, m - 1, s, keep)
  BY <1>3
<1>5. PICK g : g = [n \in 0..m |-> IF n = m THEN (IF m \in keep THEN Append(f[m - 1], s[m]) ELSE f[m - 1]) ELSE f[n]]
  OBVIOUS
<1>6. ASSUME NEW n \in 0..m
      PROVE  g[n] = IF n = 0 THEN <<>> ELSE IF n \in keep THEN Append(g[n - 1], s[n]) ELSE g[n - 1]
  <2>1. CASE n = m
    BY <1>2, <1>3, <1>5, <2>1
  <2>2. CASE n # m
    <3>1. n \in 0..(m - 1) /\ (n # 0 => n - 1 \in 0..(m - 1) /\ n - 1 # m)
      BY <2>2, <1>3
    <3>2. f[n] = IF n = 0 THEN <<>> ELSE IF n \in keep THEN Append(f[n - 1], s[n]) ELSE f[n - 1]
      BY <1>4, <3>1 DEF Picks
    <3>3. g[n] = f[n] /\ (n # 0 => g[n - 1] = f[n - 1])
      BY <1>5, <3>1, <2>2
    <3>. QED
      BY <3>2, <3>3
  <2>. QED
    BY <2>1, <2>2
<1>7. Picks(g, m, s, keep)
  BY <1>5, <1>6 DEF Picks
<1>. QED
  BY <1>7

LEMMA ThoseIs ==
  ASSUME NEW S, NEW s \in Seq(S), NEW keep
  PROVE  Those(s, keep) \in Seq(S) /\ Len(Those(s, keep)) <= Len(s)
<1>1. Len(s) \in Nat /\ \A n \in 1..Len(s) : s[n] \in S
  BY LenProperties, ElementOfSeq
<1>2. PICK f : Picks(f, Len(s), s, keep) /\ Those(s, keep) = f[Len(s)]
  <2>1. \E f : Picks(f, Len(s), s, keep)
    BY <1>1, PicksExist
  <2>2. Picks(CHOOSE f : Picks(f, Len(s), s, keep), Len(s), s, keep)
    BY <2>1
  <2>3. Those(s, keep) = (CHOOSE f : Picks(f, Len(s), s, keep))[Len(s)]
    BY DEF Those, Picks
  <2>. QED
    BY <2>2, <2>3
<1>3. \A n \in 0..Len(s) : f[n] \in Seq(S) /\ Len(f[n]) <= n
  <2>. DEFINE Wrong == {n \in 0..Len(s) : ~(f[n] \in Seq(S) /\ Len(f[n]) <= n)}
  <2>. SUFFICES ASSUME Wrong # {} PROVE FALSE
    OBVIOUS
  <2>1. Wrong \subseteq Nat
    BY <1>1
  <2>2. PICK n \in Wrong : \A k \in Wrong : n <= k
    BY <2>1, Smallest
  <2>3. n \in 0..Len(s) /\ n \in Nat
    BY <2>1
  <2>4. f[n] = IF n = 0 THEN <<>> ELSE IF n \in keep THEN Append(f[n - 1], s[n]) ELSE f[n - 1]
    BY <1>2, <2>3 DEF Picks
  <2>5. n # 0
    <3>. SUFFICES ASSUME n = 0 PROVE FALSE
      OBVIOUS
    <3>1. PICK none \in Seq(S) : none = <<>> /\ Len(none) = 0
      BY EmptySeq
    <3>2. f[n] = none
      BY <2>4, <3>1
    <3>3. f[n] \in Seq(S) /\ Len(f[n]) <= n
      <4>1. Len(none) <= n
        BY <3>1
      <4>. QED
        BY <3>1, <3>2, <4>1
    <3>. QED
      BY <2>2, <3>3
  <2>6. n - 1 \in 0..Len(s) /\ n - 1 \notin Wrong /\ n \in 1..Len(s)
    BY <1>1, <2>2, <2>3, <2>5
  <2>7. PICK t \in Seq(S) : t = f[n - 1] /\ Len(t) <= n - 1 /\ Len(t) \in Nat
    BY <2>6
  <2>8. PICK more \in Seq(S) : more = Append(t, s[n]) /\ Len(more) = Len(t) + 1
    <3>1. PICK e \in S : e = s[n]
      BY <1>1, <2>6
    <3>2. Append(t, e) \in Seq(S) /\ Len(Append(t, e)) = Len(t) + 1
      BY <2>7, AppendProperties
    <3>. QED
      BY <3>1, <3>2
  <2>9. f[n] = IF n \in keep THEN more ELSE t
    BY <2>4, <2>5, <2>7, <2>8
  <2>10. Len(more) <= n /\ Len(t) <= n
    BY <2>3, <2>7, <2>8
  <2>11. f[n] \in Seq(S) /\ Len(f[n]) <= n
    <3>1. CASE n \in keep
      BY <2>8, <2>9, <2>10, <3>1
    <3>2. CASE n \notin keep
      BY <2>7, <2>9, <2>10, <3>2
    <3>. QED
      BY <3>1, <3>2
  <2>. QED
    BY <2>2, <2>11
<1>4. Len(s) \in 0..Len(s)
  BY <1>1
<1>. QED
  BY <1>2, <1>3, <1>4

----------------------------------------------------------------------------
(* HttpClient: where the cookies of the jar go.                            *)

JarCookies ==
  [setter : HostNames \cup {NoDomain}, domain : HostNames \cup {NoDomain}, path : Seq(STRING),
   secure : BOOLEAN, host_only : BOOLEAN, expires : {"never", "later", "past"}, hosts : SUBSET HostNames]

\* A cookie for one host was sent to its domain alone, one without a domain nowhere, and one
\* that a server set to hosts that end like that server.
CookieFits(c) ==
  /\ c.host_only => c.hosts \subseteq {c.domain}
  /\ c.domain = NoDomain => c.hosts = {} /\ c.setter = NoDomain
  /\ c.setter # NoDomain => /\ Last(c.domain) = Last(c.setter)
                            /\ \A host \in c.hosts : Last(host) = Last(c.setter)
Fitting == {c \in JarCookies : CookieFits(c)}

JarInv == jar \in Seq(Fitting) /\ Len(jar) <= MaxCookies /\ SecureStays

LEMMA FunctionIsSeq ==
  ASSUME NEW S, NEW n \in Nat, NEW f \in [1..n -> S]
  PROVE  f \in Seq(S) /\ Len(f) = n
  OBVIOUS

LEMMA ReverseIs ==
  ASSUME NEW S, NEW s \in Seq(S), s # <<>>
  PROVE  /\ Reverse(s) \in Seq(S) /\ Len(Reverse(s)) = Len(s) /\ Len(s) \in Nat /\ Len(s) >= 1
         /\ Reverse(s)[1] = s[Len(s)]
<1>1. PICK n \in Nat : n = Len(s) /\ n >= 1
  BY EmptySeq, LenProperties
<1>2. PICK r : r = [i \in 1..n |-> s[n - i + 1]]
  OBVIOUS
<1>3. r = Reverse(s)
  BY <1>1, <1>2 DEF Reverse
<1>4. \A i \in 1..n : s[n - i + 1] \in S
  BY <1>1, ElementOfSeq
<1>5. r \in Seq(S) /\ Len(r) = n
  BY <1>2, <1>4, FunctionIsSeq
<1>6. r[1] = s[n]
  BY <1>1, <1>2
<1>. QED
  BY <1>1, <1>3, <1>5, <1>6

LEMMA SuffixLast ==
  ASSUME NEW s \in Seq(STRING), NEW t \in Seq(STRING), s # <<>>, t # <<>>, IsSuffix(s, t)
  PROVE  Last(s) = Last(t)
<1>1. PICK r \in Seq(STRING), u \in Seq(STRING) :
        /\ r = Reverse(s) /\ u = Reverse(t) /\ r[1] = Last(s) /\ u[1] = Last(t)
        /\ Len(r) \in Nat /\ Len(u) \in Nat /\ Len(r) >= 1 /\ Len(u) >= 1
  BY ReverseIs DEF Last
<1>2. Len(r) <= Len(u) /\ SubSeq(r, 1, Len(r)) = SubSeq(u, 1, Len(r))
  BY <1>1 DEF IsSuffix, IsPrefix
<1>3. SubSeq(r, 1, Len(r))[1] = r[1] /\ SubSeq(u, 1, Len(r))[1] = u[1]
  BY <1>1, <1>2, SubSeqProperties
<1>. QED
  BY <1>1, <1>2, <1>3

LEMMA CookieIs ==
  ASSUME NEW setter \in HostNames \cup {NoDomain}, NEW domain \in HostNames \cup {NoDomain},
         NEW path \in Seq(STRING), NEW secure \in BOOLEAN, NEW host_only \in BOOLEAN,
         NEW lasts \in {"never", "later", "past"},
         setter # NoDomain => domain # NoDomain /\ Last(domain) = Last(setter)
  PROVE  Cookie(setter, domain, path, secure, host_only, lasts) \in Fitting
<1>1. PICK c : c = Cookie(setter, domain, path, secure, host_only, lasts)
  OBVIOUS
<1>2. c \in JarCookies
  BY <1>1 DEF Cookie, JarCookies
<1>3. c.setter = setter /\ c.domain = domain /\ c.hosts = {}
  BY <1>1 DEF Cookie
<1>4. CookieFits(c)
  BY <1>3 DEF CookieFits
<1>. QED
  BY <1>1, <1>2, <1>4 DEF Fitting

LEMMA LiveIs ==
  ASSUME NEW cookies \in Seq(Fitting)
  PROVE  Live(cookies) \in Seq(Fitting) /\ Len(Live(cookies)) <= Len(cookies)
  BY ThoseIs DEF Live

LEMMA StoredIs ==
  ASSUME NEW cookies \in Seq(Fitting), NEW c \in Fitting
  PROVE  Stored(cookies, c) \in Seq(Fitting) /\ Len(Stored(cookies, c)) <= Len(cookies) + 1
<1>1. PICK others \in Seq(Fitting) :
        /\ Len(others) <= Len(cookies)
        /\ Stored(cookies, c) = IF c.expires = "past" THEN others ELSE Append(others, c)
  BY ThoseIs DEF Stored
<1>2. Len(cookies) \in Nat /\ Len(others) \in Nat
  BY LenProperties
<1>3. Append(others, c) \in Seq(Fitting) /\ Len(Append(others, c)) = Len(others) + 1
  BY AppendProperties
<1>4. CASE c.expires = "past"
  BY <1>1, <1>2, <1>4
<1>5. CASE c.expires # "past"
  BY <1>1, <1>2, <1>3, <1>5
<1>. QED
  BY <1>4, <1>5

\* Every cookie that is looked at for a host has a domain afterwards.
LEMMA BoundIs ==
  ASSUME NEW cookies \in Seq(Fitting), NEW host \in HostNames
  PROVE  /\ Bound(cookies, host) \in Seq(Fitting) /\ Len(Bound(cookies, host)) <= Len(cookies)
         /\ \A k \in 1..Len(Bound(cookies, host)) : Bound(cookies, host)[k].domain # NoDomain
<1>1. PICK live \in Seq(Fitting) : live = Live(cookies) /\ Len(live) <= Len(cookies)
  BY LiveIs
<1>2. PICK n \in Nat : n = Len(live) /\ DOMAIN live = 1..n
  BY LenProperties
<1>3. PICK bound : bound = [k \in 1..n |-> IF live[k].domain = NoDomain
                                   THEN [live[k] EXCEPT !.domain = host, !.host_only = TRUE] ELSE live[k]]
  OBVIOUS
<1>4. Bound(cookies, host) = bound
  BY <1>1, <1>2, <1>3 DEF Bound
<1>5. ASSUME NEW k \in 1..n PROVE bound[k] \in Fitting /\ bound[k].domain # NoDomain
  <2>1. PICK c \in Fitting : c = live[k]
    BY <1>2, ElementOfSeq
  <2>2. CASE c.domain # NoDomain
    BY <1>3, <2>1, <2>2
  <2>3. CASE c.domain = NoDomain
    <3>1. PICK new : new = [c EXCEPT !.domain = host, !.host_only = TRUE]
      OBVIOUS
    <3>2. bound[k] = new
      BY <1>3, <2>1, <2>3, <3>1
    <3>3. new \in JarCookies
      BY <3>1 DEF Fitting, JarCookies
    <3>4. new.domain = host /\ new.hosts = c.hosts /\ new.setter = c.setter
      BY <3>1 DEF Fitting, JarCookies
    <3>5. host # NoDomain
      BY DEF HostNames
    <3>6. c.hosts = {} /\ c.setter = NoDomain
      BY <2>3 DEF Fitting, CookieFits
    <3>7. CookieFits(new)
      BY <3>4, <3>5, <3>6 DEF CookieFits
    <3>. QED
      BY <3>2, <3>3, <3>4, <3>5, <3>7 DEF Fitting
  <2>. QED
    BY <2>2, <2>3
<1>6. bound \in Seq(Fitting) /\ Len(bound) = n
  <2>1. bound \in [1..n -> Fitting]
    BY <1>3, <1>5
  <2>. QED
    BY <2>1, FunctionIsSeq
<1>. QED
  BY <1>1, <1>2, <1>4, <1>5, <1>6

LEMMA ReceivedIs ==
  ASSUME NEW set \in SetCookies, NEW url \in URLs, DomainAllowed(set, url.host)
  PROVE  Received(set, url) \in Fitting
<1>1. /\ url.host \in HostNames /\ url.path \in Seq(STRING)
      /\ set.domain \in HostNames \cup {NoDomain} /\ set.path \in Seq(STRING) /\ set.secure \in BOOLEAN
      /\ set.expires \in {"never", "later", "past"}
  BY AddressesAssumption, CookiesAssumption
<1>. DEFINE domain == IF set.domain = NoDomain THEN url.host ELSE set.domain
            path == IF set.path # NoDomain THEN set.path
                    ELSE IF url.path = <<>> THEN <<>> ELSE Front(url.path)
<1>2. domain \in HostNames /\ domain # NoDomain
  BY <1>1 DEF HostNames
<1>3. Last(domain) = Last(url.host)
  <2>1. CASE set.domain = NoDomain
    BY <2>1
  <2>2. CASE set.domain # NoDomain
    <3>1. IsSuffix(set.domain, url.host)
      BY <2>2 DEF DomainAllowed
    <3>2. /\ set.domain \in Seq(STRING) /\ set.domain # <<>>
          /\ url.host \in Seq(STRING) /\ url.host # <<>>
      BY <1>1, <2>2 DEF HostNames
    <3>. QED
      BY <2>2, <3>1, <3>2, SuffixLast
  <2>. QED
    BY <2>1, <2>2
<1>4. path \in Seq(STRING)
  <2>1. PICK segments \in Seq(STRING) : segments = url.path
    BY <1>1
  <2>2. segments # <<>> => SubSeq(segments, 1, Len(segments) - 1) \in Seq(STRING)
    BY ReverseIs, SubSeqProperties, ElementOfSeq
  <2>. QED
    BY <1>1, <2>1, <2>2, EmptySeq DEF Front
<1>5. Received(set, url) = Cookie(url.host, domain, path, set.secure, set.domain = NoDomain, set.expires)
  BY DEF Received
<1>6. PICK only \in BOOLEAN : only = (set.domain = NoDomain)
  OBVIOUS
<1>7. url.host \in HostNames \cup {NoDomain} /\ domain \in HostNames \cup {NoDomain}
  BY <1>1, <1>2
<1>. HIDE DEF domain, path
<1>8. Cookie(url.host, domain, path, set.secure, only, set.expires) \in Fitting
  BY <1>1, <1>2, <1>3, <1>4, <1>7, CookieIs
<1>. QED
  BY <1>5, <1>6, <1>8, Zenon

\* Of the cookies that match, one has a path no longer than the others and is the newest of
\* those.
LEMMA SendsIs ==
  ASSUME NEW cookies \in Seq(Fitting), NEW url, Selected(cookies, url) # {}
  PROVE  Sends(cookies, url) \in Selected(cookies, url)
<1>1. PICK matching : matching = Selected(cookies, url) /\ matching # {}
  OBVIOUS
<1>2. PICK n \in Nat : n = Len(cookies) /\ DOMAIN cookies = 1..n
  BY LenProperties
<1>3. matching \subseteq 1..n
  BY <1>1, <1>2 DEF Selected
<1>4. PICK size : size = [k \in 1..n |-> Len(cookies[k].path)]
  OBVIOUS
<1>5. \A k \in 1..n : size[k] \in Nat /\ size[k] = Len(cookies[k].path)
  <2>. SUFFICES ASSUME NEW k \in 1..n PROVE Len(cookies[k].path) \in Nat
    BY <1>4
  <2>1. cookies[k] \in Fitting
    BY <1>2, ElementOfSeq
  <2>. QED
    BY <2>1, LenProperties DEF Fitting, JarCookies
<1>6. PICK least \in {size[k] : k \in matching} : \A m \in {size[k] : k \in matching} : least <= m
  <2>1. {size[k] : k \in matching} \subseteq Nat /\ {size[k] : k \in matching} # {}
    BY <1>1, <1>3, <1>5
  <2>. QED
    BY <2>1, Smallest
<1>7. PICK back \in {n - k : k \in {j \in matching : size[j] = least}} :
         \A m \in {n - k : k \in {j \in matching : size[j] = least}} : back <= m
  <2>1. /\ {n - k : k \in {j \in matching : size[j] = least}} \subseteq Nat
        /\ {n - k : k \in {j \in matching : size[j] = least}} # {}
    BY <1>1, <1>3, <1>6
  <2>. QED
    BY <2>1, Smallest
<1>8. PICK k \in matching : size[k] = least /\ back = n - k
  BY <1>7
<1>9. ASSUME NEW j \in matching \ {k}
      PROVE  size[j] > size[k] \/ (size[j] = size[k] /\ j < k)
  <2>1. size[k] <= size[j] /\ size[j] \in Nat /\ size[k] \in Nat /\ j \in 1..n /\ k \in 1..n /\ j # k
    BY <1>3, <1>5, <1>6, <1>8
  <2>2. size[j] = size[k] => n - k <= n - j
    BY <1>7, <1>8
  <2>. QED
    BY <2>1, <2>2
<1>10. \A j \in matching \ {k} :
         \/ Len(cookies[j].path) > Len(cookies[k].path)
         \/ Len(cookies[j].path) = Len(cookies[k].path) /\ j < k
  BY <1>3, <1>5, <1>9
<1>. QED
  BY <1>1, <1>10, Zenon DEF Sends

\* A cookie that goes to a host it matches still fits.
LEMMA SentFits ==
  ASSUME NEW cookies \in Seq(Fitting), NEW url \in URLs, NEW k \in Selected(cookies, url),
         \A j \in 1..Len(cookies) : cookies[j].domain # NoDomain
  PROVE  /\ [cookies EXCEPT ![k].hosts = @ \cup {url.host}] \in Seq(Fitting)
         /\ Len([cookies EXCEPT ![k].hosts = @ \cup {url.host}]) = Len(cookies)
<1>1. k \in 1..Len(cookies)
  BY LenProperties DEF Selected
<1>2. PICK c \in Fitting : c = cookies[k] /\ c.domain # NoDomain
  BY <1>1, ElementOfSeq
<1>3. PICK host \in HostNames : host = url.host
  BY AddressesAssumption
<1>4. PICK new : new = [c EXCEPT !.hosts = c.hosts \cup {host}]
  OBVIOUS
<1>5. new \in JarCookies
  BY <1>4 DEF Fitting, JarCookies
<1>6. new.setter = c.setter /\ new.domain = c.domain /\ new.hosts = c.hosts \cup {host}
  BY <1>4 DEF Fitting, JarCookies
<1>7. new.host_only = c.host_only
  BY <1>4, Zenon DEF Fitting, JarCookies
<1>8. IF c.host_only THEN host = c.domain ELSE IsSuffix(c.domain, host)
  BY <1>2, <1>3 DEF Selected, DomainMatch
<1>9. Last(host) = Last(c.domain)
  <2>1. CASE c.host_only
    BY <1>8, <2>1
  <2>2. CASE ~c.host_only
    <3>1. c.domain \in Seq(STRING) /\ c.domain # <<>> /\ host \in Seq(STRING) /\ host # <<>>
      BY <1>2 DEF Fitting, JarCookies, HostNames
    <3>. QED
      BY <1>8, <2>2, <3>1, SuffixLast
  <2>. QED
    BY <2>1, <2>2
<1>10. CookieFits(new)
  <2>1. new.host_only => new.hosts \subseteq {new.domain}
    BY <1>6, <1>7, <1>8 DEF Fitting, CookieFits
  <2>2. new.setter # NoDomain => /\ Last(new.domain) = Last(new.setter)
                                 /\ \A h \in new.hosts : Last(h) = Last(new.setter)
    BY <1>6, <1>9 DEF Fitting, CookieFits
  <2>. QED
    BY <1>2, <1>6, <2>1, <2>2 DEF CookieFits
<1>11. new \in Fitting
  BY <1>5, <1>10 DEF Fitting
<1>12. [cookies EXCEPT ![k].hosts = @ \cup {url.host}] = [cookies EXCEPT ![k] = new]
  BY <1>2, <1>3, <1>4
<1>13. [cookies EXCEPT ![k] = new] \in Seq(Fitting) /\ Len([cookies EXCEPT ![k] = new]) = Len(cookies)
  BY <1>1, <1>11, ExceptSeq
<1>. QED
  BY <1>12, <1>13, Zenon

\* What goes out in the clear is not secure, and the jar that an address leaves behind fits.
LEMMA SentInTheClear ==
  ASSUME NEW cookies \in Seq(Fitting), RequestsInv, Requesting, sent' = Carries(Current, cookies)
  PROVE  SecureStays'
<1>. SUFFICES ASSUME sent'.secure PROVE sent'.url.scheme = "https"
  BY DEF SecureStays
<1>1. /\ sent'.url = Current
      /\ sent'.secure = (~Explicit(Current) /\ Selected(cookies, Current) # {}
                           /\ cookies[Sends(cookies, Current)].secure)
  BY DEF Carries
<1>2. Selected(cookies, Current) # {} /\ cookies[Sends(cookies, Current)].secure
  BY <1>1, Zenon
<1>3. Sends(cookies, Current) \in Selected(cookies, Current)
  BY <1>2, SendsIs
<1>4. TransportMatch(Current, cookies[Sends(cookies, Current)])
  BY <1>3 DEF Selected
<1>. QED
  BY <1>1, <1>2, <1>4 DEF TransportMatch

LEMMA JarKeeps ==
  ASSUME RequestsInv, JarInv, [ClientNext]_clientVars
  PROVE  JarInv'
<1>1. jar \in Seq(Fitting) /\ Len(jar) \in Nat /\ Len(jar) <= MaxCookies /\ MaxCookies \in Nat
  BY LenProperties, ClientAssumption DEF JarInv
<1>2. ASSUME UNCHANGED sent \/ sent' = NoSent PROVE SecureStays'
  BY <1>2 DEF JarInv, SecureStays
<1>3. ASSUME Requesting
      PROVE  /\ Bound(jar, Current.host) \in Seq(Fitting) /\ Len(Bound(jar, Current.host)) <= Len(jar)
             /\ Len(Bound(jar, Current.host)) \in Nat /\ Current \in URLs
             /\ \A k \in 1..Len(Bound(jar, Current.host)) : Bound(jar, Current.host)[k].domain # NoDomain
  <2>1. Current \in URLs
    BY <1>3, ChainFacts DEF RequestsInv
  <2>2. Current.host \in HostNames
    BY <2>1, AddressesAssumption
  <2>. QED
    BY <1>1, <2>1, <2>2, BoundIs, LenProperties
<1>4. CASE Exchange
  <2>1. Requesting
    BY <1>4 DEF Exchange
  <2>2. PICK url \in URLs : url = Current
    BY <1>3, <2>1
  <2>3. PICK bound \in Seq(Fitting) :
          /\ bound = Bound(jar, url.host) /\ Len(bound) \in Nat /\ Len(bound) <= Len(jar)
          /\ \A k \in 1..Len(bound) : bound[k].domain # NoDomain
    BY <1>3, <2>1, <2>2
  <2>4. PICK carried : carried = Carries(url, bound)
    OBVIOUS
  <2>5. PICK kept : kept = IF carried.cookie = 0 THEN bound
                            ELSE [bound EXCEPT ![carried.cookie].hosts = @ \cup {url.host}]
    OBVIOUS
  <2>6. /\ sent' = carried
        /\ \/ jar' = kept
           \/ /\ \E set \in SetCookies : DomainAllowed(set, url.host) /\ jar' = Stored(kept, Received(set, url))
              /\ Len(jar') <= MaxCookies
    <3>. DEFINE Answered(was, what, left) ==
           /\ sent' = what
           /\ \/ \E set \in SetCookies : /\ ~DomainAllowed(set, was.host)
                                         /\ jar' = left /\ request' = NoRequest
              \/ /\ jar' \in {left} \cup {Stored(left, Received(set, was)) :
                                         set \in {c \in SetCookies : DomainAllowed(c, was.host)}}
                 /\ Len(jar') <= MaxCookies
    <3>1. Answered(Current, Carries(Current, Bound(jar, Current.host)),
            IF Carries(Current, Bound(jar, Current.host)).cookie = 0 THEN Bound(jar, Current.host)
            ELSE [Bound(jar, Current.host) EXCEPT
                    ![Carries(Current, Bound(jar, Current.host)).cookie].hosts = @ \cup {Current.host}])
      BY <1>4 DEF Exchange
    <3>. HIDE DEF Answered
    <3>2. Answered(url, carried, kept)
      BY <2>2, <2>3, <2>4, <2>5, <3>1
    <3>. USE DEF Answered
    <3>. QED
      BY <3>2
  <2>7. kept \in Seq(Fitting) /\ Len(kept) = Len(bound)
    <3>1. CASE carried.cookie = 0
      BY <2>5, <3>1
    <3>2. CASE carried.cookie # 0
      <4>1. carried.cookie = IF Explicit(url) \/ Selected(bound, url) = {} THEN 0 ELSE Sends(bound, url)
        BY <2>4 DEF Carries
      <4>2. PICK k \in Selected(bound, url) : k = carried.cookie
        BY <3>2, <4>1, SendsIs
      <4>3. kept = [bound EXCEPT ![k].hosts = @ \cup {url.host}]
        BY <2>5, <3>2, <4>2
      <4>. QED
        BY <2>3, <4>3, SentFits
    <3>. QED
      BY <3>1, <3>2
  <2>8. jar' \in Seq(Fitting) /\ Len(jar') <= MaxCookies
    <3>1. CASE jar' = kept
      BY <1>1, <2>3, <2>7, <3>1
    <3>2. ASSUME NEW set \in SetCookies, DomainAllowed(set, url.host),
                 jar' = Stored(kept, Received(set, url))
          PROVE  jar' \in Seq(Fitting)
      BY <2>7, <3>2, ReceivedIs, StoredIs
    <3>. QED
      BY <2>6, <3>1, <3>2
  <2>9. SecureStays'
    BY <2>1, <2>2, <2>4, <2>6, SentInTheClear
  <2>. QED
    BY <2>8, <2>9 DEF JarInv
<1>5. CASE TransportFails
  <2>1. /\ Requesting /\ jar' = Bound(jar, Current.host)
        /\ sent' = Carries(Current, Bound(jar, Current.host))
    BY <1>5 DEF TransportFails
  <2>2. SecureStays'
    BY <1>3, <2>1, SentInTheClear
  <2>3. jar' \in Seq(Fitting) /\ Len(jar') <= MaxCookies
    BY <1>1, <1>3, <2>1
  <2>. QED
    BY <2>2, <2>3 DEF JarInv
<1>6. ASSUME NEW own \in OwnCookies, CookieSet(own.domain, own.secure) PROVE JarInv'
  <2>1. own.domain \in HostNames \cup {NoDomain} /\ own.secure \in BOOLEAN
    BY CookiesAssumption
  <2>2. PICK only \in BOOLEAN : only = (own.domain = NoDomain)
    OBVIOUS
  <2>3. PICK c : c = Cookie(NoDomain, own.domain, <<>>, own.secure, only, "never")
    OBVIOUS
  <2>4. c \in Fitting
    BY <2>1, <2>3, CookieIs, EmptySeq
  <2>5. jar' = Stored(jar, c) /\ Len(jar) < MaxCookies /\ UNCHANGED sent
    BY <1>6, <2>2, <2>3, Zenon DEF CookieSet
  <2>6. jar' \in Seq(Fitting) /\ Len(jar') <= Len(jar) + 1 /\ Len(jar') \in Nat
    BY <1>1, <2>4, <2>5, StoredIs, LenProperties
  <2>7. Len(jar') <= MaxCookies
    BY <1>1, <2>5, <2>6
  <2>. QED
    BY <1>2, <2>5, <2>6, <2>7 DEF JarInv
<1>7. CASE CookieClear
  <2>1. PICK none \in Seq(Fitting) : none = <<>> /\ Len(none) = 0
    BY EmptySeq
  <2>2. jar' = none /\ UNCHANGED sent
    BY <1>7, <2>1 DEF CookieClear
  <2>3. jar' \in Seq(Fitting) /\ Len(jar') <= MaxCookies
    BY <1>1, <2>1, <2>2
  <2>. QED
    BY <1>2, <2>2, <2>3 DEF JarInv
<1>8. ASSUME NEW k \in DOMAIN jar, TimePasses(k) PROVE JarInv'
  <2>1. k \in 1..Len(jar)
    BY <1>1, LenProperties
  <2>2. PICK c \in Fitting : c = jar[k]
    BY <1>1, <2>1, ElementOfSeq
  <2>3. PICK new : new = [c EXCEPT !.expires = "past"]
    OBVIOUS
  <2>4. new \in JarCookies
    BY <2>3 DEF Fitting, JarCookies
  <2>5. new.setter = c.setter /\ new.domain = c.domain /\ new.hosts = c.hosts
    BY <2>3 DEF Fitting, JarCookies
  <2>6. new.host_only = c.host_only
    BY <2>3, Zenon DEF Fitting, JarCookies
  <2>7. new \in Fitting
    BY <2>4, <2>5, <2>6 DEF Fitting, CookieFits
  <2>8. jar' = [jar EXCEPT ![k] = new] /\ UNCHANGED sent
    BY <1>8, <2>2, <2>3 DEF TimePasses
  <2>9. [jar EXCEPT ![k] = new] \in Seq(Fitting) /\ Len([jar EXCEPT ![k] = new]) = Len(jar)
    BY <1>1, <2>1, <2>7, ExceptSeq
  <2>. QED
    BY <1>1, <1>2, <2>8, <2>9 DEF JarInv
<1>9. ASSUME NEW url \in URLs, NEW call \in Calls, BeginRequest(url, call) PROVE JarInv'
  BY <1>1, <1>2, <1>9 DEF BeginRequest, JarInv
<1>10. CASE UNCHANGED clientVars
  BY <1>1, <1>2, <1>10 DEF JarInv, clientVars
<1>. QED
  BY <1>4, <1>5, <1>6, <1>7, <1>8, <1>9, <1>10 DEF ClientNext

LEMMA CookiesStayIn ==
  ASSUME RequestsInv, JarInv
  PROVE  CookiesStay
<1>1. ASSUME NEW k \in DOMAIN jar PROVE jar[k] \in JarCookies /\ CookieFits(jar[k])
  BY LenProperties, ElementOfSeq DEF JarInv, Fitting
<1>2. HostOnlyStays
  <2>. SUFFICES ASSUME NEW k \in DOMAIN jar, jar[k].host_only PROVE Cardinality(jar[k].hosts) <= 1
    BY DEF HostOnlyStays
  <2>1. jar[k].hosts = {} \/ jar[k].hosts = {jar[k].domain}
    BY <1>1 DEF CookieFits
  <2>2. CASE jar[k].hosts = {}
    BY <2>2, FS_EmptySet
  <2>3. CASE jar[k].hosts = {jar[k].domain}
    BY <2>3, FS_Singleton
  <2>. QED
    BY <2>1, <2>2, <2>3
<1>3. DomainStays
  BY <1>1 DEF DomainStays, CookieFits
<1>4. ClientTypeOK
  <2>1. Len(jar) <= MaxCookies
    BY DEF JarInv
  <2>2. ASSUME Requesting
        PROVE  /\ request.visited \in SeqOf(URLs, MaxRedirects + 1)
               /\ {request.authorized, request.explicit, request.body} \subseteq BOOLEAN
               /\ request.method \in {"GET", "POST"}
    <3>1. request \in Requests /\ request.visited \in Seq(URLs) /\ Len(request.visited) <= MaxRedirects + 1
      BY <2>2, ChainFacts DEF RequestsInv, Chain
    <3>2. request.visited \in [1..Len(request.visited) -> URLs] /\ Len(request.visited) \in Nat
      BY <3>1, LenProperties
    <3>3. Len(request.visited) \in 0..(MaxRedirects + 1)
      BY <3>1, <3>2, ClientAssumption
    <3>4. request.visited \in SeqOf(URLs, MaxRedirects + 1)
      BY <3>2, <3>3 DEF SeqOf
    <3>. QED
      BY <3>1, <3>4 DEF Requests
  <2>. QED
    BY <2>1, <2>2 DEF ClientTypeOK
<1>. QED
  BY <1>2, <1>3, <1>4 DEF CookiesStay, JarInv, RequestsInv

\* Whatever servers set and answer, through redirects and as time passes: a cookie for one
\* host goes to that host only, one that a server set to hosts that end like it, a secure
\* one over https, and the ones given for a request to the first origin.
THEOREM CookiesAlwaysStay == ClientSpec => []CookiesStay
<1>1. ClientInit => RequestsInv /\ JarInv
  <2>. SUFFICES ASSUME ClientInit PROVE RequestsInv /\ JarInv
    OBVIOUS
  <2>1. RequestsInv
    BY DEF ClientInit, RequestsInv, Chain, Requesting, AuthorizationStays, BodyWithMethod, ExplicitStays
  <2>2. PICK none \in Seq(Fitting) : none = <<>> /\ Len(none) = 0
    BY EmptySeq
  <2>. QED
    BY <2>1, <2>2, ClientAssumption DEF ClientInit, JarInv, SecureStays
<1>2. RequestsInv /\ JarInv /\ [ClientNext]_clientVars => RequestsInv' /\ JarInv'
  BY RequestsKeep, JarKeeps
<1>3. RequestsInv /\ JarInv => CookiesStay
  BY CookiesStayIn
<1>. QED
  BY <1>1, <1>2, <1>3, PTL DEF ClientSpec

=============================================================================
