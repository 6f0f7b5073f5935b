-------------------------------- MODULE Files --------------------------------
(***************************************************************************)
(* The files of reference/separan/io_json.py and the secure cookie stores  *)
(* of cookie_store.py, used by programs that run at the same time and may  *)
(* be killed between any two steps.  What is written is written to a       *)
(* temporary file first, which then replaces the one it is for; what is    *)
(* copied is written in place.                                             *)
(*                                                                         *)
(* The content of a file is the sequence of the writes it is made of, or   *)
(* the container of a cookie store with its protection.  The encryption is *)
(* taken to be sound: a container opens with the key it was sealed with.   *)
(*                                                                         *)
(* An operator named X_Mistake is X with one mistake in it; no action uses *)
(* it, it shows which property would notice.                               *)
(***************************************************************************)
EXTENDS Naturals, Sequences, FiniteSets

CONSTANTS Programs,  \* the programs that run
          MaxWrites  \* bound: writes

ASSUME FilesAssumption == MaxWrites \in Nat

Paths == {"p", "q"}
\* bound: protections of a store: the key of the operating system or a password
Protections == {<<"os", "machine">>, <<"password", "one">>, <<"password", "two">>}

VARIABLES
  files,      \* path -> its content
  temporary,  \* program -> the temporary file it has made; its content
  doing,      \* program -> the operation it is in
  copied,     \* paths that a copy was the last to write to
  written,    \* writes so far
  crashed,    \* programs that were killed
  loaded      \* the last jar loaded: how it was asked for, and what came

fileVars == <<files, temporary, doing, copied, written, crashed, loaded>>

Absent == [absent |-> TRUE]
Text(parts) == [parts |-> parts, whole |-> TRUE]
Partial == [parts |-> <<>>, whole |-> FALSE]
Store(protection, jar) == [protection |-> protection, jar |-> jar, whole |-> TRUE]
IsText(f) == f # Absent /\ "parts" \in DOMAIN f
NoTask == [name |-> "none"]
NotLoaded == [nothing |-> TRUE]
Free(p) == doing[p] = NoTask /\ p \notin crashed
Task(p, name, path, content) ==
  doing' = [doing EXCEPT ![p] = [name |-> name, path |-> path, content |-> content]]
Ends(p) == doing' = [doing EXCEPT ![p] = NoTask]

----------------------------------------------------------------------------
\* write_text, write_bytes and cookie_save_secure; append_text reads what is there
\* first, and refuses what is not text.
Previous(path) == IF files[path] = Absent THEN <<>> ELSE files[path].parts
BeginWrite(p, path, appends, protection) ==
  /\ Free(p) /\ written < MaxWrites /\ (appends => files[path] = Absent \/ IsText(files[path]))
  /\ written' = written + 1
  /\ Task(p, "write", path,
          IF protection = {} THEN Text(Append(IF appends THEN Previous(path) ELSE <<>>, written'))
          ELSE Store(CHOOSE c \in protection : TRUE, written'))
  /\ UNCHANGED <<files, temporary, copied, crashed, loaded>>

\* _atomic_write: mkstemp, the whole content, os.replace; or an error at any of
\* them, and the temporary file is unlinked.
MakeTemporary(p) ==
  /\ doing[p].name = "write" /\ temporary[p] = Absent
  /\ temporary' = [temporary EXCEPT ![p] = doing[p].content]
  /\ UNCHANGED <<files, doing, copied, written, crashed, loaded>>

Replace(p) ==
  /\ doing[p].name = "write" /\ temporary[p] # Absent
  /\ files' = [files EXCEPT ![doing[p].path] = temporary[p]]
  /\ temporary' = [temporary EXCEPT ![p] = Absent] /\ Ends(p)
  /\ copied' = copied \ {doing[p].path}
  /\ UNCHANGED <<written, crashed, loaded>>
FilesAfterFailure_InPlace(p) == [files EXCEPT ![doing[p].path] = Partial]
FilesAfterFailure(p) == files
AfterFailure_Left(p) == temporary
AfterFailure(p) == [temporary EXCEPT ![p] = Absent]
WriteFails(p) ==
  /\ doing[p].name = "write" /\ files' = FilesAfterFailure(p)
  /\ temporary' = AfterFailure(p) /\ Ends(p)
  /\ UNCHANGED <<copied, written, crashed, loaded>>

\* copy_file: the destination does not exist when it is looked at; copyfile opens
\* and fills it.  move_file renames over it.
BeginCopy(p, name, from, to) ==
  /\ Free(p) /\ files[from] # Absent /\ files[to] = Absent
  /\ Task(p, name, to, files[from]) /\ UNCHANGED <<files, temporary, copied, written, crashed, loaded>>
CopyOpens(p) ==
  /\ doing[p].name = "copy" /\ Task(p, "fill", doing[p].path, doing[p].content)
  /\ files' = [files EXCEPT ![doing[p].path] = Partial] /\ copied' = copied \cup {doing[p].path}
  /\ UNCHANGED <<temporary, written, crashed, loaded>>
CopyFills(p) ==
  /\ doing[p].name = "fill" /\ Ends(p)
  /\ \E content \in {doing[p].content, Partial} : files' = [files EXCEPT ![doing[p].path] = content]
  /\ copied' = copied \cup {doing[p].path} /\ UNCHANGED <<temporary, written, crashed, loaded>>
Move(p, from) ==
  /\ doing[p].name = "move" /\ Ends(p) /\ from # doing[p].path
  /\ files' = IF files[from] = Absent THEN files
              ELSE [files EXCEPT ![doing[p].path] = files[from], ![from] = Absent]
  /\ copied' = IF from \in copied THEN copied \cup {doing[p].path} ELSE copied
  /\ UNCHANGED <<temporary, written, crashed, loaded>>

\* delete_file.
Delete(p, path) ==
  /\ Free(p) /\ files[path] # Absent /\ files' = [files EXCEPT ![path] = Absent]
  /\ UNCHANGED <<temporary, doing, copied, written, crashed, loaded>>

\* cookie_load_secure: the protection asked for is that of the container, and the
\* container is as it was sealed.
Opens_AnyMode(f, protection) == "jar" \in DOMAIN f /\ f.protection[1] = protection[1]
OpensFile(f, protection) == "jar" \in DOMAIN f /\ f.protection = protection
Load(p, path, protection) ==
  /\ Free(p) /\ files[path] # Absent
  /\ loaded' = [path |-> path, protection |-> protection, store |-> files[path],
                error |-> IF OpensFile(files[path], protection) THEN "none"
                          ELSE IF "jar" \notin DOMAIN files[path] THEN "E884"
                          ELSE IF files[path].protection[1] # protection[1] THEN "E882" ELSE "E885"]
  /\ UNCHANGED <<files, temporary, doing, copied, written, crashed>>

Crash(p) ==
  /\ p \notin crashed /\ crashed' = crashed \cup {p} /\ Ends(p)
  /\ UNCHANGED <<files, temporary, copied, written, loaded>>

----------------------------------------------------------------------------
FilesInit ==
  /\ files = [path \in Paths |-> Absent] /\ temporary = [p \in Programs |-> Absent]
  /\ doing = [p \in Programs |-> NoTask] /\ copied = {} /\ written = 0
  /\ crashed = {} /\ loaded = NotLoaded

FilesNext == \E p \in Programs :
  \/ \E path \in Paths, appends \in BOOLEAN : BeginWrite(p, path, appends, {})
  \/ \E path \in Paths, protection \in Protections : BeginWrite(p, path, FALSE, {protection})
  \/ MakeTemporary(p) \/ Replace(p) \/ WriteFails(p) \/ CopyOpens(p) \/ CopyFills(p) \/ Crash(p)
  \/ \E from, to \in Paths, name \in {"copy", "move"} : BeginCopy(p, name, from, to)
  \/ \E path \in Paths : Move(p, path) \/ Delete(p, path)
  \/ \E path \in Paths, protection \in Protections : Load(p, path, protection)

FilesSpec == FilesInit /\ [][FilesNext]_fileVars

----------------------------------------------------------------------------
\* A file that is not a copy is whole, whenever a program is killed or a
\* write fails: a write replaces all of it or nothing.
WritesWhole == \A path \in Paths \ copied : files[path] = Absent \/ files[path].whole

\* A temporary file that nobody will replace or unlink is one of a program that
\* was killed.
TemporariesGo == \A p \in Programs : temporary[p] # Absent => doing[p].name = "write" \/ p \in crashed

\* A jar comes only from a container sealed with the very key that it is loaded
\* with.
LoadedWithItsKey ==
  loaded # NotLoaded /\ loaded.error = "none" => loaded.store.protection = loaded.protection

\* "copy_file and move_file never silently overwrite an existing destination"
\* (spec/modules-data-errors.md).
NeverOverwrites ==
  [][\A p \in Programs : doing[p].name \in {"copy", "move"} /\ doing'[p] # doing[p] /\ p \notin crashed'
       => files[doing[p].path] = Absent]_fileVars

\* All three of them, with programs killed and writes that fail at any step.
FilesKept == WritesWhole /\ TemporariesGo /\ LoadedWithItsKey
=============================================================================
