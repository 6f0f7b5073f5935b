----------------------------- MODULE BytecodeCache -----------------------------
(***************************************************************************)
(* The bytecode cache of reference/c/src/separan_runtime.c: runtimes that  *)
(* start with one cache_dir load the compiled program from it or compile   *)
(* it, and save it (bytecode_cache_load, bytecode_cache_save).  They may   *)
(* start at the same time, and be killed between any two steps.            *)
(*                                                                         *)
(* A cache file is written in three pieces, as stdio flushes them: one     *)
(* with the header, one of instructions, one of constants.  A piece is     *)
(* named by the source it was compiled from; where nothing was written it  *)
(* is "zeros".  A load is one step.                                        *)
(*                                                                         *)
(* An operator named X_Mistake is X with one mistake in it; no action uses *)
(* it, it shows which property would notice.                               *)
(***************************************************************************)
EXTENDS Naturals, Sequences, FiniteSets

CONSTANTS Runtimes, MaxStarts  \* bound: starts of a runtime

Sources == {"one", "two"}
Pieces == 3
Names == {"cached", "temporary"}  \* the two files of a hash

\* bytecode_source_hash, which names the cache file and is stored in it.
Hash_Constant(text) == "one"
Hash(text) == text

VARIABLES
  source,        \* the text of the application now
  cached_files,  \* hash -> name -> its pieces, or Missing
  runtime,       \* until its program is saved: where it is, the source it read, its
                 \* program, the file it has open and the pieces it has written
  system,        \* "posix" or "windows"
  starts,        \* so far
  \* history
  overlap        \* two runtimes have written the same temporary file at once

cacheVars == <<source, cached_files, runtime, system, starts, overlap>>

Missing == <<"missing">>

\* A file that lost its name is open as "none": what is written to it nobody reads.
Runtime(at, text, program, opened, written) ==
  [at |-> at, text |-> text, program |-> program, opened |-> opened, written |-> written]
Idle == Runtime("idle", "one", <<>>, "none", 0)
Compiled(text) == [k \in 1..Pieces |-> text]

Key(p) == Hash(runtime[p].text)
Sharers(p, name) == {q \in Runtimes \ {p} : runtime[q].at = "write" /\ Key(q) = Key(p) /\ runtime[q].opened = name}
Moves(p, r) == runtime' = [runtime EXCEPT ![p] = r]

----------------------------------------------------------------------------
\* The loader compares the header and reads as many pieces as it announces.  Zeros are
\* instructions (BC_PUSH_CONSTANT 0), but no constant.
Accepts(file, hash) ==
  /\ Len(file) = Pieces /\ file[1] # "zeros" /\ Hash(file[1]) = hash /\ file[3] # "zeros"

Start(p) ==
  /\ runtime[p].at = "idle" /\ starts < MaxStarts /\ starts' = starts + 1
  /\ LET file == cached_files[Hash(source)].cached
     IN Moves(p, Runtime("save", source, IF Accepts(file, Hash(source)) THEN file ELSE Compiled(source), "none", 0))
  /\ UNCHANGED <<source, cached_files, system, overlap>>

\* fopen(temporary, "wb"): the file that is there is truncated, also under a writer.
Open(p) ==
  /\ runtime[p].at = "save"
  /\ cached_files' = [cached_files EXCEPT ![Key(p)].temporary = <<>>]
  /\ Moves(p, [runtime[p] EXCEPT !.at = "write", !.opened = "temporary"])
  /\ overlap' = (overlap \/ Sharers(p, "temporary") # {})
  /\ UNCHANGED <<source, system, starts>>

\* A piece goes to the writer's own position; a gap before it reads as zeros.
WrittenAt(file, k, piece) ==
  [j \in 1..(IF Len(file) < k THEN k ELSE Len(file)) |->
     IF j = k THEN piece ELSE IF j <= Len(file) THEN file[j] ELSE "zeros"]
WritePiece(p) ==
  /\ runtime[p].at = "write" /\ runtime[p].written < Pieces
  /\ LET r == runtime[p]
         k == r.written + 1
     IN /\ cached_files' = IF r.opened = "none" THEN cached_files
                    ELSE [cached_files EXCEPT ![Key(p)][r.opened] = WrittenAt(@, k, r.program[k])]
        /\ Moves(p, [r EXCEPT !.written = k])
  /\ UNCHANGED <<source, system, starts, overlap>>

\* What the writers of a file have open when the temporary file is removed or renamed.
Renamed(p, now) ==
  runtime' = [q \in Runtimes |->
    IF q = p THEN Idle
    ELSE IF q \in Sharers(p, "temporary") THEN [runtime[q] EXCEPT !.opened = now]
    ELSE IF now = "cached" /\ q \in Sharers(p, "cached") THEN [runtime[q] EXCEPT !.opened = "none"]
    ELSE runtime[q]]

\* The disk is full: the temporary file is removed, whoever writes it.  Windows removes no
\* file that is open.
SaveFails(p) ==
  /\ runtime[p].at = "write" /\ runtime[p].written < Pieces
  /\ IF system = "windows" /\ Sharers(p, "temporary") # {} THEN Moves(p, Idle) /\ UNCHANGED cached_files
     ELSE Renamed(p, "none") /\ cached_files' = [cached_files EXCEPT ![Key(p)].temporary = Missing]
  /\ UNCHANGED <<source, system, starts, overlap>>

\* cache_replace_file.  The file to rename may be gone, or (on Windows) open, where the one
\* it was to replace is removed all the same.
ReplaceFile(p) ==
  /\ runtime[p].at = "write" /\ runtime[p].written = Pieces
  /\ LET file == cached_files[Key(p)].temporary
         renamed == file # Missing /\ (system = "windows" => Sharers(p, "temporary") = {})
     IN IF renamed
        THEN /\ cached_files' = [cached_files EXCEPT ![Key(p)] = [cached |-> file, temporary |-> Missing]]
             /\ Renamed(p, "cached")
        ELSE /\ cached_files' = IF system = "windows" THEN [cached_files EXCEPT ![Key(p)].cached = Missing] ELSE cached_files
             /\ Moves(p, Idle)
  /\ UNCHANGED <<source, system, starts, overlap>>

\* It is killed before its program is saved.
Killed(p) == /\ runtime[p].at # "idle" /\ Moves(p, Idle)
             /\ UNCHANGED <<source, cached_files, system, starts, overlap>>

\* The application is deployed anew.
Edit == /\ source' \in Sources \ {source} /\ UNCHANGED <<cached_files, runtime, system, starts, overlap>>

----------------------------------------------------------------------------
CacheInit ==
  /\ source = "one" /\ system \in {"posix", "windows"} /\ starts = 0 /\ overlap = FALSE
  /\ cached_files = [h \in Sources |-> [n \in Names |-> Missing]]
  /\ runtime = [p \in Runtimes |-> Idle]

CacheNext ==
  \/ Edit
  \/ \E p \in Runtimes : Start(p) \/ Open(p) \/ WritePiece(p) \/ SaveFails(p) \/ ReplaceFile(p) \/ Killed(p)

CacheSpec == CacheInit /\ [][CacheNext]_cacheVars

----------------------------------------------------------------------------
\* A runtime executes what its source compiles to, whether it was compiled now or by
\* another before ("keyed by the source hash", docs/separan-gw.md).
LoadedIsCompiled ==
  \A p \in Runtimes : runtime[p].at # "idle" => runtime[p].program = Compiled(runtime[p].text)

\* The same as long as no two runtimes write the same cache file at once: one that is
\* killed, or finds the disk full, leaves nothing that is loaded.
LoadedIfAlone == ~overlap => LoadedIsCompiled
=============================================================================
