----------------------------- MODULE FsCatalog ------------------------------
(***************************************************************************)
(* The filesystem catalog provider (nerve-fs/src/provider.rs) and its      *)
(* batches of edits (nerve-fs/src/atomic.rs): one shared ProviderCache     *)
(* (snapshot, codemap, warming slot, generation) that reader threads fill, *)
(* background warmers fill for them, and an editor thread invalidates.     *)
(*                                                                         *)
(* A file is its content and its modification time; a signature is the     *)
(* time and the size.  All contents but the empty one have the same size,  *)
(* so that only the time tells two versions apart.  A snapshot entry has a *)
(* path and a size, never the content.  Any system call of the editor may  *)
(* fail, those of the rollback too.  Nobody else writes below the roots.   *)
(***************************************************************************)
EXTENDS Naturals, Sequences, FiniteSets

CONSTANTS
    Paths,
    Contents,       \* what an edit writes
    EmptyFile,          \* the content of a file that was created or truncated
    Readers,        \* threads that ask for the snapshot or for symbols
    Batches,        \* the change lists the editor may be given
    Initial,        \* the disks to begin with
    Ticks,          \* by how much the file system's clock may move per write
    MaxBatches,     \* bound: batches
    MaxScans,       \* bound: scans, each of which starts one warmer
    MaxQueries,     \* bound: queries of the readers
    NoFile, NoSnapshot, NoEntry, NoThread

Kinds == {"create", "update", "delete", "rename", "move"}
Changes == [kind : Kinds, path : Paths, to : Paths, content : Contents]

Files(contents, times) == [content : contents, modified : times]

ASSUME FsCatalogAssumption ==
    /\ IsFiniteSet(Paths)
    /\ EmptyFile \notin Contents
    /\ Batches \subseteq Seq(Changes)
    /\ Initial \subseteq [Paths -> Files(Contents, 0..Cardinality(Paths)) \cup {NoFile}]
    /\ Ticks \subseteq Nat /\ Ticks # {}
    /\ MaxBatches \in Nat /\ MaxScans \in Nat /\ MaxQueries \in Nat

\* What signatures, symbols and listings are made of.
Signatures == Nat \X {0, 1}
Symbols == Contents \cup {EmptyFile}
Entries == [sig : Signatures, symbols : Symbols]
Listings == SUBSET (Paths \X {0, 1})

\* The absent values are none of the present ones.
ASSUME CatalogAbsentAssumption ==
    /\ NoFile \notin Symbols \cup Files(Symbols, Nat)
    /\ NoEntry \notin Entries
    /\ NoSnapshot \notin [list : Listings, fresh : BOOLEAN]

Warmers == 1..MaxScans      \* at most one thread per scan
ASSUME ThreadsDistinct == Readers \cap Warmers = {} /\ NoThread \notin Readers

VARIABLES
    disk,           \* path -> its file
    clock,          \* the file system's clock
    snapshot,       \* cache.snapshot: the listing, and is it within its TTL?
    scanLock,       \* the thread that holds the write lock of cache.snapshot
    codemap,        \* cache.codemap: path -> signature and symbols
    generation,     \* cache.generation
    warming,        \* cache.codemap_warming: the warmer installed, 0 = none
    cancelled,      \* warmers whose token is cancelled
    scans, queries, batches,    \* how many were begun
    reader,         \* thread -> what it is doing
    editor,         \* the batch in progress
    unannounced     \* history: what a failed batch may have made wrong, the
                    \* snapshot ("cache"), the scan in progress ("scan")

cacheVars == <<snapshot, scanLock, codemap, generation, warming, cancelled>>
counters == <<scans, queries, batches>>
catalogVars == <<disk, clock, cacheVars, counters, reader, editor, unannounced>>

File(c, m) == [content |-> c, modified |-> m]
SizeOf(c) == IF c = EmptyFile THEN 0 ELSE 1
FileSignature(f) == <<f.modified, SizeOf(f.content)>>
Existing == {p \in Paths : disk[p] # NoFile}
Listing == {<<p, SizeOf(disk[p].content)>> : p \in Existing}

(***************************************************************************)
(* Threads.  gen is the generation a warmer serves; a reader has none (0). *)
(***************************************************************************)
Threads == Readers \cup Warmers
Resting == [pc |-> "idle", path |-> NoFile, sig |-> NoEntry,
            symbols |-> NoEntry, gen |-> 0, todo |-> {}, list |-> {}]
Busy(t, pc) == reader[t].pc = pc
Goes(t, pc) == reader' = [reader EXCEPT ![t].pc = pc]
Rests(t) == reader' = [reader EXCEPT ![t] = Resting]
Reads(t, p) ==      \* a miss: the signature is kept for the entry to come
    reader' = [reader EXCEPT ![t].pc = "read", ![t].path = p,
                             ![t].sig = FileSignature(disk[p])]

(***************************************************************************)
(* code_symbols_for_allowed.  The signature is taken before the file is    *)
(* read.  A warmer inserts only while its generation is the current one.   *)
(***************************************************************************)
Hit(p) == codemap[p] # NoEntry /\ codemap[p].sig = FileSignature(disk[p])

\* a warmer goes on with its next entry, a reader is done
AfterSymbols(t) ==
    reader' = [reader EXCEPT ![t] =
                 IF t \in Warmers
                 THEN [Resting EXCEPT !.pc = "warm", !.gen = reader[t].gen,
                                      !.todo = reader[t].todo]
                 ELSE Resting]

QuerySymbols(t, p) ==
    /\ Busy(t, "idle") /\ queries < MaxQueries /\ p \in Existing
    /\ queries' = queries + 1
    /\ IF Hit(p) THEN UNCHANGED reader ELSE Reads(t, p)
    /\ UNCHANGED <<disk, clock, cacheVars, scans, batches, editor, unannounced>>

\* MUTANT: the signature is taken after the file was read.
ReadFileThenSign(t) ==
    /\ Busy(t, "read")
    /\ IF reader[t].path \in Existing
       THEN IF reader[t].symbols = NoEntry
            THEN reader' = [reader EXCEPT
                              ![t].symbols = disk[reader[t].path].content]
            ELSE reader' = [reader EXCEPT ![t].pc = "check",
                              ![t].sig = FileSignature(disk[reader[t].path])]
       ELSE AfterSymbols(t)
    /\ UNCHANGED <<disk, clock, cacheVars, counters, editor, unannounced>>

ReadFile(t) ==
    /\ Busy(t, "read")
    /\ IF reader[t].path \in Existing
       THEN reader' = [reader EXCEPT ![t].pc = "check",
                         ![t].symbols = disk[reader[t].path].content]
       ELSE AfterSymbols(t)
    /\ UNCHANGED <<disk, clock, cacheVars, counters, editor, unannounced>>

CheckGeneration(t) ==
    /\ Busy(t, "check")
    /\ IF reader[t].gen \in {0, generation}
       THEN Goes(t, "insert")
       ELSE AfterSymbols(t)
    /\ UNCHANGED <<disk, clock, cacheVars, counters, editor, unannounced>>

InsertSymbols(t) ==
    /\ Busy(t, "insert")
    /\ codemap' = [codemap EXCEPT ![reader[t].path] =
                     [sig |-> reader[t].sig, symbols |-> reader[t].symbols]]
    /\ AfterSymbols(t)
    /\ UNCHANGED <<disk, clock, snapshot, scanLock, generation, warming,
                   cancelled, counters, editor, unannounced>>

(***************************************************************************)
(* snapshot_arc_cancellable.  The age of the cache is measured from before *)
(* the wait for the lock: a snapshot stored during the wait may be newer   *)
(* than that moment, and then counts as not fresh.                         *)
(***************************************************************************)
Fresh == snapshot # NoSnapshot /\ snapshot.fresh

QuerySnapshot(t) ==
    /\ Busy(t, "idle") /\ t \in Readers /\ queries < MaxQueries
    /\ queries' = queries + 1
    /\ IF Fresh THEN UNCHANGED reader ELSE Goes(t, "lock")
    /\ UNCHANGED <<disk, clock, cacheVars, scans, batches, editor, unannounced>>

Editing == editor.pc \notin {"idle", "failed"}

BeginScan(t) ==
    /\ Busy(t, "lock") /\ scanLock = NoThread /\ scans < MaxScans
    /\ scanLock' = t
    /\ scans' = scans + 1
    /\ reader' = [reader EXCEPT ![t].pc = "scan", ![t].todo = Paths, ![t].list = {}]
    /\ unannounced' = IF Editing THEN unannounced ELSE unannounced \ {"scan"}
    /\ UNCHANGED <<disk, clock, snapshot, codemap, generation, warming,
                   cancelled, queries, batches, editor>>

FoundFresh(t) ==
    /\ Busy(t, "lock") /\ scanLock = NoThread /\ Fresh
    /\ Rests(t)
    /\ UNCHANGED <<disk, clock, cacheVars, counters, editor, unannounced>>

ScanPath(t, p) ==
    /\ Busy(t, "scan") /\ p \in reader[t].todo
    /\ reader' = [reader EXCEPT ![t].todo = @ \ {p},
                    ![t].list = @ \cup {e \in Listing : e[1] = p}]
    /\ UNCHANGED <<disk, clock, cacheVars, counters, editor, unannounced>>

ScanCancelled(t) ==
    /\ Busy(t, "scan")
    /\ scanLock' = NoThread
    /\ Rests(t)
    /\ UNCHANGED <<disk, clock, snapshot, codemap, generation, warming,
                   cancelled, counters, editor, unannounced>>

StoreSnapshot(t) ==
    /\ Busy(t, "scan") /\ reader[t].todo = {}
    /\ generation' = generation + 1
    /\ snapshot' = [list |-> reader[t].list, fresh |-> TRUE]
    /\ scanLock' = NoThread
    /\ reader' = [reader EXCEPT ![t].pc = "start", ![t].gen = generation + 1]
    /\ unannounced' = IF "scan" \in unannounced THEN unannounced ELSE {}
    /\ UNCHANGED <<disk, clock, codemap, warming, cancelled, counters, editor>>

SnapshotExpires ==
    /\ Fresh
    /\ snapshot' = [snapshot EXCEPT !.fresh = FALSE]
    /\ UNCHANGED <<disk, clock, scanLock, codemap, generation, warming,
                   cancelled, counters, reader, editor, unannounced>>

(***************************************************************************)
(* start_codemap_warming and warm_codemap_for_snapshot                     *)
(***************************************************************************)
Replaced == IF warming = 0 THEN {} ELSE {warming}

StartWarming(t, w) ==
    /\ Busy(t, "start")
    /\ reader[w].pc = "idle" /\ \A v \in 1..(w - 1) : reader[v].pc # "idle"
    /\ cancelled' = (cancelled \cup Replaced) \ {w}
    /\ warming' = w
    /\ reader' = [reader EXCEPT ![t] = Resting,
                    ![w] = [Resting EXCEPT !.pc = "warm", !.gen = reader[t].gen,
                              !.todo = {e[1] : e \in reader[t].list}]]
    /\ UNCHANGED <<disk, clock, snapshot, scanLock, codemap, generation,
                   counters, editor, unannounced>>

WarmerStops(w) == w \in cancelled \/ generation # reader[w].gen \/ reader[w].todo = {}

\* An entry that no longer exists is skipped, one already cached is left.
WarmNext(w) ==
    /\ Busy(w, "warm") /\ ~WarmerStops(w)
    /\ \E p \in reader[w].todo :
         LET r == [reader[w] EXCEPT !.todo = @ \ {p}]
         IN reader' = [reader EXCEPT ![w] =
                         IF p \in Existing /\ ~Hit(p)
                         THEN [r EXCEPT !.pc = "read", !.path = p,
                                        !.sig = FileSignature(disk[p])]
                         ELSE r]
    /\ UNCHANGED <<disk, clock, cacheVars, counters, editor, unannounced>>

WarmerEnds(w) ==
    /\ Busy(w, "warm") /\ WarmerStops(w)
    /\ Rests(w)
    /\ warming' = IF warming = w THEN 0 ELSE warming
    /\ UNCHANGED <<disk, clock, snapshot, scanLock, codemap, generation,
                   cancelled, counters, editor, unannounced>>

(***************************************************************************)
(* The editor: apply_file_batch, atomic or not; write_text, delete_file    *)
(* and rename_file are batches of one change that are not atomic.          *)
(***************************************************************************)
NoBatch == [pc |-> "idle", changes |-> <<>>, at |-> 1, atomic |-> FALSE,
            backups |-> <<>>, failedPaths |-> {}, before |-> <<>>]
Change == editor.changes[editor.at]
Target == IF Change.kind \in {"rename", "move"} THEN Change.to ELSE Change.path

\* change_targets: the paths of a change in the order they are backed up.
Targets(c) == IF c.kind = "rename" THEN <<c.path, c.to>> ELSE <<c.path>>
Resolves(c) == c.kind = "create" \/ c.path \in Existing
ContentOf(p) == IF p \in Existing THEN disk[p].content ELSE NoFile
Backup(p) == [target |-> p, saved |-> ContentOf(p)]

EditorStep(pc) == editor' = [editor EXCEPT !.pc = pc]
Write(p, c) ==      \* the clock moves with the write
    \E d \in Ticks :
      /\ clock' = clock + d
      /\ disk' = [disk EXCEPT ![p] = File(c, clock + d)]
NoWrite == UNCHANGED <<disk, clock>>

BeginBatch(b, atomic) ==
    /\ ~Editing /\ batches < MaxBatches
    /\ atomic => \A i \in DOMAIN b : b[i].kind # "move"
    /\ batches' = batches + 1
    /\ editor' = IF b = <<>> THEN [NoBatch EXCEPT !.pc = "invalidate"]
                 ELSE [NoBatch EXCEPT !.changes = b, !.atomic = atomic,
                         !.pc = IF atomic THEN "backup" ELSE "apply",
                         !.before = [p \in Paths |-> ContentOf(p)]]
    /\ UNCHANGED <<disk, clock, cacheVars, scans, queries, reader, unannounced>>

\* MUTANT: only the change's own path is backed up, not a rename's destination.
BackupSource ==
    /\ editor.pc = "backup" /\ Resolves(Change)
    /\ editor' = [editor EXCEPT !.pc = "apply",
                    !.backups = Append(@, Backup(Change.path))]
    /\ NoWrite /\ UNCHANGED <<cacheVars, counters, reader, unannounced>>

\* Each target is resolved and copied before its change is applied.
BackupTargets ==
    /\ editor.pc = "backup" /\ Resolves(Change)
    /\ editor' = [editor EXCEPT !.pc = "apply",
                    !.backups = @ \o [i \in DOMAIN Targets(Change) |->
                                        Backup(Targets(Change)[i])]]
    /\ NoWrite /\ UNCHANGED <<cacheVars, counters, reader, unannounced>>

\* fail_atomic rolls back; a batch that is not atomic just returns the error.
FailsWith(backups) ==
    /\ editor' = [editor EXCEPT !.changes = <<>>, !.at = 1, !.backups = backups,
                    !.pc = IF backups # <<>> THEN "rollback" ELSE "failed"]
    /\ unannounced' = {"cache", "scan"}

\* A target cannot be resolved, or its copy fails after those before it.
BackupFails ==
    /\ editor.pc = "backup"
    /\ \E n \in 0..(Len(Targets(Change)) - 1) :
         /\ n > 0 => Resolves(Change)
         /\ FailsWith(editor.backups \o
                      [i \in 1..n |-> Backup(Targets(Change)[i])])
    /\ NoWrite /\ UNCHANGED <<cacheVars, counters, reader>>

\* A change is applied: the next one, or invalidate after the last.
NextChange ==
    editor' = IF editor.at < Len(editor.changes)
              THEN [editor EXCEPT !.at = @ + 1,
                      !.pc = IF editor.atomic THEN "backup" ELSE "apply"]
              ELSE [NoBatch EXCEPT !.pc = "invalidate"]

\* apply_change up to its write: create and truncate, remove, or rename.
ApplyChange ==
    /\ editor.pc = "apply"
    /\ CASE Change.kind = "create" ->
              Target \notin Existing /\ Write(Target, EmptyFile) /\ EditorStep("fill")
         [] Change.kind = "update" ->
              Write(Target, EmptyFile) /\ EditorStep("fill")
         [] Change.kind = "delete" ->
              /\ Target \in Existing
              /\ disk' = [disk EXCEPT ![Target] = NoFile]
              /\ UNCHANGED clock /\ NextChange
         [] OTHER ->
              /\ Change.path \in Existing
              /\ disk' = [disk EXCEPT ![Target] = disk[Change.path],
                            ![Change.path] = IF Change.path = Target THEN @ ELSE NoFile]
              /\ UNCHANGED clock
              /\ IF Change.kind = "move" THEN NextChange ELSE EditorStep("truncate")
    /\ UNCHANGED <<cacheVars, counters, reader, unannounced>>

TruncateRenamed ==
    /\ editor.pc = "truncate"
    /\ Write(Target, EmptyFile)
    /\ EditorStep("fill")
    /\ UNCHANGED <<cacheVars, counters, reader, unannounced>>

FillFile ==
    /\ editor.pc = "fill"
    /\ Write(Target, Change.content)
    /\ NextChange
    /\ UNCHANGED <<cacheVars, counters, reader, unannounced>>

\* A precondition that does not hold, or a system call that fails.
ApplyFails ==
    /\ editor.pc \in {"apply", "truncate", "fill"}
    /\ FailsWith(editor.backups)
    /\ NoWrite /\ UNCHANGED <<cacheVars, counters, reader>>

(***************************************************************************)
(* rollback_backups, newest backup first.  A failed copy leaves the file   *)
(* as it was or truncated.  cleanup_backups then removes every backup.     *)
(***************************************************************************)
Last == editor.backups[Len(editor.backups)]
DropLast(reported) ==
    editor' = [editor EXCEPT !.backups = SubSeq(@, 1, Len(@) - 1),
                             !.failedPaths = @ \cup reported,
                             !.pc = IF Len(editor.backups) = 1 THEN "failed" ELSE "rollback"]

RollbackOne ==
    /\ editor.pc = "rollback" /\ editor.backups # <<>>
    /\ IF Last.saved # NoFile
       THEN Write(Last.target, Last.saved)
       ELSE disk' = [disk EXCEPT ![Last.target] = NoFile] /\ UNCHANGED clock
    /\ DropLast({})
    /\ UNCHANGED <<cacheVars, counters, reader, unannounced>>

RollbackFails ==
    /\ editor.pc = "rollback" /\ editor.backups # <<>>
    /\ Last.saved # NoFile \/ Last.target \in Existing
    /\ \/ NoWrite
       \/ Last.saved # NoFile /\ Write(Last.target, EmptyFile)
    /\ DropLast({Last.target})
    /\ UNCHANGED <<cacheVars, counters, reader, unannounced>>

(***************************************************************************)
(* invalidate: the snapshot, the generation and the warmer, in this order  *)
(***************************************************************************)
\* MUTANT: the snapshot is dropped without waiting for a scan in progress.
DropSnapshotUnlocked ==
    /\ editor.pc = "invalidate"
    /\ snapshot' = NoSnapshot
    /\ unannounced' = {}
    /\ EditorStep("bump")
    /\ NoWrite
    /\ UNCHANGED <<scanLock, codemap, generation, warming, cancelled, counters, reader>>

DropSnapshot ==
    /\ editor.pc = "invalidate" /\ scanLock = NoThread
    /\ snapshot' = NoSnapshot
    /\ unannounced' = {}
    /\ EditorStep("bump")
    /\ NoWrite
    /\ UNCHANGED <<scanLock, codemap, generation, warming, cancelled, counters, reader>>

BumpGeneration ==
    /\ editor.pc = "bump"
    /\ generation' = generation + 1
    /\ EditorStep("stop")
    /\ NoWrite
    /\ UNCHANGED <<snapshot, scanLock, codemap, warming, cancelled, counters,
                   reader, unannounced>>

StopWarmer ==
    /\ editor.pc = "stop"
    /\ cancelled' = cancelled \cup Replaced
    /\ warming' = 0
    /\ editor' = NoBatch
    /\ NoWrite
    /\ UNCHANGED <<snapshot, scanLock, codemap, generation, counters, reader,
                   unannounced>>

-----------------------------------------------------------------------------
CatalogInit ==
    /\ disk \in Initial
    /\ clock = Cardinality(Paths)
    /\ snapshot = NoSnapshot /\ scanLock = NoThread
    /\ codemap = [p \in Paths |-> NoEntry]
    /\ generation = 0 /\ warming = 0 /\ cancelled = {}
    /\ scans = 0 /\ queries = 0 /\ batches = 0
    /\ reader = [t \in Threads |-> Resting]
    /\ editor = NoBatch
    /\ unannounced = {}

ReaderNext(t) ==
    \/ \E p \in Paths : t \in Readers /\ QuerySymbols(t, p)
    \/ ReadFile(t) \/ CheckGeneration(t) \/ InsertSymbols(t)
    \/ QuerySnapshot(t) \/ BeginScan(t) \/ FoundFresh(t)
    \/ \E p \in Paths : ScanPath(t, p)
    \/ ScanCancelled(t) \/ StoreSnapshot(t)
    \/ \E w \in Warmers : StartWarming(t, w)

WarmerNext(w) == WarmNext(w) \/ WarmerEnds(w)

EditorNext ==
    \/ \E b \in Batches, atomic \in BOOLEAN : BeginBatch(b, atomic)
    \/ BackupTargets \/ BackupFails
    \/ ApplyChange \/ TruncateRenamed \/ FillFile \/ ApplyFails
    \/ RollbackOne \/ RollbackFails
    \/ DropSnapshot \/ BumpGeneration \/ StopWarmer

CatalogNext ==
    \/ \E t \in Threads : ReaderNext(t)
    \/ \E w \in Warmers : WarmerNext(w)
    \/ EditorNext
    \/ SnapshotExpires

CatalogSpec == CatalogInit /\ [][CatalogNext]_catalogVars

-----------------------------------------------------------------------------
\* Type correctness of the cache and of the threads that share it.
CatalogTypeOK ==
    /\ DOMAIN disk = Paths /\ DOMAIN codemap = Paths
    /\ clock \in Nat /\ generation \in Nat
    /\ warming \in Warmers \cup {0} /\ cancelled \subseteq Warmers
    /\ scanLock \in Readers \cup {NoThread}
    /\ \A t \in Threads :
         reader[t].pc \in {"idle", "read", "check", "insert", "lock", "scan",
                           "start", "warm"}

\* When a signature tells a path's versions apart: every write has a time of
\* its own, no two files begin with the same one, and no path is both moved
\* from and moved to, because a rename takes the time along with the file.
Moves == {c \in Changes : /\ c.kind \in {"rename", "move"}
                          /\ \E b \in Batches : \E i \in DOMAIN b : b[i] = c}
Sources == {c.path : c \in Moves}
Destinations == {c.to : c \in Moves}
SignaturesTell ==
    /\ 0 \notin Ticks
    /\ \A d \in Initial : \A p, q \in Paths :
         d[p] # NoFile /\ d[q] # NoFile /\ d[p].modified = d[q].modified => p = q
    /\ Sources \cap Destinations = {}

\* A codemap entry whose signature is the file's holds the symbols of the
\* file's content, whatever edits, queries and warmers overlapped: "signature
\* validation guards stale reads" (provider.rs, invalidate).  The write
\* between the signature and the read must make the entry useless, not wrong.
\* It needs SignaturesTell: after <<move a b, create a, move b a>> between a
\* reader's signature and its read, the old file is back under its old time
\* beside the symbols of the one that was read.
SymbolsNeverStale ==
    \A p \in Existing : Hit(p) => codemap[p].symbols = disk[p].content

\* After a failed atomic batch every path has the content it had before the
\* batch or is reported in rollback_failed_paths, also when one path was
\* changed twice, was renamed over, or was already half written.
BatchUndoneOrReported ==
    editor.pc = "failed" /\ editor.atomic =>
      \A p \in Paths \ editor.failedPaths : ContentOf(p) = editor.before[p]

\* Between batches a cached snapshot lists exactly the files on disk: a scan
\* that overlapped an edit does not survive the edit's invalidate.  The
\* exception is the code's: a batch that fails does not invalidate.
SnapshotSettles ==
    snapshot # NoSnapshot /\ ~Editing /\ "cache" \notin unannounced =>
      snapshot.list = Listing
=============================================================================
