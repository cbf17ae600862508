-------------------------- MODULE EvidenceLedger ----------------------------
(***************************************************************************)
(* The cross-run evidence ledger: LedgerStore::append (ledger_store.rs)    *)
(* over the pure chain of nerve-core/src/ledger.rs.  An append reads       *)
(* head.json, chains its record onto it, appends the record and a newline  *)
(* to log.ndjson and replaces head.json by a temporary file.               *)
(*                                                                         *)
(* No lock and no fsync: job threads of the daemon append concurrently     *)
(* (sealed runs, verdicts, receipts, policy decisions).  The steps are the *)
(* system calls.  A hash is the chain of identities it commits to, i.e.    *)
(* SHA-256 without collisions.                                             *)
(***************************************************************************)
EXTENDS Naturals, Sequences, FiniteSets

CONSTANTS
    Appenders,      \* append() calls, each with evidence of its own
    Absent, Empty, Newline

VARIABLES
    pc,             \* append call -> its next system call
    base,           \* append call -> the head it read
    log,            \* log.ndjson as the tokens written to it
    inode,          \* the content of each file ever created for a head
    headFile,       \* the inode named head.json
    tmpFile,        \* the inode named .head.json.tmp
    fd,             \* append call -> the inode it opened
    mishaps         \* history: which of "overlap", "crash", "error" have happened

vars == <<pc, base, log, inode, headFile, tmpFile, fd, mishaps>>

Hashes == Seq(Nat \X Appenders)
Heads == [count : Nat, head_hash : Hashes]
Records == [seq : Nat, kind : Appenders, prev_hash : Hashes, record_hash : Hashes]

ASSUME LedgerAssumption ==
    /\ Absent \notin Appenders
    /\ Absent # Empty /\ {Absent, Empty} \cap Heads = {} /\ Newline \notin Records

-----------------------------------------------------------------------------
(* nerve-core::ledger.                                                     *)

empty_head == [count |-> 0, head_hash |-> <<>>]

chain(prev_hash, seq, kind) == Append(prev_hash, <<seq, kind>>)

NewRecord(head, kind) ==
    [seq |-> head.count, kind |-> kind, prev_hash |-> head.head_hash,
     record_hash |-> chain(head.head_hash, head.count, kind)]

NextHead(head, kind) ==
    [count |-> head.count + 1, head_hash |-> chain(head.head_hash, head.count, kind)]

\* What verify_chain accepts: position, back link and recomputed hash.
verify_chain(records) ==
    \A i \in DOMAIN records :
        LET r == records[i]
            prev == IF i = 1 THEN <<>> ELSE records[i - 1].record_hash
        IN  /\ r.seq = i - 1
            /\ r.prev_hash = prev
            /\ r.record_hash = chain(prev, r.seq, r.kind)

-----------------------------------------------------------------------------
(* The files.                                                              *)

\* A line that is one record parses; blank lines and lines holding two records
\* are skipped; the last line needs no newline.
IsLine(i) ==
    /\ log[i] # Newline
    /\ i = 1 \/ log[i - 1] = Newline
    /\ i = Len(log) \/ log[i + 1] = Newline

Lines == {i \in DOMAIN log : IsLine(i)}

\* The position of the k-th line that parses.
LineAt(k) == CHOOSE i \in Lines : Cardinality({j \in Lines : j <= i}) = k

read_all == [k \in 1..Cardinality(Lines) |-> log[LineAt(k)]]

HeadOnDisk == IF headFile = Absent THEN Absent ELSE inode[headFile]

\* A missing or unreadable head file is the empty log's head.
head == IF HeadOnDisk \in {Absent, Empty} THEN empty_head ELSE HeadOnDisk

InFlight(a) == pc[a] \notin {"idle", "ok", "failed", "dead"}

-----------------------------------------------------------------------------
Init ==
    /\ pc = [a \in Appenders |-> "idle"]
    /\ base = [a \in Appenders |-> empty_head]
    /\ log = <<>>
    /\ inode = [a \in Appenders |-> Absent]
    /\ headFile = Absent /\ tmpFile = Absent
    /\ fd = [a \in Appenders |-> Absent]
    /\ mishaps = {}

Goto(a, at) == pc' = [pc EXCEPT ![a] = at]

\* An append begins; nothing keeps it from doing so while another is under way.
Begin(a) ==
    /\ pc[a] = "idle"
    /\ Goto(a, "record")
    /\ mishaps' = IF \E b \in Appenders : InFlight(b) THEN mishaps \cup {"overlap"}
                                                     ELSE mishaps

ReadHead(a) ==
    /\ Begin(a)
    /\ base' = [base EXCEPT ![a] = head]
    /\ UNCHANGED <<log, inode, headFile, tmpFile, fd>>

\* MUTANT: the head is replaced before the record is in the log.
WriteRecordLast(a) ==
    /\ pc[a] = "record"
    /\ inode' = [inode EXCEPT ![a] = NextHead(base[a], a)]
    /\ headFile' = a
    /\ Goto(a, "newline")
    /\ UNCHANGED <<base, log, tmpFile, fd, mishaps>>

\* writeln! on the unbuffered file: the line, then its newline.
WriteRecord(a) ==
    /\ pc[a] = "record"
    /\ log' = Append(log, NewRecord(base[a], a))
    /\ Goto(a, "newline")
    /\ UNCHANGED <<base, inode, headFile, tmpFile, fd, mishaps>>

\* MUTANT: write! instead of writeln!.
WriteNewlineMissing(a) ==
    /\ pc[a] = "newline"
    /\ Goto(a, "open")
    /\ UNCHANGED <<base, log, inode, headFile, tmpFile, fd, mishaps>>

WriteNewline(a) ==
    /\ pc[a] = "newline"
    /\ log' = Append(log, Newline)
    /\ Goto(a, "open")
    /\ UNCHANGED <<base, inode, headFile, tmpFile, fd, mishaps>>

\* fs::write opens (creating or truncating) the one temporary name.
OpenTmp(a) ==
    /\ pc[a] = "open"
    /\ LET file == IF tmpFile = Absent THEN a ELSE tmpFile
       IN  /\ tmpFile' = file
           /\ inode' = [inode EXCEPT ![file] = Empty]
           /\ fd' = [fd EXCEPT ![a] = file]
    /\ Goto(a, "write")
    /\ UNCHANGED <<base, log, headFile, mishaps>>

WriteTmp(a) ==
    /\ pc[a] = "write"
    /\ inode' = [inode EXCEPT ![fd[a]] = NextHead(base[a], a)]
    /\ Goto(a, "rename")
    /\ UNCHANGED <<base, log, headFile, tmpFile, fd, mishaps>>

Rename(a) ==
    /\ pc[a] = "rename" /\ tmpFile # Absent
    /\ headFile' = tmpFile
    /\ tmpFile' = Absent
    /\ Goto(a, "ok")
    /\ UNCHANGED <<base, log, inode, fd, mishaps>>

\* Another append has renamed the temporary file away: the append fails.
RenameGone(a) ==
    /\ pc[a] = "rename" /\ tmpFile = Absent
    /\ Goto(a, "failed")
    /\ UNCHANGED <<base, log, inode, headFile, tmpFile, fd, mishaps>>

\* append returns the error; append_evidence turns it into None.
WriteError(a) ==
    /\ InFlight(a)
    /\ Goto(a, "failed")
    /\ mishaps' = mishaps \cup {"error"}
    /\ UNCHANGED <<base, log, inode, headFile, tmpFile, fd>>

Crash ==
    /\ \E a \in Appenders : InFlight(a)
    /\ pc' = [a \in Appenders |-> IF InFlight(a) THEN "dead" ELSE pc[a]]
    /\ mishaps' = mishaps \cup {"crash"}
    /\ UNCHANGED <<base, log, inode, headFile, tmpFile, fd>>

AppendStep(a) ==
    \/ ReadHead(a) \/ WriteRecord(a) \/ WriteNewline(a) \/ OpenTmp(a) \/ WriteTmp(a)
    \/ Rename(a) \/ RenameGone(a) \/ WriteError(a)

Next == Crash \/ \E a \in Appenders : AppendStep(a)

Spec == Init /\ [][Next]_vars

-----------------------------------------------------------------------------
(* Properties.                                                             *)

\* Every variable keeps its type.
TypeOK ==
    /\ pc \in [Appenders -> {"idle", "record", "newline", "open", "write", "rename",
                             "ok", "failed", "dead"}]
    /\ base \in [Appenders -> Heads]
    /\ log \in Seq(Records \cup {Newline})
    /\ inode \in [Appenders -> Heads \cup {Absent, Empty}]
    /\ {headFile, tmpFile} \subseteq Appenders \cup {Absent}
    /\ fd \in [Appenders -> Appenders \cup {Absent}]
    /\ mishaps \subseteq {"overlap", "crash", "error"}

\* head.json commits to exactly the records a reader finds.
HeadMatchesLog ==
    /\ head.count = Len(read_all)
    /\ head.head_hash = IF read_all = <<>> THEN <<>> ELSE read_all[Len(read_all)].record_hash

\* While appends follow one another and none is cut off, ledger.verify accepts the
\* log at every moment, in the middle of an append too; evidence whose append
\* returned (and was announced as ledger_appended) is found by every later reader;
\* and between two appends head.json commits to exactly the records in the log.
LedgerSound ==
    mishaps = {} =>
        /\ verify_chain(read_all)
        /\ \A a \in Appenders : pc[a] = "ok" =>
              \E i \in DOMAIN read_all : read_all[i].kind = a
        /\ (\A a \in Appenders : ~InFlight(a)) => HeadMatchesLog

\* The log is written before the head, and the head by a rename "so a reader never
\* observes a half-written head": after any crash or failed write head.json is
\* absent or complete, unless appends overlapped, and a complete one, always,
\* commits to a record that is in the log.
HeadNotAhead ==
    /\ "overlap" \notin mishaps => HeadOnDisk # Empty
    /\ HeadOnDisk \notin {Absent, Empty} =>
          \E i \in DOMAIN log : /\ log[i] # Newline
                                /\ log[i].record_hash = HeadOnDisk.head_hash
                                /\ log[i].seq + 1 = HeadOnDisk.count
=============================================================================
