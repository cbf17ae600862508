------------------------ MODULE EvidenceLedgerProofs ------------------------
(***************************************************************************)
(* What the evidence ledger promises, proved for every set of appends: the *)
(* head is never ahead of the log whatever overlaps, fails or crashes, and *)
(* while appends follow one another the log is a chain and the head its    *)
(* end.                                                                    *)
(***************************************************************************)
EXTENDS EvidenceLedger, SequenceTheorems, FiniteSetTheorems, FunctionTheorems, TLAPS

\* A record of the log is the one the head commits to.
Committed(h) ==
    \E i \in DOMAIN log : /\ log[i] # Newline
                          /\ log[i].record_hash = h.head_hash
                          /\ log[i].seq + 1 = h.count

\* The append has its record in the log and its head not yet in place.
Writing(a) == pc[a] \in {"newline", "open", "write", "rename"}

\* The files, whatever overlaps, fails or crashes.
Files ==
    /\ \A a \in Appenders : inode[a] \notin {Absent, Empty} => Committed(inode[a])
    /\ \A a \in Appenders : Writing(a) =>
          \E i \in DOMAIN log : log[i] = NewRecord(base[a], a)
    /\ \A a \in Appenders : pc[a] \in {"idle", "record", "newline", "open"} =>
          headFile # a /\ tmpFile # a
    /\ tmpFile # Absent => tmpFile # headFile
    /\ \A a \in Appenders : pc[a] \in {"write", "rename"} => fd[a] # Absent

\* While no two appends overlap, the temporary file is the append's own.
Solo ==
    "overlap" \notin mishaps =>
        /\ \A a, b \in Appenders : InFlight(a) /\ InFlight(b) => a = b
        /\ \A a \in Appenders : pc[a] \in {"write", "rename"} => tmpFile = fd[a]
        /\ \A a \in Appenders : pc[a] = "rename" => inode[fd[a]] = NextHead(base[a], a)
        /\ HeadOnDisk # Empty

\* The log holds m records, each with its newline but for the last one while it is
\* being written.
Regular(m) ==
    /\ Len(log) = 2 * m \/ Len(log) = 2 * m - 1
    /\ \A k \in 1..m : log[2 * k - 1] \in Records
    /\ \A k \in 1..m : 2 * k <= Len(log) => log[2 * k] = Newline

\* The hash of the m-th record, that of the empty log for none.
HashAt(m) == IF m = 0 THEN <<>> ELSE log[2 * m - 1].record_hash

\* The m records of the log are a chain.
Chained(m) ==
    \A k \in 1..m :
        LET r == log[2 * k - 1]
        IN  /\ r.seq = k - 1
            /\ r.prev_hash = HashAt(k - 1)
            /\ r.record_hash = chain(HashAt(k - 1), r.seq, r.kind)

\* head.json commits to the first m records.
HeadIs(m) == head.count = m /\ head.head_hash = HashAt(m)

\* The m-th record is the latest one, and where its append stands.
Latest(m) ==
    /\ Regular(m) /\ Chained(m)
    /\ \A a \in Appenders : pc[a] = "record" => base[a] = head
    /\ (\A a \in Appenders : ~Writing(a)) => HeadIs(m) /\ Len(log) = 2 * m
    /\ \A a \in Appenders : Writing(a) =>
          /\ m > 0 /\ HeadIs(m - 1) /\ base[a] = head
          /\ log[2 * m - 1] = NewRecord(base[a], a)
          /\ Len(log) = IF pc[a] = "newline" THEN 2 * m - 1 ELSE 2 * m
    /\ \A a \in Appenders : pc[a] = "ok" => \E k \in 1..m : log[2 * k - 1].kind = a

\* While nothing goes wrong the log is the chain of the appends so far.
Orderly ==
    mishaps = {} =>
        /\ \A a \in Appenders : pc[a] \notin {"failed", "dead"}
        /\ \E m \in Nat : Latest(m)

\* The inductive invariant.
LedgerInv == TypeOK /\ Files /\ Solo /\ Orderly

-----------------------------------------------------------------------------
(* The records and the files.                                              *)

\* A head and an appender give a record, a head, and neither is an absent value.
LEMMA RecordTyped ==
    ASSUME NEW h \in Heads, NEW a \in Appenders
    PROVE  /\ NewRecord(h, a) \in Records /\ NewRecord(h, a) # Newline
           /\ NextHead(h, a) \in Heads /\ NextHead(h, a) \notin {Absent, Empty}
           /\ NextHead(h, a).head_hash = NewRecord(h, a).record_hash
           /\ NextHead(h, a).count = NewRecord(h, a).seq + 1
           /\ NewRecord(h, a).seq = h.count /\ NewRecord(h, a).kind = a
           /\ NewRecord(h, a).prev_hash = h.head_hash
           /\ NewRecord(h, a).record_hash = chain(h.head_hash, h.count, a)
<1>1. h.head_hash \in Hashes /\ h.count \in Nat /\ h.count + 1 \in Nat
  BY DEF Heads
<1>2. <<h.count, a>> \in Nat \X Appenders
  BY <1>1
<1>3. chain(h.head_hash, h.count, a) \in Hashes
  BY <1>1, <1>2, AppendProperties DEF chain, Hashes
<1> QED
  BY <1>1, <1>3, LedgerAssumption DEF NewRecord, NextHead, Records, Heads

\* The head an append reads is a head.
LEMMA HeadTyped ==
    ASSUME TypeOK
    PROVE  head \in Heads
<1>1. empty_head \in Heads
  BY EmptySeq DEF empty_head, Heads, Hashes
<1>2. HeadOnDisk \in Heads \cup {Absent, Empty}
  BY DEF TypeOK, HeadOnDisk
<1> QED
  BY <1>1, <1>2 DEF head

\* Appending to the log keeps what is in it.
LEMMA LogGrows ==
    ASSUME TypeOK, NEW e \in Records \cup {Newline}, log' = Append(log, e)
    PROVE  /\ log' \in Seq(Records \cup {Newline})
           /\ Len(log) \in Nat /\ Len(log') = Len(log) + 1 /\ log'[Len(log) + 1] = e
           /\ DOMAIN log = 1..Len(log) /\ DOMAIN log' = 1..(Len(log) + 1)
           /\ \A i \in 1..Len(log) : log'[i] = log[i]
<1>1. log \in Seq(Records \cup {Newline})
  BY DEF TypeOK
<1>2. /\ Append(log, e) \in Seq(Records \cup {Newline})
      /\ Len(Append(log, e)) = Len(log) + 1
      /\ \A i \in 1..Len(log) : Append(log, e)[i] = log[i]
      /\ Append(log, e)[Len(log) + 1] = e
  BY <1>1, AppendProperties
<1>3. /\ Len(log) \in Nat /\ DOMAIN log = 1..Len(log)
      /\ DOMAIN Append(log, e) = 1..Len(Append(log, e))
  BY <1>1, <1>2, LenProperties
<1> QED
  BY <1>2, <1>3

\* Every step keeps the types.
LEMMA TypesKept == TypeOK /\ Files /\ Next => TypeOK'
<1> SUFFICES ASSUME TypeOK, Files, Next PROVE TypeOK'
  OBVIOUS
<1>1. CASE Crash
  BY <1>1 DEF Crash, TypeOK
<1>2. ASSUME NEW a \in Appenders, AppendStep(a)
      PROVE  TypeOK'
  <2>1. NewRecord(base[a], a) \in Records /\ NextHead(base[a], a) \in Heads
    BY RecordTyped DEF TypeOK
  <2>2. CASE ReadHead(a)
    BY <2>2, HeadTyped DEF ReadHead, Begin, Goto, TypeOK
  <2>3. CASE WriteRecord(a) \/ WriteNewline(a)
    <3>1. log' \in Seq(Records \cup {Newline})
      BY <2>1, <2>3, LogGrows DEF WriteRecord, WriteNewline
    <3> QED
      BY <2>3, <3>1 DEF WriteRecord, WriteNewline, Goto, TypeOK
  <2>4. CASE OpenTmp(a)
    BY <2>4 DEF OpenTmp, Goto, TypeOK
  <2>5. CASE WriteTmp(a)
    BY <2>1, <2>5 DEF WriteTmp, Goto, TypeOK
  <2>6. CASE Rename(a) \/ RenameGone(a) \/ WriteError(a)
    BY <2>6 DEF Rename, RenameGone, WriteError, Goto, TypeOK
  <2> QED
    BY <1>2, <2>2, <2>3, <2>4, <2>5, <2>6 DEF AppendStep
<1> QED
  BY <1>1, <1>2 DEF Next

\* Growing the log keeps every commitment.
LEMMA CommitmentsStand ==
    ASSUME TypeOK, NEW e \in Records \cup {Newline}, log' = Append(log, e)
    PROVE  /\ \A h \in Heads : Committed(h) => Committed(h)'
           /\ \A r : (\E i \in DOMAIN log : log[i] = r)
                        => \E i \in DOMAIN log' : log'[i] = r
BY LogGrows DEF Committed

\* Every step keeps the files.
LEMMA FilesKept == TypeOK /\ Files /\ Next => Files'
<1> SUFFICES ASSUME TypeOK, Files, Next PROVE Files'
  OBVIOUS
<1> USE DEF Files
<1>1. CASE Crash
  BY <1>1 DEF Crash, Committed, Writing, InFlight, TypeOK
<1>2. ASSUME NEW a \in Appenders, AppendStep(a)
      PROVE  Files'
  <2>1. CASE ReadHead(a)
    <3>1. \A b \in Appenders : b # a => pc'[b] = pc[b] /\ base'[b] = base[b]
      BY <2>1 DEF ReadHead, Begin, Goto, TypeOK
    <3>2. pc[a] = "idle" /\ pc'[a] = "record"
      BY <2>1 DEF ReadHead, Begin, Goto, TypeOK
    <3>3. UNCHANGED <<log, inode, headFile, tmpFile, fd>>
      BY <2>1 DEF ReadHead
    <3> QED
      BY <3>1, <3>2, <3>3 DEF Committed, Writing
  <2>2. CASE WriteRecord(a) \/ WriteNewline(a)
    <3>1. PICK e \in Records \cup {Newline} :
             /\ log' = Append(log, e)
             /\ pc[a] = "record" => e = NewRecord(base[a], a)
      BY <2>2, RecordTyped DEF WriteRecord, WriteNewline, TypeOK
    <3>2. /\ \A b \in Appenders : b # a => pc'[b] = pc[b]
          /\ pc[a] \in {"record", "newline"}
          /\ pc'[a] = IF pc[a] = "record" THEN "newline" ELSE "open"
          /\ UNCHANGED <<base, inode, headFile, tmpFile, fd>>
      BY <2>2 DEF WriteRecord, WriteNewline, Goto, TypeOK
    <3>3. \A b \in Appenders : inode'[b] \notin {Absent, Empty} => Committed(inode[b])'
      BY <3>1, <3>2, CommitmentsStand DEF TypeOK
    <3>4. pc[a] = "record" => \E i \in DOMAIN log' : log'[i] = NewRecord(base[a], a)
      BY <3>1, LogGrows
    <3>5. \A b \in Appenders : Writing(b)' =>
             \E i \in DOMAIN log' : log'[i] = NewRecord(base[b], b)
      BY <3>1, <3>2, <3>4, CommitmentsStand DEF Writing
    <3>6. \A b \in Appenders : NewRecord(base[b], b)' = NewRecord(base[b], b)
      BY <3>2 DEF NewRecord, chain
    <3> QED
      BY <3>2, <3>3, <3>5, <3>6 DEF Writing, Committed
  <2>3. CASE OpenTmp(a)
    <3> DEFINE file == IF tmpFile = Absent THEN a ELSE tmpFile
    <3>1. file \in Appenders /\ file # headFile /\ file # Absent
      BY <2>3, LedgerAssumption DEF OpenTmp, TypeOK
    <3>2. /\ tmpFile' = file /\ inode' = [inode EXCEPT ![file] = Empty]
          /\ fd' = [fd EXCEPT ![a] = file] /\ pc' = [pc EXCEPT ![a] = "write"]
          /\ pc[a] = "open" /\ UNCHANGED <<base, log, headFile>>
      BY <2>3 DEF OpenTmp, Goto
    <3>3. \A b \in Appenders : b # a /\ pc[b] \in {"idle", "record", "newline", "open"} =>
             file # b
      OBVIOUS
    <3> HIDE DEF file
    <3> QED
      BY <3>1, <3>2, <3>3 DEF Committed, Writing, TypeOK
  <2>4. CASE WriteTmp(a)
    <3>1. /\ fd[a] \in Appenders /\ inode' = [inode EXCEPT ![fd[a]] = NextHead(base[a], a)]
          /\ pc[a] = "write" /\ pc' = [pc EXCEPT ![a] = "rename"]
          /\ UNCHANGED <<base, log, headFile, tmpFile, fd>>
      BY <2>4 DEF WriteTmp, Goto, TypeOK
    <3>2. PICK i \in DOMAIN log : log[i] = NewRecord(base[a], a)
      BY <3>1 DEF Writing
    <3>3. Committed(NextHead(base[a], a))
      <4>1. base[a] \in Heads
        BY DEF TypeOK
      <4>2. /\ NewRecord(base[a], a) # Newline
            /\ NextHead(base[a], a).head_hash = NewRecord(base[a], a).record_hash
            /\ NextHead(base[a], a).count = NewRecord(base[a], a).seq + 1
        BY <4>1, RecordTyped
      <4> QED
        BY <3>2, <4>2 DEF Committed
    <3> QED
      BY <3>1, <3>3 DEF Committed, Writing, TypeOK
  <2>5. CASE Rename(a) \/ RenameGone(a) \/ WriteError(a)
    <3>1. /\ \A b \in Appenders : b # a => pc'[b] = pc[b]
          /\ pc'[a] \in {"ok", "failed"}
          /\ UNCHANGED <<base, log, inode, fd>>
          /\ \/ headFile' = headFile /\ tmpFile' = tmpFile
             \/ headFile' = tmpFile /\ tmpFile' = Absent
      BY <2>5 DEF Rename, RenameGone, WriteError, Goto, TypeOK
    <3> QED
      BY <3>1, LedgerAssumption DEF Committed, Writing
  <2> QED
    BY <1>2, <2>1, <2>2, <2>3, <2>4, <2>5 DEF AppendStep
<1> QED
  BY <1>1, <1>2 DEF Next

\* Every step keeps the temporary file to its append while none overlap.
LEMMA SoloKept == TypeOK /\ Files /\ Solo /\ Next => Solo'
<1> SUFFICES ASSUME TypeOK, Files, Solo, Next, "overlap" \notin mishaps' PROVE Solo'
  BY DEF Solo
<1>0. "overlap" \notin mishaps
  BY DEF Next, Crash, AppendStep, ReadHead, Begin, WriteRecord, WriteNewline, OpenTmp,
    WriteTmp, Rename, RenameGone, WriteError
<1> USE <1>0 DEF Solo
<1>1. CASE Crash
  BY <1>1 DEF Crash, InFlight, HeadOnDisk, TypeOK
<1>2. ASSUME NEW a \in Appenders, AppendStep(a)
      PROVE  Solo'
  <2>1. CASE ReadHead(a)
    <3>1. /\ \A b \in Appenders : b # a => pc'[b] = pc[b]
          /\ pc'[a] = "record"
          /\ \A b \in Appenders : b # a => base'[b] = base[b]
          /\ UNCHANGED <<inode, headFile, tmpFile, fd>>
      BY <2>1 DEF ReadHead, Begin, Goto, TypeOK
    <3>2. \A b \in Appenders : ~InFlight(b)
      BY <2>1 DEF ReadHead, Begin
    <3> QED
      BY <3>1, <3>2 DEF InFlight, HeadOnDisk
  <2>2. CASE WriteRecord(a) \/ WriteNewline(a)
    <3>1. /\ \A b \in Appenders : b # a => pc'[b] = pc[b]
          /\ pc[a] \in {"record", "newline"} /\ pc'[a] \in {"newline", "open"}
          /\ UNCHANGED <<base, inode, headFile, tmpFile, fd>>
      BY <2>2 DEF WriteRecord, WriteNewline, Goto, TypeOK
    <3> QED
      BY <3>1 DEF InFlight, HeadOnDisk
  <2>3. CASE OpenTmp(a)
    <3> DEFINE file == IF tmpFile = Absent THEN a ELSE tmpFile
    <3>1. file \in Appenders /\ file # headFile
      BY <2>3, LedgerAssumption DEF OpenTmp, TypeOK, Files
    <3>2. /\ tmpFile' = file /\ inode' = [inode EXCEPT ![file] = Empty]
          /\ fd' = [fd EXCEPT ![a] = file] /\ pc' = [pc EXCEPT ![a] = "write"]
          /\ pc[a] = "open" /\ UNCHANGED <<base, log, headFile>>
      BY <2>3 DEF OpenTmp, Goto
    <3> HIDE DEF file
    <3>3. \A b \in Appenders : b # a => ~InFlight(b) /\ pc'[b] = pc[b]
      BY <3>2 DEF InFlight, TypeOK
    <3>4. HeadOnDisk' = HeadOnDisk
      BY <3>1, <3>2 DEF HeadOnDisk, TypeOK
    <3> QED
      BY <3>2, <3>3, <3>4 DEF InFlight, TypeOK
  <2>4. CASE WriteTmp(a)
    <3>1. /\ fd[a] \in Appenders /\ inode' = [inode EXCEPT ![fd[a]] = NextHead(base[a], a)]
          /\ pc[a] = "write" /\ pc' = [pc EXCEPT ![a] = "rename"]
          /\ UNCHANGED <<base, log, headFile, tmpFile, fd>>
      BY <2>4 DEF WriteTmp, Goto, TypeOK, Files
    <3>2. \A b \in Appenders : b # a => ~InFlight(b) /\ pc'[b] = pc[b]
      BY <3>1 DEF InFlight, TypeOK
    <3>3. HeadOnDisk' = HeadOnDisk
      BY <3>1 DEF HeadOnDisk, TypeOK, Files
    <3>4. inode'[fd[a]] = NextHead(base[a], a)
      BY <3>1 DEF TypeOK
    <3> QED
      BY <3>1, <3>2, <3>3, <3>4 DEF InFlight, TypeOK, NextHead, chain
  <2>5. CASE Rename(a)
    <3>1. /\ \A b \in Appenders : b # a => pc'[b] = pc[b]
          /\ pc[a] = "rename" /\ pc'[a] = "ok" /\ headFile' = tmpFile
          /\ UNCHANGED <<base, inode, fd>>
      BY <2>5 DEF Rename, Goto, TypeOK
    <3>2. \A b \in Appenders : b # a => ~InFlight(b)
      BY <3>1 DEF InFlight
    <3>3. tmpFile = fd[a] /\ inode[fd[a]] = NextHead(base[a], a) /\ fd[a] \in Appenders
      BY <3>1 DEF Files, TypeOK
    <3>4. HeadOnDisk' # Empty
      BY <3>1, <3>3, RecordTyped, LedgerAssumption DEF HeadOnDisk, TypeOK
    <3> QED
      BY <3>1, <3>2, <3>4 DEF InFlight
  <2>6. CASE RenameGone(a) \/ WriteError(a)
    <3>1. /\ \A b \in Appenders : b # a => pc'[b] = pc[b]
          /\ pc'[a] = "failed"
          /\ UNCHANGED <<base, log, inode, headFile, tmpFile, fd>>
      BY <2>6 DEF RenameGone, WriteError, Goto, TypeOK
    <3> QED
      BY <3>1 DEF InFlight, HeadOnDisk
  <2> QED
    BY <1>2, <2>1, <2>2, <2>3, <2>4, <2>5, <2>6 DEF AppendStep
<1> QED
  BY <1>1, <1>2 DEF Next

-----------------------------------------------------------------------------
(* The log while nothing goes wrong.                                       *)

\* The first k odd numbers are k.
LEMMA OddsCounted ==
    ASSUME NEW k \in Nat
    PROVE  Cardinality({2 * l - 1 : l \in 1..k}) = k
<1> DEFINE S == {2 * l - 1 : l \in 1..k}
           f == [l \in 1..k |-> 2 * l - 1]
<1>1. f \in Bijection(1..k, S)
  <2>1. f \in [1..k -> S] /\ \A y \in S : \E l \in 1..k : f[l] = y
    OBVIOUS
  <2>2. \A l, m \in 1..k : f[l] = f[m] => l = m
    OBVIOUS
  <2> HIDE DEF S, f
  <2>3. f \in Injection(1..k, S) /\ f \in Surjection(1..k, S)
    BY <2>1, <2>2 DEF Injection, Surjection, IsInjective
  <2> QED
    BY <2>3 DEF Bijection
<1>2. ExistsBijection(1..k, S)
  BY <1>1 DEF ExistsBijection
<1>3. IsFiniteSet(1..k) /\ Cardinality(1..k) = k
  BY FS_Interval
<1> HIDE DEF S, f
<1>4. Cardinality(S) = k
  BY <1>2, <1>3, FS_Bijection
<1> QED
  BY <1>4 DEF S

\* A reader of a regular log finds its records in order.
LEMMA RegularRead ==
    ASSUME TypeOK, NEW m \in Nat, Regular(m)
    PROVE  read_all = [k \in 1..m |-> log[2 * k - 1]]
<1>1. Len(log) \in Nat /\ DOMAIN log = 1..Len(log)
  BY LenProperties DEF TypeOK
<1>0. Len(log) = 2 * m \/ Len(log) = 2 * m - 1
  BY DEF Regular
<1>2. ASSUME NEW i \in DOMAIN log
      PROVE  IsLine(i) <=> \E l \in 1..m : i = 2 * l - 1
  <2>1. PICK l \in 1..m : i = 2 * l - 1 \/ i = 2 * l
    <3>0. i \in 1..Len(log)
      BY <1>1
    <3>1. i \in Nat /\ i >= 1 /\ i <= 2 * m
      <4>1. \A n \in Nat : (n = 2 * m \/ n = 2 * m - 1) /\ i \in 1..n =>
               i \in Nat /\ i >= 1 /\ i <= 2 * m
        OBVIOUS
      <4> QED
        BY <1>0, <1>1, <3>0, <4>1
    <3>2. \E l \in Nat : i = 2 * l - 1 \/ i = 2 * l
      <4>1. i = 2 * (i \div 2) \/ i = 2 * ((i \div 2) + 1) - 1
        BY <3>1
      <4>2. i \div 2 \in Nat /\ (i \div 2) + 1 \in Nat
        BY <3>1
      <4> QED
        BY <4>1, <4>2
    <3> QED
      BY <3>1, <3>2
  <2>2. CASE i = 2 * l
    <3>1. log[i] = Newline
      <4>1. 2 * l <= Len(log)
        BY <1>1, <2>2
      <4> QED
        BY <2>2, <4>1 DEF Regular
    <3>2. ~IsLine(i)
      BY <3>1 DEF IsLine
    <3> QED
      BY <2>2, <3>2
  <2>3. CASE i = 2 * l - 1
    <3>1. log[i] # Newline
      BY <2>3, LedgerAssumption DEF Regular
    <3>2. i = 1 \/ log[i - 1] = Newline
      <4>1. CASE l = 1
        BY <2>3, <4>1
      <4>2. CASE l > 1
        <5>1. l - 1 \in 1..m /\ i - 1 = 2 * (l - 1) /\ i - 1 <= Len(log)
          BY <1>1, <2>3, <4>2
        <5> QED
          BY <5>1 DEF Regular
      <4> QED
        BY <4>1, <4>2
    <3>3. i = Len(log) \/ log[i + 1] = Newline
      <4>1. CASE i < Len(log)
        <5>1. i + 1 = 2 * l /\ 2 * l <= Len(log)
          BY <1>1, <2>3, <4>1
        <5> QED
          BY <5>1 DEF Regular
      <4> QED
        BY <1>1, <4>1
    <3> QED
      BY <2>3, <3>1, <3>2, <3>3 DEF IsLine
  <2> QED
    BY <2>1, <2>2, <2>3
<1>3. Lines = {2 * l - 1 : l \in 1..m}
  <2>1. \A l \in 1..m : 2 * l - 1 \in DOMAIN log
    <3>1. \A n \in Nat, l \in 1..m : n = 2 * m \/ n = 2 * m - 1 => 2 * l - 1 \in 1..n
      OBVIOUS
    <3> QED
      BY <1>0, <1>1, <3>1
  <2> QED
    BY <1>2, <2>1 DEF Lines
<1>4. Cardinality(Lines) = m
  BY <1>3, OddsCounted
<1>5. ASSUME NEW l \in 1..m
      PROVE  Cardinality({j \in Lines : j <= 2 * l - 1}) = l
  <2>1. {j \in Lines : j <= 2 * l - 1} = {2 * n - 1 : n \in 1..l}
    BY <1>3
  <2>2. l \in Nat
    OBVIOUS
  <2> QED
    BY <2>1, <2>2, OddsCounted
<1>6. ASSUME NEW k \in 1..m
      PROVE  LineAt(k) = 2 * k - 1
  <2>1. 2 * k - 1 \in Lines /\ Cardinality({j \in Lines : j <= 2 * k - 1}) = k
    BY <1>3, <1>5
  <2>2. LineAt(k) \in Lines /\ Cardinality({j \in Lines : j <= LineAt(k)}) = k
    BY <2>1 DEF LineAt
  <2>3. PICK l \in 1..m : LineAt(k) = 2 * l - 1
    BY <1>3, <2>2
  <2>4. l = k
    BY <1>5, <2>2, <2>3
  <2> QED
    BY <2>3, <2>4
<1> QED
  BY <1>4, <1>6 DEF read_all

\* So a regular chain passes verify_chain.
LEMMA ChainVerifies ==
    ASSUME TypeOK, NEW m \in Nat, Regular(m), Chained(m)
    PROVE  verify_chain(read_all)
<1>1. read_all = [k \in 1..m |-> log[2 * k - 1]]
  BY RegularRead
<1>2. ASSUME NEW k \in 1..m
      PROVE  HashAt(k - 1) = IF k = 1 THEN <<>> ELSE read_all[k - 1].record_hash
  BY <1>1 DEF HashAt
<1>3. DOMAIN read_all = 1..m /\ \A k \in 1..m : read_all[k] = log[2 * k - 1]
  BY <1>1
<1> QED
  BY <1>2, <1>3 DEF verify_chain, Chained

\* One more record on the chain.
LEMMA ChainGrows ==
    ASSUME TypeOK, NEW m \in Nat, Regular(m), Chained(m), Len(log) = 2 * m,
           NEW h \in Heads, NEW a \in Appenders,
           h.count = m, h.head_hash = HashAt(m),
           log' = Append(log, NewRecord(h, a))
    PROVE  /\ Regular(m + 1)' /\ Chained(m + 1)' /\ Len(log') = 2 * (m + 1) - 1
           /\ log'[2 * (m + 1) - 1] = NewRecord(h, a)
           /\ \A k \in 1..m : log'[2 * k - 1] = log[2 * k - 1]
           /\ \A k \in 0..m : HashAt(k)' = HashAt(k)
<1> DEFINE r == NewRecord(h, a)
<1>1. /\ r \in Records /\ r.seq = h.count /\ r.kind = a /\ r.prev_hash = h.head_hash
      /\ r.record_hash = chain(h.head_hash, h.count, a)
  BY RecordTyped
<1> HIDE DEF r
<1>2. /\ Len(log') = 2 * m + 1 /\ log'[2 * m + 1] = r
      /\ \A i \in 1..(2 * m) : log'[i] = log[i]
  BY <1>1, LogGrows DEF r
<1>3. 2 * (m + 1) - 1 = 2 * m + 1
  OBVIOUS
<1>4. \A k \in 1..m : log'[2 * k - 1] = log[2 * k - 1] /\ log'[2 * k] = log[2 * k]
  BY <1>2
<1>5. \A k \in 0..m : HashAt(k)' = HashAt(k)
  BY <1>4 DEF HashAt
<1>6. Regular(m + 1)'
  <2>1. \A k \in 1..(m + 1) : log'[2 * k - 1] \in Records
    BY <1>1, <1>2, <1>3, <1>4 DEF Regular
  <2>2. \A k \in 1..(m + 1) : 2 * k <= Len(log') => log'[2 * k] = Newline
    BY <1>2, <1>4 DEF Regular
  <2> QED
    BY <1>2, <2>1, <2>2 DEF Regular
<1>7. Chained(m + 1)'
  <2> SUFFICES ASSUME NEW k \in 1..(m + 1)
               PROVE  /\ log'[2 * k - 1].seq = k - 1
                      /\ log'[2 * k - 1].prev_hash = HashAt(k - 1)'
                      /\ log'[2 * k - 1].record_hash =
                            chain(HashAt(k - 1)', log'[2 * k - 1].seq, log'[2 * k - 1].kind)
    BY DEF Chained, chain
  <2>1. k - 1 \in 0..m /\ HashAt(k - 1)' = HashAt(k - 1)
    BY <1>5
  <2>2. CASE k \in 1..m
    BY <1>4, <2>1, <2>2 DEF Chained
  <2>3. CASE k = m + 1
    <3>1. log'[2 * k - 1] = r /\ k - 1 = m
      BY <1>2, <1>3, <2>3
    <3> QED
      BY <1>1, <2>1, <3>1
  <2>4. k \in 1..m \/ k = m + 1
    OBVIOUS
  <2> QED
    BY <2>2, <2>3, <2>4
<1> QED
  BY <1>2, <1>3, <1>4, <1>5, <1>6, <1>7 DEF r

\* The newline after the last record.
LEMMA LineEnds ==
    ASSUME TypeOK, NEW m \in Nat, Regular(m), Chained(m), Len(log) = 2 * m - 1,
           log' = Append(log, Newline)
    PROVE  /\ Regular(m)' /\ Chained(m)' /\ Len(log') = 2 * m
           /\ \A k \in 1..m : log'[2 * k - 1] = log[2 * k - 1]
           /\ \A k \in 0..m : HashAt(k)' = HashAt(k)
<1>1. /\ Len(log') = 2 * m /\ log'[2 * m] = Newline
      /\ \A i \in 1..(2 * m - 1) : log'[i] = log[i]
  BY LogGrows
<1>2. \A k \in 1..m : log'[2 * k - 1] = log[2 * k - 1]
  BY <1>1
<1>3. \A k \in 0..m : HashAt(k)' = HashAt(k)
  BY <1>2 DEF HashAt
<1>4. \A k \in 1..m : log'[2 * k] = Newline
  <2> SUFFICES ASSUME NEW k \in 1..m PROVE log'[2 * k] = Newline
    OBVIOUS
  <2>1. CASE k = m
    BY <1>1, <2>1
  <2>2. CASE k < m
    <3>1. 2 * k \in 1..(2 * m - 1) /\ 2 * k <= Len(log)
      BY <2>2
    <3> QED
      BY <1>1, <3>1 DEF Regular
  <2> QED
    BY <2>1, <2>2
<1>5. Regular(m)'
  BY <1>1, <1>2, <1>4 DEF Regular
<1>6. \A k \in 1..m : HashAt(k - 1)' = HashAt(k - 1)
  <2>1. \A k \in 1..m : k - 1 \in 0..m
    OBVIOUS
  <2> QED
    BY <1>3, <2>1
<1>7. Chained(m)'
  BY <1>2, <1>6 DEF Chained, chain
<1> QED
  BY <1>1, <1>2, <1>3, <1>5, <1>7

\* A step that leaves the log alone leaves the chain alone.
LEMMA ChainStands ==
    ASSUME NEW m \in Nat, log' = log
    PROVE  /\ Regular(m) => Regular(m)'
           /\ Chained(m) => Chained(m)'
           /\ \A k \in 0..m : HashAt(k)' = HashAt(k)
BY DEF Regular, Chained, HashAt, chain

\* Every step keeps the log orderly.
LEMMA OrderlyKept == LedgerInv /\ Next => Orderly'
<1> SUFFICES ASSUME LedgerInv, Next, mishaps' = {} PROVE Orderly'
  BY DEF Orderly
<1>1. mishaps = {} /\ ~Crash
  BY DEF Next, Crash, AppendStep, ReadHead, Begin, WriteRecord, WriteNewline, OpenTmp,
    WriteTmp, Rename, RenameGone, WriteError
<1>2. TypeOK /\ Files /\ Solo /\ "overlap" \notin mishaps
  BY <1>1 DEF LedgerInv
<1>3. PICK m \in Nat : Latest(m)
  BY <1>1 DEF LedgerInv, Orderly
<1>4. \A a \in Appenders : pc[a] \notin {"failed", "dead"}
  BY <1>1 DEF LedgerInv, Orderly
<1>5. PICK a \in Appenders : AppendStep(a)
  BY <1>1 DEF Next
<1>6. \A b \in Appenders : b # a => pc'[b] = pc[b]
  BY <1>2, <1>5 DEF AppendStep, ReadHead, Begin, WriteRecord, WriteNewline, OpenTmp,
    WriteTmp, Rename, RenameGone, WriteError, Goto, TypeOK
<1>7. Regular(m) /\ Chained(m)
  BY <1>3 DEF Latest
<1>8. CASE ReadHead(a)
  <2>1. /\ pc[a] = "idle" /\ pc'[a] = "record" /\ base'[a] = head
        /\ \A b \in Appenders : b # a => base'[b] = base[b]
        /\ UNCHANGED <<log, inode, headFile>>
    BY <1>2, <1>8 DEF ReadHead, Begin, Goto, TypeOK
  <2>2. \A b \in Appenders : ~InFlight(b)
    BY <1>8 DEF ReadHead, Begin
  <2>3. head' = head
    BY <2>1 DEF head, HeadOnDisk
  <2>4. (\A b \in Appenders : ~Writing(b)) /\ (\A b \in Appenders : ~Writing(b)')
    BY <1>6, <2>1, <2>2 DEF Writing, InFlight
  <2>5. Regular(m)' /\ Chained(m)' /\ HeadIs(m)' /\ Len(log') = 2 * m
    BY <1>3, <1>7, <2>1, <2>3, <2>4, ChainStands DEF HeadIs, Latest
  <2>6. \A b \in Appenders : pc'[b] = "record" => b = a
    BY <1>6, <2>2 DEF InFlight
  <2>7. \A b \in Appenders : pc'[b] = "ok" => \E k \in 1..m : log'[2 * k - 1].kind = b
    BY <1>3, <1>6, <2>1 DEF Latest
  <2>8. Latest(m)'
    BY <2>1, <2>3, <2>4, <2>5, <2>6, <2>7 DEF Latest
  <2> QED
    BY <1>4, <1>6, <2>1, <2>8 DEF Orderly
<1>9. CASE WriteRecord(a)
  <2>1. /\ pc[a] = "record" /\ pc'[a] = "newline"
        /\ log' = Append(log, NewRecord(base[a], a))
        /\ UNCHANGED <<base, inode, headFile>>
    BY <1>2, <1>9 DEF WriteRecord, Goto, TypeOK
  <2>2. \A b \in Appenders : b # a => ~InFlight(b)
    BY <1>2, <2>1 DEF Solo, InFlight
  <2>3. head' = head /\ base[a] = head /\ head \in Heads
    BY <1>2, <1>3, <2>1, HeadTyped DEF head, HeadOnDisk, Latest
  <2>4. \A b \in Appenders : ~Writing(b)
    BY <2>1, <2>2 DEF Writing, InFlight
  <2>5. HeadIs(m) /\ Len(log) = 2 * m
    BY <1>3, <2>4 DEF Latest
  <2>6. /\ Regular(m + 1)' /\ Chained(m + 1)' /\ Len(log') = 2 * (m + 1) - 1
        /\ log'[2 * (m + 1) - 1] = NewRecord(base[a], a)
        /\ \A k \in 1..m : log'[2 * k - 1] = log[2 * k - 1]
        /\ \A k \in 0..m : HashAt(k)' = HashAt(k)
    BY <1>2, <1>7, <2>1, <2>3, <2>5, ChainGrows DEF HeadIs
  <2>7. HeadIs(m)'
    BY <2>3, <2>5, <2>6 DEF HeadIs
  <2>8. \A b \in Appenders : pc'[b] = "ok" =>
           \E k \in 1..(m + 1) : log'[2 * k - 1].kind = b
    <3> SUFFICES ASSUME NEW b \in Appenders, pc'[b] = "ok"
                 PROVE  \E k \in 1..(m + 1) : log'[2 * k - 1].kind = b
      OBVIOUS
    <3>1. PICK k \in 1..m : log[2 * k - 1].kind = b
      BY <1>3, <1>6, <2>1 DEF Latest
    <3> QED
      BY <2>6, <3>1
  <2>9. Latest(m + 1)'
    <3>1. \A b \in Appenders : pc'[b] # "record"
      BY <1>6, <2>1, <2>2 DEF InFlight
    <3>2. Writing(a)' /\ \A b \in Appenders : b # a => ~Writing(b)'
      BY <1>6, <2>1, <2>2 DEF Writing, InFlight
    <3>3. NewRecord(base[a], a)' = NewRecord(base[a], a)
      BY <2>1 DEF NewRecord, chain
    <3>4. m + 1 > 0 /\ (m + 1) - 1 = m
      OBVIOUS
    <3>5. base'[a] = head'
      BY <2>1, <2>3
    <3> QED
      BY <2>1, <2>6, <2>7, <2>8, <3>1, <3>2, <3>3, <3>4, <3>5 DEF Latest
  <2> QED
    BY <1>4, <1>6, <2>1, <2>9 DEF Orderly
<1>10. CASE WriteNewline(a)
  <2>1. /\ pc[a] = "newline" /\ pc'[a] = "open" /\ log' = Append(log, Newline)
        /\ UNCHANGED <<base, inode, headFile>>
    BY <1>2, <1>10 DEF WriteNewline, Goto, TypeOK
  <2>2. \A b \in Appenders : b # a => ~InFlight(b)
    BY <1>2, <2>1 DEF Solo, InFlight
  <2>3. /\ m > 0 /\ HeadIs(m - 1) /\ base[a] = head
        /\ log[2 * m - 1] = NewRecord(base[a], a) /\ Len(log) = 2 * m - 1
    BY <1>3, <2>1 DEF Latest, Writing
  <2>4. /\ Regular(m)' /\ Chained(m)' /\ Len(log') = 2 * m
        /\ \A k \in 1..m : log'[2 * k - 1] = log[2 * k - 1]
        /\ \A k \in 0..m : HashAt(k)' = HashAt(k)
    BY <1>2, <1>7, <2>1, <2>3, LineEnds
  <2>5. head' = head /\ m \in 1..m /\ m - 1 \in 0..m
    BY <2>1, <2>3 DEF head, HeadOnDisk
  <2>6. HeadIs(m - 1)'
    BY <2>3, <2>4, <2>5 DEF HeadIs
  <2>7. NewRecord(base[a], a)' = NewRecord(base[a], a)
    BY <2>1 DEF NewRecord, chain
  <2>8. \A b \in Appenders : pc'[b] = "ok" => \E k \in 1..m : log'[2 * k - 1].kind = b
    BY <1>3, <1>6, <2>1, <2>4 DEF Latest
  <2>9. Latest(m)'
    <3>1. \A b \in Appenders : pc'[b] # "record"
      BY <1>6, <2>1, <2>2 DEF InFlight
    <3>2. Writing(a)' /\ \A b \in Appenders : b # a => ~Writing(b)'
      BY <1>6, <2>1, <2>2 DEF Writing, InFlight
    <3>3. base'[a] = head' /\ log'[2 * m - 1] = NewRecord(base[a], a)'
      BY <2>1, <2>3, <2>4, <2>5, <2>7
    <3> QED
      BY <2>1, <2>3, <2>4, <2>6, <2>8, <3>1, <3>2, <3>3 DEF Latest
  <2> QED
    BY <1>4, <1>6, <2>1, <2>9 DEF Orderly
<1>11. CASE OpenTmp(a) \/ WriteTmp(a)
  <2>1. /\ pc[a] \in {"open", "write"} /\ pc'[a] \in {"write", "rename"}
        /\ UNCHANGED <<base, log, headFile>>
    BY <1>2, <1>11 DEF OpenTmp, WriteTmp, Goto, TypeOK
  <2>2. \A b \in Appenders : b # a => ~InFlight(b)
    BY <1>2, <2>1 DEF Solo, InFlight
  <2>3. head' = head
    <3>1. headFile # Absent => inode'[headFile] = inode[headFile]
      <4>1. CASE OpenTmp(a)
        BY <1>2, <4>1, LedgerAssumption DEF OpenTmp, Files, TypeOK
      <4>2. CASE WriteTmp(a)
        BY <1>2, <4>2 DEF WriteTmp, Files, Solo, TypeOK
      <4> QED
        BY <1>11, <4>1, <4>2
    <3> QED
      BY <2>1, <3>1 DEF head, HeadOnDisk
  <2>4. Regular(m)' /\ Chained(m)' /\ \A k \in 0..m : HashAt(k)' = HashAt(k)
    BY <1>7, <2>1, ChainStands
  <2>5. /\ m > 0 /\ HeadIs(m - 1) /\ base[a] = head
        /\ log[2 * m - 1] = NewRecord(base[a], a) /\ Len(log) = 2 * m
    BY <1>3, <2>1 DEF Latest, Writing
  <2>6. HeadIs(m - 1)'
    <3>1. m - 1 \in 0..m
      BY <2>5
    <3> QED
      BY <2>3, <2>4, <2>5, <3>1 DEF HeadIs
  <2>7. NewRecord(base[a], a)' = NewRecord(base[a], a)
    BY <2>1 DEF NewRecord, chain
  <2>8. \A b \in Appenders : pc'[b] = "ok" => \E k \in 1..m : log'[2 * k - 1].kind = b
    BY <1>3, <1>6, <2>1 DEF Latest
  <2>9. Latest(m)'
    <3>1. \A b \in Appenders : pc'[b] # "record"
      BY <1>6, <2>1, <2>2 DEF InFlight
    <3>2. Writing(a)' /\ \A b \in Appenders : b # a => ~Writing(b)'
      BY <1>6, <2>1, <2>2 DEF Writing, InFlight
    <3>3. base'[a] = head' /\ log'[2 * m - 1] = NewRecord(base[a], a)'
      BY <2>1, <2>3, <2>5, <2>7
    <3> QED
      BY <2>1, <2>4, <2>5, <2>6, <2>8, <3>1, <3>2, <3>3 DEF Latest
  <2> QED
    BY <1>4, <1>6, <2>1, <2>9 DEF Orderly
<1>12. CASE Rename(a)
  <2>1. /\ pc[a] = "rename" /\ pc'[a] = "ok" /\ headFile' = tmpFile
        /\ UNCHANGED <<base, log, inode>>
    BY <1>2, <1>12 DEF Rename, Goto, TypeOK
  <2>2. \A b \in Appenders : b # a => ~InFlight(b)
    BY <1>2, <2>1 DEF Solo, InFlight
  <2>3. tmpFile \in Appenders /\ inode[tmpFile] = NextHead(base[a], a)
    BY <1>2, <2>1 DEF Solo, Files, TypeOK
  <2>4. /\ m > 0 /\ HeadIs(m - 1) /\ base[a] = head
        /\ log[2 * m - 1] = NewRecord(base[a], a) /\ Len(log) = 2 * m
    BY <1>3, <2>1 DEF Latest, Writing
  <2>5. base[a] \in Heads
    BY <1>2 DEF TypeOK
  <2>6. head' = NextHead(base[a], a)
    BY <2>1, <2>3, <2>5, RecordTyped, LedgerAssumption DEF head, HeadOnDisk
  <2>7. Regular(m)' /\ Chained(m)' /\ HashAt(m)' = HashAt(m)
    BY <1>7, <2>1, ChainStands
  <2>8. HeadIs(m)'
    <3>1. head'.head_hash = HashAt(m)
      BY <2>4, <2>5, <2>6, RecordTyped DEF HashAt
    <3>2. head'.count = m
      <4>1. head'.count = base[a].count + 1 /\ base[a].count = m - 1
        BY <2>4, <2>6 DEF NextHead, HeadIs
      <4> QED
        BY <4>1
    <3> QED
      BY <2>7, <3>1, <3>2 DEF HeadIs
  <2>9. \A b \in Appenders : pc'[b] = "ok" => \E k \in 1..m : log'[2 * k - 1].kind = b
    <3> SUFFICES ASSUME NEW b \in Appenders, pc'[b] = "ok"
                 PROVE  \E k \in 1..m : log'[2 * k - 1].kind = b
      OBVIOUS
    <3>1. CASE b = a
      <4>1. m \in 1..m /\ log'[2 * m - 1].kind = a
        BY <2>1, <2>4, <2>5, RecordTyped
      <4> QED
        BY <3>1, <4>1
    <3>2. CASE b # a
      BY <1>3, <1>6, <2>1, <3>2 DEF Latest
    <3> QED
      BY <3>1, <3>2
  <2>10. Latest(m)'
    <3>1. \A b \in Appenders : pc'[b] # "record" /\ ~Writing(b)'
      BY <1>6, <2>1, <2>2 DEF InFlight, Writing
    <3> QED
      BY <2>1, <2>4, <2>7, <2>8, <2>9, <3>1 DEF Latest
  <2> QED
    BY <1>4, <1>6, <2>1, <2>10 DEF Orderly
<1>13. ~RenameGone(a) /\ ~WriteError(a)
  BY <1>2 DEF RenameGone, WriteError, Solo, Files
<1> QED
  BY <1>5, <1>8, <1>9, <1>10, <1>11, <1>12, <1>13 DEF AppendStep

-----------------------------------------------------------------------------
(* The theorems.                                                           *)

\* The invariant holds at the start.
LEMMA InitLedger == Init => LedgerInv
<1> SUFFICES ASSUME Init PROVE LedgerInv
  OBVIOUS
<1> USE DEF Init
<1>1. TypeOK
  <2>1. empty_head \in Heads
    BY EmptySeq DEF empty_head, Heads, Hashes
  <2>2. log \in Seq(Records \cup {Newline})
    BY EmptySeq
  <2> QED
    BY <2>1, <2>2 DEF TypeOK
<1>2. Files /\ Solo
  BY LedgerAssumption DEF Files, Solo, Writing, InFlight, HeadOnDisk
<1>3. Latest(0)
  <2>1. head = empty_head
    BY DEF head, HeadOnDisk
  <2>2. Len(log) = 0
    BY EmptySeq
  <2> QED
    BY <2>1, <2>2 DEF Latest, Regular, Chained, HeadIs, HashAt, Writing, empty_head
<1>4. Orderly
  BY <1>3 DEF Orderly
<1> QED
  BY <1>1, <1>2, <1>4 DEF LedgerInv

\* Every step keeps the invariant.
LEMMA NextLedger == LedgerInv /\ [Next]_vars => LedgerInv'
<1> SUFFICES ASSUME LedgerInv, [Next]_vars PROVE LedgerInv'
  OBVIOUS
<1>1. CASE Next
  BY <1>1, TypesKept, FilesKept, SoloKept, OrderlyKept DEF LedgerInv
<1>2. CASE UNCHANGED vars
  <2>1. TypeOK' /\ Files' /\ Solo'
    BY <1>2 DEF vars, LedgerInv, TypeOK, Files, Solo, Committed, Writing, InFlight,
      HeadOnDisk, NewRecord, NextHead, chain
  <2>2. \A m \in Nat : Latest(m) => Latest(m)'
    BY <1>2 DEF vars, Latest, Regular, Chained, HeadIs, HashAt, Writing, head, HeadOnDisk,
      NewRecord, chain, empty_head
  <2>3. Orderly'
    BY <1>2, <2>2 DEF vars, LedgerInv, Orderly
  <2> QED
    BY <2>1, <2>3 DEF LedgerInv
<1> QED
  BY <1>1, <1>2

\* Every reachable state of the ledger's files satisfies the inductive invariant.
THEOREM LedgerCorrect == Spec => []LedgerInv
BY InitLedger, NextLedger, PTL DEF Spec

\* Whatever overlaps, fails or crashes, head.json commits to a record of the log,
\* and it is never half-written unless two appends overlapped.
THEOREM HeadNeverAhead == Spec => []HeadNotAhead
<1>1. LedgerInv => HeadNotAhead
  <2> SUFFICES ASSUME LedgerInv PROVE HeadNotAhead
    OBVIOUS
  <2>1. "overlap" \notin mishaps => HeadOnDisk # Empty
    BY DEF LedgerInv, Solo
  <2>2. HeadOnDisk \notin {Absent, Empty} => Committed(HeadOnDisk)
    BY DEF LedgerInv, Files, HeadOnDisk, TypeOK
  <2> QED
    BY <2>1, <2>2 DEF HeadNotAhead, Committed
<1> QED
  BY <1>1, LedgerCorrect, PTL

\* While appends follow one another and none is cut off, verify_chain accepts what a
\* reader finds, evidence whose append returned is in it, and between two appends
\* head.json commits to exactly those records.
THEOREM LedgerSoundHolds == Spec => []LedgerSound
<1>1. LedgerInv => LedgerSound
  <2> SUFFICES ASSUME LedgerInv, mishaps = {}
               PROVE  /\ verify_chain(read_all)
                      /\ \A a \in Appenders : pc[a] = "ok" =>
                            \E i \in DOMAIN read_all : read_all[i].kind = a
                      /\ (\A a \in Appenders : ~InFlight(a)) => HeadMatchesLog
    BY DEF LedgerSound
  <2>1. PICK m \in Nat : Latest(m)
    BY DEF LedgerInv, Orderly
  <2>2. TypeOK /\ Regular(m) /\ Chained(m)
    BY <2>1 DEF LedgerInv, Latest
  <2>3. read_all = [k \in 1..m |-> log[2 * k - 1]]
    BY <2>2, RegularRead
  <2>4. verify_chain(read_all)
    BY <2>2, ChainVerifies
  <2>5. ASSUME NEW a \in Appenders, pc[a] = "ok"
        PROVE  \E i \in DOMAIN read_all : read_all[i].kind = a
    BY <2>1, <2>3, <2>5 DEF Latest
  <2>6. ASSUME \A a \in Appenders : ~InFlight(a)
        PROVE  HeadMatchesLog
    <3>1. \A a \in Appenders : ~Writing(a)
      BY <2>6 DEF InFlight, Writing
    <3>2. HeadIs(m)
      BY <2>1, <3>1 DEF Latest
    <3>3. Len(read_all) = m
      BY <2>3
    <3>4. read_all = <<>> <=> m = 0
      BY <2>3, <3>3, EmptySeq
    <3>5. m # 0 => read_all[m].record_hash = HashAt(m)
      BY <2>3 DEF HashAt
    <3>6. m = 0 => HashAt(m) = <<>>
      BY DEF HashAt
    <3> QED
      BY <3>2, <3>3, <3>4, <3>5, <3>6 DEF HeadMatchesLog, HeadIs
  <2> QED
    BY <2>4, <2>5, <2>6
<1> QED
  BY <1>1, LedgerCorrect, PTL
=============================================================================
