--------------------------------- MODULE Wal ---------------------------------
(***************************************************************************)
(* exg-wal: the segmented write-ahead log and its snapshots, as bytes on a *)
(* disk see them (writer.rs, reader.rs, segment.rs, snapshot.rs).          *)
(*                                                                         *)
(* A record is in the process's BufWriter, then in the page cache, then on *)
(* the platter.  Killing the process loses what is only in the buffer, a   *)
(* power failure also what was never fsynced; either may leave a record    *)
(* cut short, and a power failure a record of the right length and the     *)
(* wrong content.  The next open() scans what is left.  The file system is *)
(* taken to make a new file's directory entry durable with its first       *)
(* sync_data, and to fail no call.                                         *)
(***************************************************************************)
EXTENDS Integers, Sequences, SequencesExt, FiniteSetsExt

CONSTANTS
    Payloads,       \* payload sizes the engine's events come in
    SegmentSize,    \* wal.segment_size
    FlushEvery,     \* wal.flush_every_n
    SnapshotsKept,  \* MAX_SNAPSHOTS_KEPT
    MaxRecords,     \* bound: sequence numbers given out
    MaxFaults,      \* bound: kills and power failures
    MaxSaves        \* bound: snapshots begun

ASSUME WalAssumption ==
    /\ Payloads \subseteq Nat
    /\ {SegmentSize, FlushEvery, SnapshotsKept} \subseteq Nat \ {0}
    /\ {MaxRecords, MaxFaults, MaxSaves} \subseteq Nat

VARIABLES
    segments,   \* the files wal-<first>.log, sorted by name
    phase,      \* of the process: "down", "up", or its open() "refused"
    next,       \* next_sequence
    unflushed,  \* records_since_flush
    booted,     \* next_sequence when open() returned
    promised,   \* history: records a completed flush has covered
    loose,      \* history: open() left an unsynced file behind its successor
    faults,     \* how often the process was killed or lost power
    snapshots,  \* sequences of the snapshot files a listing shows
    dirSynced,  \* those a listing after a power failure must show
    saving,     \* the save_snapshot in progress: its sequence and its step
    saved,      \* history: highest sequence whose save returned, or -1
    saves       \* how many saves were begun

snapshotVars == <<snapshots, dirSynced, saving, saved, saves>>
logVars == <<segments, next, unflushed, booted, promised, loose>>
walVars == <<logVars, phase, faults, snapshotVars>>

RecordOverhead == 16
RecordSize(payload) == RecordOverhead + payload

\* records: those appended, [seq, size]; of them the first `written` have left
\* the buffer and the first `synced` are on the platter.  tail says what
\* follows the records: nothing, a record cut short, or one that fails its CRC.
NewSegment(first) ==
    [first |-> first, records |-> << >>, written |-> 0, synced |-> 0, tail |-> "clean"]

Bytes(segment) == FoldSeq(LAMBDA record, bytes : record.size + bytes, 0, segment.records)

Flushed(segment) ==
    [segment EXCEPT !.written = Len(segment.records), !.synced = Len(segment.records)]

WalInit ==
    /\ segments = << >>
    /\ phase = "down"
    /\ next = 0 /\ unflushed = 0 /\ booted = 0 /\ promised = 0
    /\ loose = FALSE
    /\ faults = 0
    /\ snapshots = {} /\ dirSynced = {} /\ saved = -1 /\ saves = 0
    /\ saving = [step |-> "none", seq |-> 0]

-----------------------------------------------------------------------------
(* Opening.                                                                *)

SequencesOf(segs) ==
    FlattenSeq([i \in 1 .. Len(segs) |->
        [k \in 1 .. Len(segs[i].records) |-> segs[i].records[k].seq]])

Continuous(sequences) == \A i \in 1 .. Len(sequences) : sequences[i] = i - 1

\* Mutant: nobody looks whether the records of the files connect.
GapUncheckedMutant(segs) ==
    \/ \E i \in 1 .. Len(segs) : segs[i].tail = "garbled"
    \/ \E i \in 1 .. Len(segs) - 1 : segs[i].tail = "torn"

\* A short record is a torn write in the last file and data loss elsewhere; a
\* CRC mismatch is data loss anywhere.
RecoverStateFails(segs) ==
    \/ \E i \in 1 .. Len(segs) : segs[i].tail = "garbled"
    \/ \E i \in 1 .. Len(segs) - 1 : segs[i].tail = "torn"
    \/ ~Continuous(SequencesOf(segs))

Truncated(segment) ==
    IF segment.tail = "clean" THEN segment ELSE [Flushed(segment) EXCEPT !.tail = "clean"]

Open ==
    /\ phase = "down"
    /\ IF RecoverStateFails(segments)
       THEN phase' = "refused" /\ UNCHANGED logVars
       ELSE LET sequences == SequencesOf(segments)
                found == IF sequences = << >> THEN 0 ELSE Last(sequences) + 1
                kept == IF segments = << >> THEN << >>
                        ELSE Append(Front(segments), Truncated(Last(segments)))
                full == kept # << >> /\ Bytes(Last(kept)) >= SegmentSize IN
            /\ phase' = "up"
            /\ next' = found /\ booted' = found /\ unflushed' = 0
            /\ segments' = IF kept = << >> \/ full THEN Append(kept, NewSegment(found)) ELSE kept
            /\ loose' = (loose \/ (full /\ Last(kept).synced < Len(Last(kept).records)))
            /\ UNCHANGED promised
    /\ UNCHANGED <<faults, snapshotVars>>

-----------------------------------------------------------------------------
(* Writing.                                                                *)

NeedsRotation(size) ==
    LET bytes == Bytes(Last(segments)) IN bytes > 0 /\ bytes + size > SegmentSize

\* Mutant: the writer moves on to the next file and leaves the flush to later.
UnflushedRotationMutant == Append(segments, NewSegment(next))

\* flush(), then rotate_segment().
Rotated == Append(Append(Front(segments), Flushed(Last(segments))), NewSegment(next))

WithRecord(segs, size) ==
    Append(Front(segs),
           [Last(segs) EXCEPT !.records = Append(@, [seq |-> next, size |-> size])])

\* Append a record (one above MAX_PAYLOAD_SIZE is refused and changes nothing).
AppendRecord(payload) ==
    LET size == RecordSize(payload)
        rotates == NeedsRotation(size)
        extended == WithRecord(IF rotates THEN Rotated ELSE segments, size)
        count == (IF rotates THEN 0 ELSE unflushed) + 1
        flushes == count >= FlushEvery IN
    /\ phase = "up" /\ next < MaxRecords
    /\ next' = next + 1
    /\ segments' = IF flushes THEN Append(Front(extended), Flushed(Last(extended))) ELSE extended
    /\ unflushed' = IF flushes THEN 0 ELSE count
    /\ promised' = IF flushes THEN next + 1 ELSE IF rotates THEN next ELSE promised
    /\ UNCHANGED <<booted, loose, phase, faults, snapshotVars>>

Flush ==
    /\ phase = "up"
    /\ segments' = Append(Front(segments), Flushed(Last(segments)))
    /\ unflushed' = 0
    /\ promised' = next
    /\ UNCHANGED <<next, booted, loose, phase, faults, snapshotVars>>

-----------------------------------------------------------------------------
(* Faults.                                                                 *)

Cut(segment, n, tail) ==
    [segment EXCEPT !.records = SubSeq(@, 1, n), !.written = n, !.synced = Min({n, @}),
                    !.tail = tail]

\* What a fault leaves of a file of which it must keep the first n records.
Remains(segment, n, tails) ==
    {Cut(segment, k, "clean") : k \in n .. Len(segment.records)}
      \cup {Cut(segment, k, tail) : k \in n .. Len(segment.records) - 1, tail \in tails}

\* What was only in the process's memory is gone.
Forgotten ==
    /\ next' = 0 /\ unflushed' = 0 /\ booted' = 0
    /\ saving' = [step |-> "none", seq |-> 0]

\* The process ends; the buffer may have been handed over in part (BufWriter
\* spills when it is full, and tries to write the rest when it is dropped).
\* If it was about to append and to rotate, the new file may be there, empty.
Kill ==
    /\ phase = "up" /\ faults < MaxFaults
    /\ \/ \E last \in Remains(Last(segments), Last(segments).written, {"torn"}) :
             segments' = Append(Front(segments), last) /\ UNCHANGED promised
       \/ /\ \E payload \in Payloads : NeedsRotation(RecordSize(payload))
          /\ segments' = Rotated
          /\ promised' = next
    /\ phase' = "down"
    /\ faults' = faults + 1
    /\ Forgotten
    /\ UNCHANGED <<loose, snapshots, dirSynced, saved, saves>>

\* One more file, after each thing that may be left of those before it.
WithRemains(before, segment) ==
    {Append(s, r) : s \in before,
                    r \in Remains(segment, segment.synced, {"torn", "garbled"})}

\* Every file keeps what was fsynced, and any part of the rest.
PowerFailure ==
    /\ phase \in {"up", "down"} /\ faults < MaxFaults
    /\ segments' \in FoldLeft(WithRemains, {<< >>}, segments)
    /\ snapshots' \in {s \in SUBSET (snapshots \cup dirSynced) : snapshots \cap dirSynced \subseteq s}
    /\ dirSynced' = snapshots'
    /\ phase' = "down"
    /\ faults' = faults + 1
    /\ Forgotten
    /\ UNCHANGED <<promised, loose, saved, saves>>

-----------------------------------------------------------------------------
(* Reading.                                                                *)

\* Mutant: a start that names no file is looked for after it, not before.
InsertionPointMutant(segs, start) ==
    Min({Len(segs)} \cup {i \in 1 .. Len(segs) : segs[i].first >= start})

\* The first file that could hold start: the last one named start or below,
\* or the first one there is.
StartSegment(segs, start) ==
    Max({1} \cup {i \in 1 .. Len(segs) : segs[i].first <= start})

\* Records below start are passed over.
Delivered(got, seq) == IF seq < got.start THEN got ELSE [got EXCEPT !.read = Append(@, seq)]

\* Of the records in the page cache: read_from meets a short record by going
\* on with the next file, and does not ask whether the sequences connect.
ReadFrom(start) ==
    LET onDisk == [i \in 1 .. Len(segments) |->
                     [segments[i] EXCEPT !.records = SubSeq(@, 1, segments[i].written)]] IN
    IF segments = << >> THEN << >>
    ELSE FoldLeft(Delivered, [start |-> start, read |-> << >>],
                  SequencesOf(SubSeq(onDisk, StartSegment(segments, start), Len(segments)))).read

-----------------------------------------------------------------------------
(* Snapshots: temporary file, fsync, rename, fsync of the directory,       *)
(* removal of the oldest.                                                  *)

\* The temporary file's name is not that of a snapshot: it is on no list.
BeginSave(seq) ==
    /\ phase = "up" /\ saving.step = "none" /\ saves < MaxSaves
    /\ seq \in 0 .. next
    /\ saving' = [step |-> "temporary", seq |-> seq]
    /\ saves' = saves + 1
    /\ UNCHANGED <<logVars, phase, faults, snapshots, dirSynced, saved>>

RenameSnapshot ==
    /\ phase = "up" /\ saving.step = "temporary"
    /\ snapshots' = snapshots \cup {saving.seq}
    /\ saving' = [saving EXCEPT !.step = "renamed"]
    /\ UNCHANGED <<logVars, phase, faults, dirSynced, saved, saves>>

SyncDirectory ==
    /\ phase = "up" /\ saving.step = "renamed"
    /\ dirSynced' = snapshots
    /\ saving' = [saving EXCEPT !.step = "synced"]
    /\ UNCHANGED <<logVars, phase, faults, snapshots, saved, saves>>

Newest(n) == {s \in snapshots : Cardinality({t \in snapshots : t > s}) < n}

\* cleanup_old_snapshots, and the return of save_snapshot.
CleanUp ==
    /\ phase = "up" /\ saving.step = "synced"
    /\ snapshots' = Newest(SnapshotsKept)
    /\ saved' = IF saving.seq > saved THEN saving.seq ELSE saved
    /\ saving' = [step |-> "none", seq |-> 0]
    /\ UNCHANGED <<logVars, phase, faults, dirSynced, saves>>

LoadLatestSnapshot == Max({-1} \cup snapshots)

WalNext ==
    \/ Open \/ Flush \/ Kill \/ PowerFailure
    \/ \E payload \in Payloads : AppendRecord(payload)
    \/ \E seq \in 0 .. MaxRecords : BeginSave(seq)
    \/ RenameSnapshot \/ SyncDirectory \/ CleanUp

WalSpec == WalInit /\ [][WalNext]_walVars

-----------------------------------------------------------------------------
(* Properties.                                                             *)

\* A log that opens is whole: its records are numbered 0, 1, ... without a gap
\* up to the one the writer continues with.  It has also lost nothing it
\* promised: every record a flush returned for is there, in whichever file it
\* lies and whatever was killed or lost power since, and every file is named
\* after its first record -- unless an open() had begun a new file behind a
\* full one it did not fsync: flush() then answers for records it never
\* synced.  (WalWriter::open and recover_state, after append, flush and
\* rotate_segment.)
FlushedRecordsKept ==
    phase = "up" =>
        /\ SequencesOf(segments) = [i \in 1 .. next |-> i - 1]
        /\ loose \/ promised <= next
        /\ loose \/ \A i \in 1 .. Len(segments) :
              segments[i].records # << >> => segments[i].first = segments[i].records[1].seq

\* open() refuses to start only over data that is gone: the content of a
\* record failed its CRC, or an earlier open() had begun a new file behind one
\* that was full but never fsynced.  A log that was only ever rotated opens
\* whatever tears the end of its last file.  (The errors of recover_state.)
RefusedOnlyOverLoss ==
    phase = "refused" => loose \/ \E i \in 1 .. Len(segments) : segments[i].tail = "garbled"

\* What a boot replays is what the writer found: read_from any sequence gives
\* exactly the records from there to the end, although it has a scan of its
\* own, and the number read from 0 is the writer's next_sequence (invariant
\* 21 of the server's boot).  The newest snapshot is never older than one
\* whose save returned, so that reading from it skips nothing it left out.
BootReadsTheWholeLog ==
    /\ phase = "up" /\ next = booted =>
          \A start \in 0 .. next : ReadFrom(start) = [i \in 1 .. next - start |-> start + i - 1]
    /\ LoadLatestSnapshot >= saved
=============================================================================
