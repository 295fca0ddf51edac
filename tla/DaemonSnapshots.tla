-------------------------- MODULE DaemonSnapshots --------------------------
(***************************************************************************)
(* The snapshot file of a document (crates/daemon/src/store/snapshot.rs),  *)
(* recovery from snapshot and write-ahead log (store/recovery.rs), and the *)
(* replay to a point in time (history/mod.rs).                             *)
(*                                                                         *)
(* A document is the sequence of the bytes its updates wrote, in order; an *)
(* update is in the log as soon as it is in the document (DaemonDocs is    *)
(* about the time between).  Saving a snapshot takes a state of the        *)
(* document with the number of log frames in it.                           *)
(***************************************************************************)
EXTENDS Integers, Sequences, FiniteSets

CONSTANTS
    UpdateBytes,       \* what an update writes
    Savers,            \* concurrent calls of save_snapshot
    MaxRun,            \* u8::MAX, scaled down
    SNAPSHOT_INTERVAL_UPDATES, SNAPSHOT_INTERVAL_MINUTES,
    MaxReplayOps,      \* max_ops_per_scrub
    SnapMaxUpdates, SnapMaxTime, SnapMaxCrashes

ASSUME SnapBytesNat == UpdateBytes \subseteq Nat
ASSUME SnapReplayNat == MaxReplayOps \in Nat

VARIABLES
    frames,     \* the log: [byte, at]
    ydoc,       \* the document in memory, or "error" after a failed recovery
    snapFile,   \* {doc_id}.snap
    saver,      \* the calls of save_snapshot
    points,     \* the snapshots ever saved, as the history keeps them
    leftovers,  \* temporary files that nobody renamed
    snapClock, snapCrashes

snapVars == <<frames, ydoc, snapFile, saver, points, leftovers, snapClock, snapCrashes>>

-----------------------------------------------------------------------------
(* The payload codec *)

\* The runs so far and one byte more: [length, byte], the last one growing.
add_to_runs(runs, byte) ==
    LET last == runs[Len(runs)]
    IN IF runs # <<>> /\ last[2] = byte /\ last[1] < MaxRun
       THEN [runs EXCEPT ![Len(runs)] = <<last[1] + 1, byte>>]
       ELSE Append(runs, <<1, byte>>)

\* The runs, one length and one byte after the other.
rle_compress(input) ==
    LET upto[n \in 0..Len(input)] == IF n = 0 THEN <<>> ELSE add_to_runs(upto[n - 1], input[n])
        runs == upto[Len(input)]
    IN [j \in 1..2 * Len(runs) |-> runs[(j + 1) \div 2][2 - (j % 2)]]

rle_decompress(input) ==
    LET out[k \in 0..Len(input) \div 2] ==
            IF k = 0 THEN <<>> ELSE out[k - 1] \o [n \in 1..input[2 * k - 1] |-> input[2 * k]]
    IN out[Len(input) \div 2]

encode_payload(payload) ==
    LET rle == rle_compress(payload)
    IN IF Len(rle) < Len(payload) THEN [codec |-> "rle", data |-> rle] ELSE [codec |-> "raw", data |-> payload]

Corrupt == <<-1>>

decode_payload(codec, data, expected) ==
    LET decoded == IF codec = "raw" THEN data ELSE rle_decompress(data)
    IN IF (codec = "rle" /\ Len(data) % 2 # 0) \/ Len(decoded) # expected THEN Corrupt ELSE decoded

NoSnapshot == [there |-> FALSE, whole |-> TRUE, seq |-> 0, codec |-> "raw", data |-> <<>>, len |-> 0]

\* The file save_snapshot writes.
SnapshotOf(seq, payload) ==
    LET e == encode_payload(payload)
    IN [there |-> TRUE, whole |-> TRUE, seq |-> seq, codec |-> e.codec, data |-> e.data, len |-> Len(payload)]

\* A file cut off in the header or in the encrypted payload is an error.
load_snapshot(file) ==
    IF ~file.there THEN <<>>
    ELSE IF ~file.whole THEN Corrupt
    ELSE decode_payload(file.codec, file.data, file.len)

-----------------------------------------------------------------------------
(* Recovery and replay *)

Written(log) == [i \in DOMAIN log |-> log[i].byte]

\* Mutant: the last frame in the snapshot is applied again.
ReplayFromLastFrame(log, seq) == SubSeq(Written(log), IF seq = 0 THEN 1 ELSE seq, Len(log))

\* replay_from_frame: the frames after the first `seq`.
replay_from_frame(log, seq) == SubSeq(Written(log), seq + 1, Len(log))

recover_document(file, log) ==
    LET base == load_snapshot(file)
    IN IF base = Corrupt THEN Corrupt ELSE base \o replay_from_frame(log, file.seq)

\* What the frames after the first `seq` wrote until a time.
replayable_entries(log, seq, target) ==
    LET upto[n \in 0..Len(log)] ==
            IF n = 0 THEN <<>>
            ELSE IF n > seq /\ log[n].at <= target THEN Append(upto[n - 1], log[n].byte)
            ELSE upto[n - 1]
    IN upto[Len(log)]

\* The base is the newest snapshot taken at or before the time.
scrub_to_time(snaps, log, target) ==
    LET before == {s \in snaps : s.at <= target}
        base == IF before = {} THEN [seq |-> 0, at |-> 0, payload |-> <<>>]
                ELSE CHOOSE s \in before : \A t \in before : t.at <= s.at
        replayable == replayable_entries(log, base.seq, target)
        capped == Len(replayable) > MaxReplayOps
        applied == SubSeq(replayable, 1, IF capped THEN MaxReplayOps ELSE Len(replayable))
    IN [document |-> base.payload \o applied, base |-> base.seq, capped |-> capped]

\* The text the restore update makes of the current document.
restore_to_time(current, snaps, log, target) ==
    LET scrubbed == scrub_to_time(snaps, log, target).document
    IN IF current = scrubbed THEN current ELSE scrubbed

-----------------------------------------------------------------------------
(* The steps *)

NoSave == [pc |-> "idle", file |-> NoSnapshot, payload |-> <<>>, at |-> 0]

SnapInit ==
    /\ frames = <<>> /\ ydoc = <<>>
    /\ snapFile = NoSnapshot
    /\ saver = [s \in Savers |-> NoSave]
    /\ points = {}
    /\ leftovers = 0 /\ snapClock = 0 /\ snapCrashes = 0

append_frame(b) ==
    /\ ydoc # Corrupt /\ Len(frames) < SnapMaxUpdates
    /\ frames' = Append(frames, [byte |-> b, at |-> snapClock])
    /\ ydoc' = Append(ydoc, b)
    /\ UNCHANGED <<snapFile, saver, points, leftovers, snapClock, snapCrashes>>

snapshot_due(lastSeq, seq, lastAt, now) ==
    seq - lastSeq >= SNAPSHOT_INTERVAL_UPDATES \/ now - lastAt >= SNAPSHOT_INTERVAL_MINUTES

LastPoint == IF points = {} THEN [seq |-> 0, at |-> 0, payload |-> <<>>]
             ELSE CHOOSE p \in points : \A q \in points : q.seq <= p.seq

\* encode and write to a temporary file of a new name, and fsync it.
save_snapshot(s) ==
    /\ ydoc # Corrupt
    /\ saver[s].pc = "idle"
    /\ snapshot_due(LastPoint.seq, Len(frames), LastPoint.at, snapClock)
    /\ saver' = [saver EXCEPT ![s] = [pc |-> "written", file |-> SnapshotOf(Len(frames), ydoc),
                                      payload |-> ydoc, at |-> snapClock]]
    /\ UNCHANGED <<frames, ydoc, snapFile, points, leftovers, snapClock, snapCrashes>>

\* fs::rename over the snapshot there is.
rename_snapshot(s) ==
    /\ saver[s].pc = "written"
    /\ snapFile' = saver[s].file
    /\ points' = points \union {[seq |-> saver[s].file.seq, at |-> saver[s].at, payload |-> saver[s].payload]}
    /\ saver' = [saver EXCEPT ![s] = NoSave]
    /\ UNCHANGED <<frames, ydoc, leftovers, snapClock, snapCrashes>>

SnapCrash ==
    /\ snapCrashes < SnapMaxCrashes
    /\ snapCrashes' = snapCrashes + 1
    /\ leftovers' = leftovers + Cardinality({s \in Savers : saver[s].pc = "written"})
    /\ saver' = [s \in Savers |-> NoSave]
    /\ ydoc' = recover_document(snapFile, frames)
    /\ UNCHANGED <<frames, snapFile, points, snapClock>>

SnapTick ==
    /\ snapClock < SnapMaxTime
    /\ snapClock' = snapClock + 1
    /\ UNCHANGED <<frames, ydoc, snapFile, saver, points, leftovers, snapCrashes>>

SnapNext ==
    \/ \E b \in UpdateBytes : append_frame(b)
    \/ \E s \in Savers : save_snapshot(s) \/ rename_snapshot(s)
    \/ SnapCrash \/ SnapTick

SnapSpec == SnapInit /\ [][SnapNext]_snapVars

-----------------------------------------------------------------------------
(* Properties *)

\* recover_document: whichever of several saves was renamed last, and
\* wherever a crash stops one, snapshot and log give back every update once.
SnapRecovers == recover_document(snapFile, frames) = Written(frames) /\ ydoc = Written(frames)

\* scrub_to_time and restore_to_time: the document at a past time is the
\* updates applied by then, whichever snapshot it starts from; a replay that
\* was cut says so and gives a beginning of them.
SnapScrubExact ==
    \A target \in 0..snapClock :
       LET bythen == replayable_entries(frames, 0, target)
           scrub == scrub_to_time(points, frames, target)
       IN /\ IF scrub.capped THEN \E n \in 0..Len(bythen) : scrub.document = SubSeq(bythen, 1, n)
             ELSE scrub.document = bythen
          /\ restore_to_time(ydoc, points, frames, target) = scrub.document

\* Recovery and replay give back what was written.
SnapSound == SnapRecovers /\ SnapScrubExact
=============================================================================
