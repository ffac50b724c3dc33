----------------------------- MODULE GroupStore -----------------------------
(***************************************************************************)
(* The disk-backed group store of the relay (store.rs): segment files of   *)
(* length-prefixed records, an in-memory index, one appending writer, GC   *)
(* of whole segments, and the scan that rebuilds everything on open.       *)
(*                                                                         *)
(* A file is a sequence of cells.  A record is one header cell followed by *)
(* n body cells, so a torn append is a strict prefix of a record and an    *)
(* offset that is off by any amount reads something that is not a header.  *)
(* A crash stops the process; what reached the kernel stays in the file.   *)
(***************************************************************************)
EXTENDS Integers, Sequences, FiniteSets, SequencesExt

CONSTANTS
  MaxSeq,         \* bound: group sequences are 0..MaxSeq
  MaxBody,        \* bound: a record has 1..MaxBody body cells
  MaxClock,       \* bound: wall-clock readings are 0..MaxClock
  MaxCrashes,     \* bound: number of crashes
  SegmentTarget,  \* segment_target, in cells
  Budgets,        \* the values of max_bytes the operator may configure
  Readers,        \* threads that serve backfill from the store
  None,           \* the absent value
  AppendMayFail   \* whether write_all/flush may report an error (full disk)

ASSUME StoreAssumption ==
  /\ MaxSeq \in Nat \ {0} /\ MaxBody \in Nat \ {0} /\ MaxClock \in Nat
  /\ MaxCrashes \in Nat /\ SegmentTarget \in Nat \ {0}
  /\ Budgets \subseteq Nat /\ AppendMayFail \in BOOLEAN

VARIABLES
  disk,      \* path -> cells of the file
  up,        \* is the process running with the store open?
  segments,  \* Vec<Segment>, oldest first
  index,     \* seq -> Location
  maxSeq,    \* max_seq, NoSeq if nothing was ever stored
  pending,   \* cells the BufWriter still holds after a failed flush
  op,        \* the store operation in progress, under the store's lock
  located,   \* reader -> the GroupLocation it reads next, or None
  hw,        \* highest sequence ever handed to append, over all runs
  clock,     \* last wall-clock reading
  crashes,   \* number of crashes so far
  acked      \* the groups whose append returned Ok, with their file

memory == <<segments, index, maxSeq, pending>>
ghosts == <<hw, clock, crashes, acked>>
vars   == <<disk, up, memory, op, located, ghosts>>

NoSeq == -1
Idle == [kind |-> "idle"]

Seqs    == 0 .. MaxSeq
Groups  == [seq : Seqs, ms : 0 .. MaxClock, n : 1 .. MaxBody, v2 : BOOLEAN]
Paths   == [stem : Seqs, v2 : BOOLEAN]
Encode(g) == [i \in 1 .. g.n + 1 |-> [group |-> g, at |-> i]]

Put(f, k, v) == [x \in DOMAIN f \cup {k} |-> IF x = k THEN v ELSE f[x]]
KeepOnly(f, S) == [x \in DOMAIN f \cap S |-> f[x]]
TotalBytes(segs) == FoldLeft(LAMBDA sum, s : sum + s.bytes, 0, segs)

-----------------------------------------------------------------------------
(* Reading a file.                                                         *)

(* Is there a header at this offset, in the format the reader expects?     *)
HeaderAt(file, v2, o) ==
  /\ o < Len(file)
  /\ file[o + 1].at = 1
  /\ file[o + 1].group.v2 = v2

GroupAt(file, o)   == file[o + 1].group
RecordEnd(file, o) == o + Len(Encode(GroupAt(file, o)))

(* The offsets scan() accepts from o on.  It checks the header and that    *)
(* the length the header claims stays inside the file, not the body.  A    *)
(* header read from the middle of a record claims a length that does not   *)
(* fit.                                                                    *)
ScanOffsets(file, v2) ==
  LET from[o \in 0 .. Len(file)] ==
        IF HeaderAt(file, v2, o) /\ RecordEnd(file, o) <= Len(file)
        THEN {o} \cup from[RecordEnd(file, o)]
        ELSE {}
  IN  from[0]

ScanEnd(file, v2) ==
  LET S == ScanOffsets(file, v2)
  IN  IF S = {} THEN 0 ELSE RecordEnd(file, Max(S))

(* Mutant: the sequence in the header is not compared with the one asked.  *)
ReadGroupAtUnchecked(loc, seq) ==
  IF loc.path \notin DOMAIN disk THEN None
  ELSE LET file == disk[loc.path]
       IN  IF HeaderAt(file, loc.v2, loc.offset) THEN GroupAt(file, loc.offset) ELSE None

(* read_group_at: an error (None) when the file is gone, the record is     *)
(* truncated or the sequence in the header is not the one asked for.  When *)
(* the header matches and the body is not that group's, what comes back is *)
(* no group: its length is 0, which no record has.                         *)
ReadGroupAt(loc, seq) ==
  IF loc.path \notin DOMAIN disk THEN None
  ELSE LET file == disk[loc.path] IN
       IF ~HeaderAt(file, loc.v2, loc.offset) THEN None
       ELSE LET g == GroupAt(file, loc.offset) IN
            IF g.seq # seq \/ RecordEnd(file, loc.offset) > Len(file) THEN None
            ELSE IF SubSeq(file, loc.offset + 1, RecordEnd(file, loc.offset)) = Encode(g)
                 THEN g ELSE [g EXCEPT !.n = 0]

LocationOf(seq) ==
  LET seg == segments[index[seq].segment]
  IN  [path |-> seg.path, offset |-> index[seq].offset, v2 |-> seg.v2]

-----------------------------------------------------------------------------
(* Opening the store.                                                      *)

(* One file of the scan: the segment it becomes and where it is cut.       *)
ScannedSegment(path) ==
  LET file == disk[path]
      S    == ScanOffsets(file, path.v2)
  IN  [path   |-> path,
       v2     |-> path.v2,
       first  |-> IF S = {} THEN 0 ELSE GroupAt(file, 0).seq,
       newest |-> IF S = {} THEN 0 ELSE GroupAt(file, Max(S)).ms,
       bytes  |-> ScanEnd(file, path.v2)]

(* Mutant: the torn tail stays in the file.                                *)
TornTailKept(path) == disk[path]

Truncated(path) == SubSeq(disk[path], 1, ScanEnd(disk[path], path.v2))

(* The files in the order of their names.                                  *)
ByStem ==
  LET n == Cardinality(DOMAIN disk)
  IN  CHOOSE q \in [1 .. n -> DOMAIN disk] :
        \A i, j \in 1 .. n : i < j => q[i].stem < q[j].stem

(* Mutant: only the newest segment is scanned.                             *)
ScanIndexOfNewest(order) ==
  IF order = <<>> THEN <<>>
  ELSE LET S == ScanOffsets(disk[Last(order)], Last(order).v2)
           at(s) == CHOOSE o \in S : GroupAt(disk[Last(order)], o).seq = s
       IN  [s \in {GroupAt(disk[Last(order)], o).seq : o \in S} |->
              [segment |-> Len(order), offset |-> at(s),
               ms |-> GroupAt(disk[Last(order)], at(s)).ms]]

(* The index entries scan() finds; a later record of a sequence wins.      *)
ScanIndex(order) ==
  LET places == UNION {{[segment |-> i, offset |-> o] :
                          o \in ScanOffsets(disk[order[i]], order[i].v2)} :
                        i \in 1 .. Len(order)}
      group(e) == GroupAt(disk[order[e.segment]], e.offset)
      last(s)  == CHOOSE e \in places :
                    /\ group(e).seq = s
                    /\ \A d \in places : group(d).seq = s =>
                         \/ d.segment < e.segment
                         \/ d.segment = e.segment /\ d.offset <= e.offset
  IN  [s \in {group(e).seq : e \in places} |->
         [segment |-> last(s).segment, offset |-> last(s).offset,
          ms |-> group(last(s)).ms]]

(* GroupStore::open: scan the segments in name order and truncate each     *)
(* torn tail, because the writer appends at the physical end of the file.  *)
Open ==
  /\ ~up
  /\ up' = TRUE
  /\ segments' = [i \in 1 .. Len(ByStem) |-> ScannedSegment(ByStem[i])]
  /\ index' = ScanIndex(ByStem)
  /\ maxSeq' = IF index' = <<>> THEN NoSeq ELSE Max(DOMAIN index')
  /\ disk' = [p \in DOMAIN disk |-> Truncated(p)]
  /\ UNCHANGED <<pending, op, located, ghosts>>

-----------------------------------------------------------------------------
(* Appending.  ensure_writer runs first, then write_all and flush, then    *)
(* the in-memory bookkeeping; a crash may fall between any two of them and *)
(* inside the write.                                                       *)

MustRotate ==
  \/ segments = <<>>
  \/ Last(segments).bytes >= SegmentTarget
  \/ ~Last(segments).v2

RecordBytes(g) == Len(Encode(g))

(* append, up to and including ensure_writer.  Rotation flushes what the   *)
(* previous writer still buffers into the previous file.                   *)
BeginAppend(g) ==
  /\ up /\ op = Idle
  /\ g.v2 /\ g.seq > hw /\ g.ms >= clock
  /\ IF MustRotate
     THEN /\ LET path == [stem |-> g.seq, v2 |-> TRUE]
                 flushed == IF segments = <<>> THEN disk
                            ELSE [disk EXCEPT ![Last(segments).path] = @ \o pending]
             IN  /\ disk' = Put(flushed, path, <<>>)
                 /\ segments' = Append(segments,
                      [path |-> path, v2 |-> TRUE, first |-> g.seq,
                       newest |-> 0, bytes |-> 0])
          /\ pending' = <<>>
     ELSE UNCHANGED <<disk, segments, pending>>
  /\ op' = [kind |-> "append", group |-> g]
  /\ hw' = g.seq
  /\ clock' = g.ms
  /\ UNCHANGED <<up, index, maxSeq, located, crashes, acked>>

(* The bytes are in the file: record where they are, trusting seg.bytes.   *)
EndAppend ==
  /\ op.kind = "append"
  /\ LET g   == op.group
         i   == Len(segments)
         seg == segments[i]
     IN  /\ disk' = [disk EXCEPT ![seg.path] = @ \o pending \o Encode(g)]
         /\ segments' = [segments EXCEPT ![i].bytes = @ + RecordBytes(g),
                                         ![i].newest = g.ms]
         /\ index' = Put(index, g.seq,
                         [segment |-> i, offset |-> seg.bytes, ms |-> g.ms])
         /\ maxSeq' = Max({maxSeq, g.seq})
         /\ acked' = acked \cup {[group |-> g, path |-> seg.path]}
  /\ pending' = <<>>
  /\ op' = Idle
  /\ UNCHANGED <<up, located, hw, clock, crashes>>

(* The write fails after k cells.  A record larger than the BufWriter is   *)
(* written through and its rest is gone; a smaller one stays buffered.     *)
(* Either way append returns before it touches bytes, index and max_seq.   *)
FailAppend ==
  /\ AppendMayFail
  /\ op.kind = "append"
  /\ LET cells == pending \o Encode(op.group)
         path  == Last(segments).path
     IN  \E k \in 0 .. Len(cells) - 1 :
           /\ disk' = [disk EXCEPT ![path] = @ \o SubSeq(cells, 1, k)]
           /\ pending' \in {<<>>, SubSeq(cells, k + 1, Len(cells))}
  /\ op' = Idle
  /\ UNCHANGED <<up, segments, index, maxSeq, located, ghosts>>

-----------------------------------------------------------------------------
(* Garbage collection, one iteration of its loop per step.                 *)

BeginGc(cutoff, maxBytes) ==
  /\ up /\ op = Idle
  /\ op' = [kind |-> "gc", cutoff |-> cutoff, maxBytes |-> maxBytes]
  /\ UNCHANGED <<disk, up, memory, located, ghosts>>

(* Mutant: the cutoff is inclusive.                                        *)
MayDropOldestInclusive ==
  /\ Len(segments) > 1
  /\ \/ segments[1].newest <= op.cutoff
     \/ op.maxBytes > 0 /\ TotalBytes(segments) > op.maxBytes

(* Mutant: the size budget is not enforced.                                *)
MayDropOldestByAge ==
  /\ Len(segments) > 1
  /\ segments[1].newest < op.cutoff

MayDropOldest ==
  /\ Len(segments) > 1
  /\ \/ segments[1].newest < op.cutoff
     \/ op.maxBytes > 0 /\ TotalBytes(segments) > op.maxBytes

(* Mutant: the next segment's first group goes too.                        *)
SurvivesDropExclusive(seq) ==
  seq < segments[1].first \/ seq > segments[2].first

(* Which entries survive is decided by comparing sequences with the first  *)
(* sequences of the dropped segment and of the next one.                   *)
SurvivesDrop(seq) ==
  seq < segments[1].first \/ seq >= segments[2].first

ShiftedSegment(loc) == IF loc.segment > 1 THEN loc.segment - 1 ELSE 1

DropOldest ==
  /\ op.kind = "gc" /\ MayDropOldest
  /\ LET path == segments[1].path IN
       /\ disk' = KeepOnly(disk, DOMAIN disk \ {path})
       /\ acked' = {a \in acked : a.path # path}
  /\ index' = [s \in {x \in DOMAIN index : SurvivesDrop(x)} |->
                 [index[s] EXCEPT !.segment = ShiftedSegment(index[s])]]
  /\ segments' = Tail(segments)
  /\ UNCHANGED <<up, maxSeq, pending, op, located, hw, clock, crashes>>

EndGc ==
  /\ op.kind = "gc" /\ ~MayDropOldest
  /\ op' = Idle
  /\ UNCHANGED <<disk, up, memory, located, ghosts>>

-----------------------------------------------------------------------------
(* Readers: locate under the lock, read the file after releasing it.       *)

Locate(r, seq) ==
  /\ up /\ op = Idle
  /\ located[r] = None /\ seq \in DOMAIN index
  /\ located' = [located EXCEPT ![r] = [seq |-> seq, loc |-> LocationOf(seq)]]
  /\ UNCHANGED <<disk, up, memory, op, ghosts>>

Fetch(r) ==
  /\ up /\ located[r] # None
  /\ located' = [located EXCEPT ![r] = None]
  /\ UNCHANGED <<disk, up, memory, op, ghosts>>

-----------------------------------------------------------------------------
(* The process dies.  An append in progress has put some prefix of its     *)
(* cells into the file, possibly all of them or none.                      *)
Crash ==
  /\ up /\ crashes < MaxCrashes
  /\ up' = FALSE
  /\ crashes' = crashes + 1
  /\ IF op.kind = "append"
     THEN LET cells == pending \o Encode(op.group)
          IN  \E k \in 0 .. Len(cells) :
                disk' = [disk EXCEPT ![Last(segments).path] = @ \o SubSeq(cells, 1, k)]
     ELSE UNCHANGED disk
  /\ segments' = <<>> /\ index' = <<>> /\ maxSeq' = NoSeq /\ pending' = <<>>
  /\ op' = Idle
  /\ located' = [r \in Readers |-> None]
  /\ UNCHANGED <<hw, clock, acked>>

(* A first start in an empty directory, or beside a legacy v1 segment that *)
(* an older relay left, torn at any point.                                 *)
Legacy == [i \in 1 .. 2 |-> [seq |-> i - 1, ms |-> 0, n |-> 1, v2 |-> FALSE]]
LegacyPath == [stem |-> 0, v2 |-> FALSE]

Init ==
  /\ \/ disk = <<>> /\ hw = -1 /\ acked = {}
     \/ /\ hw = 1
        /\ \E k \in 0 .. 4 :
             /\ disk = [p \in {LegacyPath} |-> SubSeq(Encode(Legacy[1]) \o Encode(Legacy[2]), 1, k)]
             /\ acked = {[group |-> Legacy[i], path |-> LegacyPath] : i \in 1 .. k \div 2}
  /\ up = FALSE
  /\ segments = <<>> /\ index = <<>> /\ maxSeq = NoSeq /\ pending = <<>>
  /\ op = Idle
  /\ located = [r \in Readers |-> None]
  /\ clock = 0 /\ crashes = 0

Next ==
  \/ Open
  \/ \E g \in Groups : BeginAppend(g)
  \/ EndAppend
  \/ FailAppend
  \/ \E cutoff \in 0 .. clock + 1, maxBytes \in Budgets : BeginGc(cutoff, maxBytes)
  \/ DropOldest
  \/ EndGc
  \/ \E r \in Readers, seq \in Seqs : Locate(r, seq)
  \/ \E r \in Readers : Fetch(r)
  \/ Crash

Spec == Init /\ [][Next]_vars

-----------------------------------------------------------------------------
(* Properties.                                                             *)

(* No read hands out the wrong content.  Whatever the index holds, and     *)
(* whatever GC deleted since a reader located its group, read_group_at     *)
(* returns the group that was asked for, whole, or an error.               *)
ReadsAreSound ==
  LET Sound(loc, seq) ==
        LET got == ReadGroupAt(loc, seq) IN got = None \/ (got \in Groups /\ got.seq = seq)
  IN  /\ \A s \in DOMAIN index : Sound(LocationOf(s), s)
      /\ \A r \in Readers : located[r] # None => Sound(located[r].loc, located[r].seq)

(* Every group whose append returned Ok reads back until GC drops its      *)
(* segment: across crashes, torn tails, restarts, rotation, the move away  *)
(* from a v1 segment and the shifting of segment numbers by GC.            *)
AckedGroupsReadBack ==
  up /\ op = Idle =>
    \A a \in acked : /\ a.group.seq \in DOMAIN index
                     /\ ReadGroupAt(LocationOf(a.group.seq), a.group.seq) = a.group

(* A restart cannot make the sequence go backwards below a stored group:   *)
(* max_seq, which seeds the next run, covers every group still stored.     *)
HighWaterCovers ==
  up => \A a \in acked : a.group.seq <= maxSeq

(* The groups a file holds, as a scan would find them.                     *)
GroupsIn(p) == {GroupAt(disk[p], o) : o \in ScanOffsets(disk[p], p.v2)}

(* GC frees no more than it may: a dropped segment was not the write       *)
(* target, and it held no group inside the window unless the store was     *)
(* over its size budget.                                                   *)
GcDropsOnlyWhatItMay ==
  [][\A i \in 1 .. Len(segments) :
       op.kind = "gc" /\ segments[i].path \notin DOMAIN disk' =>
         /\ i < Len(segments)
         /\ \/ op.maxBytes > 0 /\ TotalBytes(segments) > op.maxBytes
            \/ \A a \in acked : a.path = segments[i].path => a.group.ms < op.cutoff]_vars

(* GC frees all it may: when it returns, the store fits its budget or one  *)
(* segment is left, and the oldest segment of several holds a group inside *)
(* the window.                                                             *)
GcReachesItsBounds ==
  [][op.kind = "gc" /\ op' = Idle /\ up' =>
       \/ Len(segments) <= 1
       \/ /\ op.maxBytes = 0 \/ ~(TotalBytes(segments) > op.maxBytes)
          /\ \/ op.cutoff = 0
             \/ \E g \in GroupsIn(segments[1].path) : g.ms >= op.cutoff]_vars

OnDisk == UNION {GroupsIn(p) : p \in DOMAIN disk}

(* The store implements the log it promises: groups enter at the top, one  *)
(* at a time, and leave from the bottom; no crash or scan loses or revives *)
(* one.                                                                    *)
Promise == INSTANCE ReplayLog WITH log <- OnDisk,
                                  confirmed <- {a.group : a \in acked}
ImplementsReplayLog == Promise!LogSpec
=============================================================================
