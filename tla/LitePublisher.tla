---------------------------- MODULE LitePublisher ----------------------------
(***************************************************************************)
(* The relay's Lite publisher (FramePublisher::Lite in main.rs): frames go *)
(* into the current group, a full group is rotated, the finished group is  *)
(* appended to the disk store and the new group's sequence is persisted in *)
(* a sidecar file, so that a restart continues above every sequence ever   *)
(* used.  The process may die between any two of these steps.              *)
(*                                                                         *)
(* The store is the log that ReplayLog.tla promises as long as appends     *)
(* succeed.  One that fails half-way leaves its segment file longer than   *)
(* the store believes (GroupStore.tla has the bytes): the groups appended  *)
(* behind it are acknowledged and cannot be read until the next start,     *)
(* whose scan finds some of them, finds one with another's bytes, or cuts  *)
(* them off.  The RAM cache is the moq-net track's.  A frame is a number,  *)
(* in the order the firehose sent them, and a group holds a set of them; a *)
(* stored group without frames stands for one whose body is not its own.   *)
(***************************************************************************)
EXTENDS Integers, FiniteSets

CONSTANTS
  GroupSize,        \* frames per group
  MaxSeq,           \* bound: group sequences are 0..MaxSeq
  MaxFrames,        \* bound: frames written over all runs
  MaxRuns,          \* bound: number of starts
  MaxLegacy,        \* bound: highest sequence a pre-sidecar store may hold
  PersistMayFail    \* whether writing the sidecar may fail (only warned of)

ASSUME PublisherAssumption ==
  /\ GroupSize \in Nat \ {0}
  /\ MaxSeq \in Nat /\ MaxFrames \in Nat /\ MaxRuns \in Nat
  /\ MaxLegacy \in Nat \cup {-1}
  /\ MaxLegacy < MaxSeq /\ MaxLegacy + 2 <= MaxFrames
  /\ PersistMayFail \in BOOLEAN

VARIABLES
  phase,      \* where the pump is: see Phases
  run,        \* number of starts so far
  cur,        \* sequence of the open group, the track's max_sequence
  count,      \* frames in the open group
  buffer,     \* group_frames: what will be appended to the store
  ram,        \* sequences in the track's cache
  store,      \* the groups on disk where the index has, or a scan finds, them
  misplaced,  \* the groups on disk that the index misses
  torn,       \* is the write segment longer than its recorded size?
  sidecar,    \* content of the group_seq file, NoSeq if there is none
  emitted,    \* frames written over all runs
  streamed,   \* history: every frame subscribers could see, with its group
  refused,    \* history: sequences whose append reported an error
  gone,       \* history: sequences dropped, cut off or lost in a crash
  unsaved     \* history: sequences the sidecar failed to cover

segments == <<store, misplaced, torn>>
disk     == <<segments, sidecar>>
memory   == <<cur, count, buffer, ram>>
history  == <<emitted, streamed, refused, gone, unsaved>>
vars     == <<phase, run, memory, disk, history>>

NoSeq  == -1
Phases == {"down", "live", "rotate", "store", "persist"}

SeqsOf(S) == {g.seq : g \in S}
IsHighest(m, S) ==
  IF S = {} THEN m = NoSeq ELSE m \in S /\ \A s \in S : s <= m
Higher(a, b) == IF a > b THEN a ELSE b

-----------------------------------------------------------------------------
(* Starting: build_lite_publisher.                                         *)

(* Mutant: the store alone decides, the group in flight is forgotten.      *)
SeedFromStore(m) == m

(* Mutant: the sidecar alone decides.                                      *)
SeedFromSidecar(m) == sidecar

(* The seed is the sidecar's value or the store's, whichever is higher.  A *)
(* store without a sidecar had one more group in flight.                   *)
Seed(m) ==
  IF sidecar # NoSeq THEN Higher(sidecar, m)
  ELSE IF m # NoSeq THEN m + 1 ELSE NoSeq

(* A record that was not written in full is completed, in the file, by the *)
(* beginning of the next one.                                              *)
CutShort(g) == g.seq \in refused /\ \E h \in misplaced : h.seq > g.seq

(* GroupStore::open scans the files.  Where a torn segment's records begin *)
(* is not where the index had them: the scan finds some of them, and one   *)
(* that was cut short with a body that is not its own, and truncates the   *)
(* rest.                                                                   *)
Scan ==
  /\ \E found \in SUBSET misplaced :
       \E mixed \in SUBSET {g \in found : CutShort(g)} :
         /\ store' = store \cup (found \ mixed)
                          \cup {[g EXCEPT !.frames = {}] : g \in mixed}
         /\ gone' = gone \cup SeqsOf(misplaced \ found)
  /\ misplaced' = {} /\ torn' = FALSE

(* reload_window re-creates the groups of the replay window, the newest of *)
(* the store, and make_first_group opens a group above the seed.           *)
Boot(m) ==
  /\ phase = "down" /\ run < MaxRuns
  /\ Scan
  /\ IsHighest(m, SeqsOf(store'))
  /\ Seed(m) < MaxSeq
  /\ cur' = Seed(m) + 1
  /\ \E floor \in 0 .. cur' :
       ram' = {s \in SeqsOf(store') : s >= floor} \cup {cur'}
  /\ run' = run + 1
  /\ phase' = "persist"
  /\ UNCHANGED <<count, buffer, sidecar, emitted, streamed, refused, unsaved>>

(* persist_group_seq: tmp file and rename, so the sidecar holds the old    *)
(* value or the new one.  A failure is warned of and the relay goes on.    *)
Persist ==
  /\ phase = "persist"
  /\ \/ sidecar' = cur /\ UNCHANGED unsaved
     \/ /\ PersistMayFail
        /\ unsaved' = unsaved \cup (sidecar + 1 .. cur)
        /\ UNCHANGED sidecar
  /\ phase' = "live"
  /\ UNCHANGED <<run, memory, segments, emitted, streamed, refused, gone>>

-----------------------------------------------------------------------------
(* Running: FramePublisher::write.                                         *)

GroupFull(n) == n >= GroupSize

Write ==
  /\ phase = "live" /\ emitted < MaxFrames
  /\ emitted' = emitted + 1
  /\ streamed' = streamed \cup {[seq |-> cur, run |-> run, frame |-> emitted + 1]}
  /\ buffer' = buffer \cup {emitted + 1}
  /\ count' = count + 1
  /\ phase' = IF GroupFull(count + 1) THEN "rotate" ELSE "live"
  /\ UNCHANGED <<run, cur, ram, disk, refused, gone, unsaved>>

(* append_group makes the next group visible and evicts groups that are    *)
(* too old for the cache, oldest first and never the newest; then the old  *)
(* group is finished.                                                      *)
Rotate ==
  /\ phase = "rotate" /\ cur < MaxSeq
  /\ cur' = cur + 1
  /\ \E floor \in 0 .. cur' :
       ram' = {s \in ram : s >= floor} \cup {cur'}
  /\ count' = 0
  /\ phase' = "store"
  /\ UNCHANGED <<run, buffer, disk, history>>

Finished(s) == [seq |-> s, run |-> run, frames |-> buffer]

(* The record goes where the index says, into a sound segment or, when the *)
(* write segment is full, into a new one.                                  *)
AppendInPlace(s) ==
  /\ store' = store \cup {Finished(s)} /\ torn' = FALSE
  /\ UNCHANGED <<misplaced, refused>>

(* The record goes behind the bytes that a failed append left, and the     *)
(* index says it begins before them.                                       *)
AppendBehind(s) ==
  /\ torn
  /\ misplaced' = misplaced \cup {Finished(s)}
  /\ UNCHANGED <<store, torn, refused>>

(* write_all or flush fails before or after some of the record has reached *)
(* the file or stays in the BufWriter, which writes it later.  The error   *)
(* is logged and the relay goes on.                                        *)
AppendFails(s) ==
  /\ refused' = refused \cup {s}
  /\ \/ UNCHANGED <<misplaced, torn>>
     \/ misplaced' = misplaced \cup {Finished(s)} /\ torn' = TRUE
  /\ UNCHANGED store

(* GroupStore::append of group s.                                          *)
AppendToStore(s) ==
  /\ AppendInPlace(s) \/ AppendBehind(s) \/ AppendFails(s)
  /\ UNCHANGED gone

(* Mutant: the buffered frames are not cleared.                            *)
FramesKept == buffer

FramesCleared == {}

StoreFinished ==
  /\ phase = "store"
  /\ AppendToStore(cur - 1)
  /\ buffer' = FramesCleared
  /\ phase' = "persist"
  /\ UNCHANGED <<run, cur, count, ram, sidecar, emitted, streamed, unsaved>>

(* The GC tick of the pump: the store drops a group and all older ones.    *)
Gc(g) ==
  /\ phase = "live"
  /\ store' = {h \in store : h.seq > g.seq}
  /\ misplaced' = {h \in misplaced : h.seq > g.seq}
  /\ gone' = gone \cup SeqsOf((store \ store') \cup (misplaced \ misplaced'))
  /\ UNCHANGED <<phase, run, memory, torn, sidecar, emitted, streamed, refused,
                 unsaved>>

-----------------------------------------------------------------------------
(* Stopping.                                                               *)

Reset ==
  /\ phase' = "down"
  /\ cur' = NoSeq /\ count' = 0 /\ buffer' = {} /\ ram' = {}
  /\ UNCHANGED <<run, sidecar, emitted, streamed, unsaved>>

(* Mutant: a clean stop does not flush.                                    *)
FinishUnflushed ==
  /\ phase = "live"
  /\ UNCHANGED <<segments, refused, gone>>
  /\ Reset

(* finish: flush the open group if it has frames, then close.              *)
Finish ==
  /\ phase = "live"
  /\ IF buffer = {} THEN UNCHANGED <<segments, refused, gone>> ELSE AppendToStore(cur)
  /\ Reset

(* The process dies.  An append in progress may have reached the disk; the *)
(* groups that were not stored are missing from then on.                   *)
Crash ==
  /\ phase # "down"
  /\ \/ /\ UNCHANGED <<store, misplaced>>
        /\ gone' = gone \cup {cur} \cup (IF phase = "store" THEN {cur - 1} ELSE {})
     \/ /\ phase = "store"
        /\ \/ store' = store \cup {Finished(cur - 1)} /\ UNCHANGED misplaced
           \/ torn /\ misplaced' = misplaced \cup {Finished(cur - 1)} /\ UNCHANGED store
        /\ gone' = gone \cup {cur}
  /\ UNCHANGED <<torn, refused>>
  /\ Reset

(* A first start, or a store from before the sidecar existed: groups 0..m  *)
(* complete and group m + 1 in flight when that relay stopped.             *)
Init ==
  /\ phase = "down" /\ run = 0
  /\ cur = NoSeq /\ count = 0 /\ buffer = {} /\ ram = {}
  /\ misplaced = {} /\ torn = FALSE
  /\ sidecar = NoSeq /\ refused = {} /\ unsaved = {}
  /\ \E m \in NoSeq .. MaxLegacy :
       LET last == IF m = NoSeq THEN NoSeq ELSE m + 1 IN
       /\ store = {[seq |-> s, run |-> 0, frames |-> {s + 1}] : s \in 0 .. m}
       /\ streamed = {[seq |-> s, run |-> 0, frame |-> s + 1] : s \in 0 .. last}
       /\ emitted = last + 1
       /\ gone = {last}

Next ==
  \/ \E m \in NoSeq .. MaxSeq : Boot(m)
  \/ Persist
  \/ Write
  \/ Rotate
  \/ StoreFinished
  \/ \E g \in store \cup misplaced : Gc(g)
  \/ Finish
  \/ Crash

Spec == Init /\ [][Next]_vars

-----------------------------------------------------------------------------
(* Properties.                                                             *)

Seqs   == 0 .. MaxSeq
Frames == 1 .. MaxFrames
Groups == [seq : Seqs, run : 0 .. MaxRuns, frames : SUBSET Frames]

TypeOK ==
  /\ phase \in Phases
  /\ run \in 0 .. MaxRuns
  /\ cur \in Seqs \cup {NoSeq}
  /\ count \in 0 .. GroupSize
  /\ buffer \subseteq Frames
  /\ ram \subseteq Seqs
  /\ store \subseteq Groups /\ misplaced \subseteq Groups /\ torn \in BOOLEAN
  /\ sidecar \in Seqs \cup {NoSeq}
  /\ emitted \in 0 .. MaxFrames
  /\ streamed \subseteq [seq : Seqs, run : 0 .. MaxRuns, frame : Frames]
  /\ refused \subseteq Seqs /\ gone \subseteq Int /\ unsaved \subseteq Seqs

(* A group sequence never carries the frames of two runs, so a cursor a    *)
(* consumer kept over a restart of the relay names what it named before.   *)
(* The one way to lose this is a sidecar that could not be written, and    *)
(* then only for the sequences it left uncovered.                          *)
SequenceNeverReused ==
  \A x, y \in streamed : x.seq = y.seq => x.run = y.run \/ x.seq \in unsaved

FramesOf(s, r) == {x.frame : x \in {y \in streamed : y.seq = s /\ y.run = r}}

(* Backfill and live delivery agree: a stored group holds exactly the      *)
(* frames that the live subscribers of its run could see in it.  Only a    *)
(* group whose append reported an error can hold anything else, after the  *)
(* scan of a start completed it with the bytes of the next one.            *)
StoredIsWhole ==
  \A g \in store : g.frames = FramesOf(g.seq, g.run) \/ g.seq \in refused

(* No frame drops out of replay unnoticed.  What was streamed is stored    *)
(* with its group, or it is in the open group or the one being stored, or  *)
(* its group was refused by the store, dropped by GC, in progress when the *)
(* process died, or written behind a refused one of the same segment: then *)
(* it is still in a file but misplaced, or was cut off by a scan.  A clean *)
(* stop loses nothing that the store takes.                                *)
Holds(g, x) == g.seq = x.seq /\ g.run = x.run /\ x.frame \in g.frames

EveryFrameAccounted ==
  \A x \in streamed :
    \/ \E g \in store : Holds(g, x)
    \/ x.seq \in gone \cup refused
    \/ /\ \E g \in misplaced : Holds(g, x)
       /\ \E s \in refused : s < x.seq
    \/ /\ x.run = run /\ x.frame \in buffer
       /\ \/ phase # "down" /\ x.seq = cur
          \/ phase = "store" /\ x.seq = cur - 1

(* The publisher asks of the store only what ReplayLog.tla, and so         *)
(* GroupStore.tla, offers: over restarts too it appends only above         *)
(* everything stored, one group at a time, and what is lost is the bottom. *)
(* The exception is a start that scans a torn segment: the groups found    *)
(* there come back, and nothing else changes.  A group found on disk after *)
(* a crash counts as confirmed.  What a group holds is StoredIsWhole's     *)
(* matter.                                                                 *)
Labels(S) == {[seq |-> g.seq, run |-> g.run] : g \in S}
Stored    == Labels(store)

Asked == INSTANCE ReplayLog WITH
  Groups <- [seq : Seqs, run : 0 .. MaxRuns], log <- Stored, confirmed <- Stored

ScanRecovers ==
  /\ phase = "down"
  /\ Stored \subseteq Stored' /\ Stored' \ Stored \subseteq Labels(misplaced)

UsesReplayLog ==
  Asked!LogInit /\ [][Asked!LogNext \/ ScanRecovers]_Stored

-----------------------------------------------------------------------------
(* The inductive invariant behind the properties.                          *)

(* Where the open group stands between the store and the frames streamed   *)
(* by this run and by earlier ones, at each step of a rotation.            *)
OpenGroup ==
  /\ \A x \in streamed : x.run <= run
  /\ phase = "down" => cur = NoSeq
  /\ phase # "down" =>
       /\ cur \in Seqs
       /\ \A x \in streamed : x.run = run => x.seq <= cur
       /\ \A g \in store \cup misplaced : g.seq < cur
       /\ sidecar <= cur
  /\ phase \in {"store", "persist"} =>
       /\ \A x \in streamed : x.run = run => x.seq < cur
       /\ \A x \in streamed : x.seq < cur \/ x.seq \in unsaved
       /\ count = 0
  /\ phase \in {"live", "rotate"} =>
       /\ sidecar + 1 .. cur \subseteq unsaved
       /\ \A x \in streamed : x.seq = cur => x.run = run \/ x.seq \in unsaved
       /\ \A x \in streamed : x.seq <= cur \/ x.seq \in unsaved
  /\ phase = "live" => count < GroupSize
  /\ phase = "store" => cur > 0 /\ \A g \in store \cup misplaced : g.seq < cur - 1

(* What the next start knows.  The sidecar covers every sequence used but  *)
(* those it failed to; while there has been none, only the store's last    *)
(* group and the one after it were ever used.                              *)
SeedCovers ==
  /\ sidecar # NoSeq =>
       \A x \in streamed : x.seq <= sidecar \/ x.seq \in unsaved
  /\ sidecar = NoSeq =>
       \/ \A x \in streamed : x.seq \in unsaved
       \/ /\ phase \in {"down", "persist"} /\ misplaced = {}
          /\ \A m \in NoSeq .. MaxSeq : IsHighest(m, SeqsOf(store)) =>
               \A x \in streamed : m # NoSeq /\ x.seq <= m + 1

(* The buffer holds the open group, or the one being stored.               *)
BufferIsGroup ==
  /\ phase \in {"live", "rotate"} => buffer = FramesOf(cur, run)
  /\ phase = "store" => buffer = FramesOf(cur - 1, run)
  /\ phase \in {"down", "persist"} => buffer = {} /\ count = 0

(* What lies misplaced in a file is whole; it got there behind a refused   *)
(* append of the same run.                                                 *)
MisplacedIsWhole ==
  /\ \A g \in misplaced :
       /\ g.frames = FramesOf(g.seq, g.run)
       /\ g.seq \in refused \/ \E s \in refused : s < g.seq
  /\ torn /\ phase # "down" => \E s \in refused : s < cur
  /\ torn /\ phase = "store" => \E s \in refused : s < cur - 1

SafetyInv ==
  /\ TypeOK
  /\ OpenGroup
  /\ SeedCovers
  /\ BufferIsGroup
  /\ SequenceNeverReused
  /\ StoredIsWhole
  /\ MisplacedIsWhole
=============================================================================
