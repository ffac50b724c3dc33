------------------------- MODULE LitePublisherProofs -------------------------
(***************************************************************************)
(* Machine-checked proofs about LitePublisher.tla, for every group size    *)
(* and every bound, whether or not the sidecar file can be written, and    *)
(* with appends to the store that fail at any time.                        *)
(***************************************************************************)
EXTENDS LitePublisher, TLAPS, WellFoundedInduction

(* Every start state satisfies the invariant: a fresh directory, and a     *)
(* store written before the sidecar existed.                               *)
LEMMA InitSafety == Init => SafetyInv
<1> SUFFICES ASSUME Init PROVE SafetyInv
  OBVIOUS
<1> USE PublisherAssumption
<1>1. PICK m \in NoSeq .. MaxLegacy :
        LET last == IF m = NoSeq THEN NoSeq ELSE m + 1 IN
        /\ store = {[seq |-> s, run |-> 0, frames |-> {s + 1}] : s \in 0 .. m}
        /\ streamed = {[seq |-> s, run |-> 0, frame |-> s + 1] : s \in 0 .. last}
        /\ emitted = last + 1
        /\ gone = {last}
  BY DEF Init
<1> DEFINE last == IF m = NoSeq THEN NoSeq ELSE m + 1
<1>2. last \in -1 .. MaxSeq /\ last + 1 <= MaxFrames /\ m \in -1 .. MaxSeq
  BY DEF NoSeq
<1>3. TypeOK
  <2>1. store \subseteq Groups
    <3>1. ASSUME NEW s \in 0 .. m PROVE s \in Seqs /\ {s + 1} \subseteq Frames
      BY <1>2, <3>1 DEF Seqs, Frames
    <3>2. ASSUME NEW s \in 0 .. m
          PROVE  [seq |-> s, run |-> 0, frames |-> {s + 1}] \in Groups
      BY <3>1, 0 \in 0 .. MaxRuns DEF Groups
    <3> QED BY <1>1, <3>2
  <2>2. streamed \subseteq [seq : Seqs, run : 0 .. MaxRuns, frame : Frames]
    BY <1>1, <1>2 DEF Seqs, Frames, NoSeq
  <2>3. /\ phase \in Phases /\ run \in 0 .. MaxRuns /\ count \in 0 .. GroupSize
        /\ cur \in Seqs \cup {NoSeq} /\ sidecar \in Seqs \cup {NoSeq}
        /\ torn \in BOOLEAN
    <3>1. 0 \in 0 .. MaxRuns /\ 0 \in 0 .. GroupSize
      OBVIOUS
    <3>2. phase = "down" /\ run = 0 /\ count = 0 /\ cur = NoSeq /\ sidecar = NoSeq /\ torn = FALSE
      BY DEF Init
    <3> QED BY <3>1, <3>2, Zenon DEF Phases
  <2>4. /\ buffer \subseteq Frames /\ ram \subseteq Seqs /\ misplaced \subseteq Groups
        /\ refused \subseteq Seqs /\ unsaved \subseteq Seqs
    BY DEF Init
  <2>5. emitted \in 0 .. MaxFrames /\ gone \subseteq Int
    BY <1>1, <1>2
  <2> QED BY <2>1, <2>2, <2>3, <2>4, <2>5, Zenon DEF TypeOK
<1>4. OpenGroup
  BY <1>1 DEF Init, OpenGroup
<1>5. SeedCovers
  <2>1. SeqsOf(store) = 0 .. m
    <3>1. ASSUME NEW s \in SeqsOf(store) PROVE s \in 0 .. m
      BY <1>1, <3>1 DEF SeqsOf
    <3>2. ASSUME NEW s \in 0 .. m PROVE s \in SeqsOf(store)
      <4>1. [seq |-> s, run |-> 0, frames |-> {s + 1}] \in store
        BY <1>1, <3>2
      <4> QED BY <4>1 DEF SeqsOf
    <3> QED BY <3>1, <3>2
  <2>2. ASSUME NEW k \in NoSeq .. MaxSeq, IsHighest(k, SeqsOf(store)) PROVE k = m
    <3>1. IsHighest(k, 0 .. m)
      BY <2>1, <2>2
    <3>2. CASE m = -1
      <4>1. 0 .. m = {}
        BY <3>2
      <4> QED BY <3>1, <3>2, <4>1 DEF IsHighest, NoSeq
    <3>3. CASE m # -1
      <4>1. m \in 0 .. m /\ 0 .. m # {}
        BY <1>2, <3>3
      <4>2. k \in 0 .. m /\ m <= k
        BY <3>1, <4>1 DEF IsHighest
      <4> QED BY <1>2, <4>2
    <3> QED BY <3>2, <3>3
  <2>3. \A x \in streamed : m # NoSeq /\ x.seq <= m + 1
    BY <1>1, <1>2 DEF NoSeq
  <2> QED BY <2>2, <2>3 DEF Init, SeedCovers
<1>6. BufferIsGroup
  BY DEF Init, BufferIsGroup
<1>7. SequenceNeverReused
  BY <1>1 DEF SequenceNeverReused
<1>8. StoredIsWhole
  <2> SUFFICES ASSUME NEW g \in store PROVE g.frames = FramesOf(g.seq, g.run)
    BY DEF StoredIsWhole
  <2>1. PICK s \in 0 .. m : g = [seq |-> s, run |-> 0, frames |-> {s + 1}]
    BY <1>1
  <2>2. ASSUME NEW f \in FramesOf(s, 0) PROVE f = s + 1
    <3>1. PICK x \in streamed : x.seq = s /\ f = x.frame
      BY <2>2 DEF FramesOf
    <3> QED BY <1>1, <3>1
  <2>3. s + 1 \in FramesOf(s, 0)
    <3>1. s \in 0 .. last
      BY <1>2, <2>1 DEF NoSeq
    <3>2. [seq |-> s, run |-> 0, frame |-> s + 1] \in streamed
      BY <1>1, <3>1
    <3> QED BY <3>2 DEF FramesOf
  <2>4. FramesOf(s, 0) = {s + 1}
    BY <2>2, <2>3
  <2> QED BY <2>1, <2>4
<1>9. MisplacedIsWhole
  BY DEF Init, MisplacedIsWhole
<1> QED BY <1>3, <1>4, <1>5, <1>6, <1>7, <1>8, <1>9 DEF SafetyInv

(* A scan finds groups that were misplaced, and gives a body that is not   *)
(* its own only to one whose append was refused.                           *)
LEMMA ScanSafety ==
  ASSUME SafetyInv, Scan, UNCHANGED <<streamed, refused>>
  PROVE  /\ store' \subseteq Groups /\ gone' \subseteq Int
         /\ misplaced' = {} /\ torn' = FALSE
         /\ misplaced = {} => store' = store
         /\ StoredIsWhole'
<1>1. PICK found \in SUBSET misplaced, mixed \in SUBSET misplaced :
        /\ \A g \in mixed : g \in found /\ g.seq \in refused
        /\ store' = store \cup (found \ mixed)
                         \cup {[g EXCEPT !.frames = {}] : g \in mixed}
        /\ gone' = gone \cup SeqsOf(misplaced \ found)
  BY DEF Scan, CutShort
<1>2. store \subseteq Groups /\ misplaced \subseteq Groups /\ gone \subseteq Int
  BY DEF SafetyInv, TypeOK
<1>3. \A g \in mixed : /\ [g EXCEPT !.frames = {}] \in Groups
                      /\ [g EXCEPT !.frames = {}].seq = g.seq
  BY <1>1, <1>2 DEF Groups
<1>4. store' \subseteq Groups
  BY <1>1, <1>2, <1>3
<1>5. gone' \subseteq Int
  BY <1>1, <1>2 DEF SeqsOf, Groups, Seqs
<1>6. misplaced = {} => store' = store
  BY <1>1
<1>7. StoredIsWhole'
  <2> SUFFICES ASSUME NEW g \in store'
               PROVE  g.frames = FramesOf(g.seq, g.run) \/ g.seq \in refused
    BY DEF StoredIsWhole, FramesOf
  <2>1. CASE g \in store
    BY <2>1 DEF SafetyInv, StoredIsWhole
  <2>2. CASE g \in found \ mixed
    BY <2>2 DEF SafetyInv, MisplacedIsWhole
  <2>3. CASE \E h \in mixed : g = [h EXCEPT !.frames = {}]
    BY <1>1, <1>3, <2>3
  <2> QED BY <1>1, <2>1, <2>2, <2>3
<1> QED BY <1>4, <1>5, <1>6, <1>7 DEF Scan

(* Starting: the seed lies at or above every sequence ever used.           *)
LEMMA BootSafety ==
  ASSUME SafetyInv, NEW m \in NoSeq .. MaxSeq, Boot(m)
  PROVE  SafetyInv'
<1> USE PublisherAssumption
<1>1. /\ phase = "down" /\ phase' = "persist" /\ run < MaxRuns /\ run' = run + 1
      /\ Seed(m) < MaxSeq /\ cur' = Seed(m) + 1
      /\ IsHighest(m, SeqsOf(store'))
      /\ count' = count /\ buffer' = buffer
      /\ sidecar' = sidecar /\ emitted' = emitted /\ refused' = refused
      /\ streamed' = streamed /\ unsaved' = unsaved
  BY DEF Boot
<1>0. /\ store' \subseteq Groups /\ gone' \subseteq Int
      /\ misplaced' = {} /\ torn' = FALSE
      /\ misplaced = {} => store' = store
      /\ StoredIsWhole'
  BY <1>1, ScanSafety DEF Boot
<1>2. /\ Seed(m) \in -1 .. MaxSeq - 1 /\ sidecar <= Seed(m)
      /\ \A x \in streamed : x.seq <= Seed(m) \/ x.seq \in unsaved
      /\ \A g \in store' : g.seq <= Seed(m)
  <2>1. sidecar \in Seqs \cup {NoSeq} /\ m \in NoSeq .. MaxSeq
    BY DEF SafetyInv, TypeOK
  <2>2. \A g \in store' : g.seq \in Seqs /\ g.seq <= m
    BY <1>0, <1>1 DEF Groups, IsHighest, SeqsOf
  <2>3. \A x \in streamed : x.seq \in Seqs
    BY DEF SafetyInv, TypeOK
  <2>4. CASE sidecar # NoSeq
    BY <1>1, <2>1, <2>2, <2>3, <2>4 DEF SafetyInv, SeedCovers, Seed, Higher, Seqs, NoSeq
  <2>5. CASE sidecar = NoSeq
    BY <1>0, <1>1, <2>1, <2>2, <2>3, <2>5 DEF SafetyInv, SeedCovers, Seed, Seqs, NoSeq
  <2> QED BY <2>4, <2>5
<1>3. cur' \in Seqs
  BY <1>1, <1>2 DEF Seqs
<1>4. /\ \A x \in streamed : x.seq < cur' \/ x.seq \in unsaved
      /\ \A x \in streamed : x.run < run'
      /\ \A g \in store' : g.seq < cur'
      /\ sidecar <= cur'
  <2>1. \A g \in store' : g.seq \in Int
    BY <1>0 DEF Groups, Seqs
  <2>2. \A x \in streamed : x.seq \in Int
    BY DEF SafetyInv, TypeOK, Seqs
  <2>3. sidecar \in Int /\ Seed(m) \in Int
    BY <1>2 DEF SafetyInv, TypeOK, Seqs, NoSeq
  <2>4. \A x \in streamed : x.run < run'
    BY <1>1 DEF SafetyInv, TypeOK, OpenGroup
  <2> QED BY <1>1, <1>2, <2>1, <2>2, <2>3, <2>4
<1>5. ram' \subseteq Seqs
  <2>1. SeqsOf(store') \subseteq Seqs
    BY <1>0 DEF Groups, SeqsOf
  <2>2. PICK floor \in 0 .. cur' :
          ram' = {s \in SeqsOf(store') : s >= floor} \cup {cur'}
    BY DEF Boot
  <2> QED BY <1>3, <2>1, <2>2
<1>6. TypeOK'
  <2>1. run' \in 0 .. MaxRuns /\ count' \in 0 .. GroupSize
    BY <1>1 DEF SafetyInv, TypeOK
  <2>2. /\ phase' \in Phases /\ torn' \in BOOLEAN /\ misplaced' \subseteq Groups
        /\ cur' \in Seqs \cup {NoSeq}
    BY <1>0, <1>1, <1>3 DEF Phases
  <2>3. /\ buffer' \subseteq Frames /\ sidecar' \in Seqs \cup {NoSeq}
        /\ emitted' \in 0 .. MaxFrames /\ unsaved' \subseteq Seqs
        /\ streamed' \subseteq [seq : Seqs, run : 0 .. MaxRuns, frame : Frames]
        /\ refused' \subseteq Seqs
    BY <1>1 DEF SafetyInv, TypeOK
  <2>4. ram' \subseteq Seqs /\ store' \subseteq Groups /\ gone' \subseteq Int
    BY <1>0, <1>5
  <2>5. Seqs' = Seqs /\ Frames' = Frames /\ Groups' = Groups
    BY DEF Seqs, Frames, Groups
  <2> QED BY <2>1, <2>2, <2>3, <2>4, <2>5, Zenon DEF TypeOK
<1>7. OpenGroup'
  BY <1>0, <1>1, <1>3, <1>4 DEF SafetyInv, TypeOK, OpenGroup, BufferIsGroup, Seqs
<1>8. SeedCovers'
  <2>1. CASE sidecar # NoSeq \/ \A x \in streamed : x.seq \in unsaved
    BY <1>1, <2>1 DEF SafetyInv, SeedCovers
  <2>2. CASE misplaced = {}
    <3>1. SeqsOf(store)' = SeqsOf(store)
      BY <1>0, <2>2 DEF SeqsOf
    <3> QED BY <1>0, <1>1, <2>2, <3>1 DEF SafetyInv, SeedCovers, IsHighest
  <2> QED BY <2>1, <2>2 DEF SafetyInv, SeedCovers
<1>9. BufferIsGroup'
  BY <1>1 DEF SafetyInv, BufferIsGroup
<1>10. SequenceNeverReused'
  BY <1>1 DEF SafetyInv, SequenceNeverReused
<1>11. MisplacedIsWhole'
  BY <1>0 DEF MisplacedIsWhole
<1> QED BY <1>0, <1>6, <1>7, <1>8, <1>9, <1>10, <1>11 DEF SafetyInv

(* Persisting: the sidecar catches up with the open group, or everything   *)
(* between the two is unsaved.                                             *)
LEMMA PersistSafety ==
  ASSUME SafetyInv, Persist
  PROVE  SafetyInv'
<1> USE PublisherAssumption
<1>1. /\ phase = "persist" /\ phase' = "live"
      /\ run' = run /\ cur' = cur /\ count' = count /\ buffer' = buffer
      /\ ram' = ram /\ store' = store /\ emitted' = emitted
      /\ streamed' = streamed /\ gone' = gone
      /\ misplaced' = misplaced /\ torn' = torn /\ refused' = refused
      /\ \/ sidecar' = cur /\ unsaved' = unsaved
         \/ sidecar' = sidecar /\ unsaved' = unsaved \cup (sidecar + 1 .. cur)
  BY DEF Persist, memory, segments
<1>2. /\ cur \in Seqs /\ count = 0 /\ buffer = {} /\ unsaved \subseteq Seqs
      /\ sidecar \in Seqs \cup {NoSeq} /\ sidecar <= cur
      /\ \A x \in streamed : x.seq \in Seqs /\ x.run <= run
      /\ \A x \in streamed : x.run = run => x.seq < cur
      /\ \A x \in streamed : x.seq < cur \/ x.seq \in unsaved
      /\ \A g \in store \cup misplaced : g.seq \in Seqs /\ g.seq < cur
  BY <1>1 DEF SafetyInv, TypeOK, Groups, OpenGroup, BufferIsGroup
<1>3. /\ sidecar' \in Seqs \cup {NoSeq} /\ sidecar' <= cur
      /\ unsaved \subseteq unsaved' /\ unsaved' \subseteq Seqs
      /\ sidecar' + 1 .. cur \subseteq unsaved'
  <2>1. CASE sidecar' = cur /\ unsaved' = unsaved
    BY <1>2, <2>1 DEF Seqs, NoSeq
  <2>2. CASE sidecar' = sidecar /\ unsaved' = unsaved \cup (sidecar + 1 .. cur)
    <3>1. sidecar + 1 .. cur \subseteq Seqs
      BY <1>2 DEF Seqs, NoSeq
    <3> QED BY <1>2, <2>2, <3>1
  <2> QED BY <1>1, <2>1, <2>2
<1>4. \A x \in streamed : x.seq < cur \/ x.seq \in unsaved'
  BY <1>2, <1>3
<1>5. \A x \in streamed : x.seq <= sidecar' \/ x.seq \in unsaved'
  <2> SUFFICES ASSUME NEW x \in streamed, ~(x.seq <= sidecar'), x.seq < cur
               PROVE  x.seq \in unsaved'
    BY <1>4
  <2>1. x.seq \in sidecar' + 1 .. cur
    BY <1>2, <1>3 DEF Seqs, NoSeq
  <2> QED BY <1>3, <2>1
<1>6. TypeOK' /\ OpenGroup' /\ SeedCovers'
  <2>1. TypeOK'
    BY <1>1, <1>2, <1>3 DEF SafetyInv, TypeOK, Phases
  <2>2. \A x \in streamed : x.seq <= cur \/ x.seq \in unsaved'
    BY <1>2, <1>4 DEF Seqs
  <2>3. \A x \in streamed : x.seq = cur => x.run = run \/ x.seq \in unsaved'
    BY <1>2, <1>4 DEF Seqs
  <2>4. \A x \in streamed : x.run = run => x.seq <= cur
    BY <1>2 DEF Seqs
  <2>5. count < GroupSize
    BY <1>2
  <2>6. OpenGroup'
    BY <1>1, <1>2, <1>3, <2>2, <2>3, <2>4, <2>5 DEF OpenGroup
  <2>7. SeedCovers'
    <3>1. sidecar' = NoSeq => \A x \in streamed : x.seq \in unsaved'
      BY <1>2, <1>5 DEF Seqs, NoSeq
    <3> QED BY <1>1, <1>5, <3>1 DEF SeedCovers
  <2> QED BY <2>1, <2>6, <2>7
<1>7. BufferIsGroup'
  <2>1. FramesOf(cur, run) = {}
    BY <1>2 DEF FramesOf, Seqs
  <2>2. FramesOf(cur, run)' = FramesOf(cur, run)
    BY <1>1 DEF FramesOf
  <2> QED BY <1>1, <1>2, <2>1, <2>2 DEF BufferIsGroup
<1>8. SequenceNeverReused'
  BY <1>1, <1>3 DEF SafetyInv, SequenceNeverReused
<1>9. StoredIsWhole' /\ MisplacedIsWhole'
  BY <1>1 DEF SafetyInv, StoredIsWhole, MisplacedIsWhole, FramesOf
<1> QED BY <1>6, <1>7, <1>8, <1>9 DEF SafetyInv

(* Writing a frame: it joins a group that only this run has written to.    *)
LEMMA WriteSafety ==
  ASSUME SafetyInv, Write
  PROVE  SafetyInv'
<1> USE PublisherAssumption
<1> DEFINE x0 == [seq |-> cur, run |-> run, frame |-> emitted + 1]
<1>1. /\ phase = "live" /\ phase' \in {"live", "rotate"}
      /\ emitted < MaxFrames /\ emitted' = emitted + 1
      /\ streamed' = streamed \cup {x0}
      /\ buffer' = buffer \cup {emitted + 1} /\ count' = count + 1
      /\ phase' = IF GroupFull(count + 1) THEN "rotate" ELSE "live"
      /\ run' = run /\ cur' = cur /\ ram' = ram /\ store' = store
      /\ sidecar' = sidecar /\ gone' = gone /\ unsaved' = unsaved
      /\ misplaced' = misplaced /\ torn' = torn /\ refused' = refused
  BY DEF Write, disk, segments
<1>2. /\ cur \in Seqs /\ count \in 0 .. GroupSize - 1
      /\ sidecar \in Seqs \cup {NoSeq} /\ sidecar + 1 .. cur \subseteq unsaved
      /\ emitted \in Nat /\ run \in 0 .. MaxRuns
      /\ \A x \in streamed : x.seq \in Seqs /\ x.run <= run
      /\ \A x \in streamed : x.run = run => x.seq <= cur
      /\ \A x \in streamed : x.seq <= cur \/ x.seq \in unsaved
      /\ \A x \in streamed : x.seq = cur => x.run = run \/ x.seq \in unsaved
      /\ \A g \in store \cup misplaced : g.seq \in Seqs /\ g.seq < cur
      /\ buffer = FramesOf(cur, run)
  BY <1>1 DEF SafetyInv, TypeOK, Groups, OpenGroup, BufferIsGroup
<1>3. TypeOK'
  <2>1. x0 \in [seq : Seqs, run : 0 .. MaxRuns, frame : Frames]
    BY <1>1, <1>2 DEF Frames
  <2> QED BY <1>1, <1>2, <2>1 DEF SafetyInv, TypeOK, Phases, Frames, GroupFull
<1>4. OpenGroup'
  BY <1>1, <1>2 DEF SafetyInv, OpenGroup, GroupFull, Seqs
<1>5. SeedCovers'
  <2>1. CASE sidecar # NoSeq
    <3>1. cur <= sidecar \/ cur \in unsaved
      BY <1>2, <2>1 DEF Seqs, NoSeq
    <3> QED BY <1>1, <2>1, <3>1 DEF SafetyInv, SeedCovers
  <2>2. CASE sidecar = NoSeq
    <3>1. cur \in unsaved
      BY <1>2, <2>2 DEF Seqs, NoSeq
    <3> QED BY <1>1, <2>2, <3>1 DEF SafetyInv, SeedCovers
  <2> QED BY <2>1, <2>2
<1>6. BufferIsGroup'
  <2>1. FramesOf(cur, run)' = FramesOf(cur, run) \cup {emitted + 1}
    <3>0. FramesOf(cur, run)' = {x.frame : x \in {y \in streamed' : y.seq = cur /\ y.run = run}}
      BY <1>1 DEF FramesOf
    <3>1. ASSUME NEW f \in FramesOf(cur, run)' PROVE f \in FramesOf(cur, run) \cup {emitted + 1}
      <4>1. PICK x \in streamed' : x.seq = cur /\ x.run = run /\ f = x.frame
        BY <3>0, <3>1
      <4> QED BY <1>1, <4>1 DEF FramesOf
    <3>2. ASSUME NEW f \in FramesOf(cur, run) PROVE f \in FramesOf(cur, run)'
      <4>1. PICK x \in streamed : x.seq = cur /\ x.run = run /\ f = x.frame
        BY <3>2 DEF FramesOf
      <4> QED BY <1>1, <3>0, <4>1
    <3>3. emitted + 1 \in FramesOf(cur, run)'
      <4>1. x0 \in streamed' /\ x0.seq = cur /\ x0.run = run /\ x0.frame = emitted + 1
        BY <1>1
      <4> QED BY <3>0, <4>1
    <3> QED BY <3>1, <3>2, <3>3
  <2> QED BY <1>1, <1>2, <2>1 DEF BufferIsGroup
<1>7. SequenceNeverReused'
  <2> SUFFICES ASSUME NEW x \in streamed', NEW y \in streamed', x.seq = y.seq
               PROVE  x.run = y.run \/ x.seq \in unsaved
    BY <1>1 DEF SequenceNeverReused
  <2>1. CASE x \in streamed /\ y \in streamed
    BY <2>1 DEF SafetyInv, SequenceNeverReused
  <2>2. CASE x = x0
    BY <1>1, <1>2, <2>2
  <2>3. CASE y = x0
    BY <1>1, <1>2, <2>3
  <2> QED BY <1>1, <2>1, <2>2, <2>3
<1>8. StoredIsWhole' /\ MisplacedIsWhole'
  <2>1. ASSUME NEW g \in store \cup misplaced
        PROVE  FramesOf(g.seq, g.run)' = FramesOf(g.seq, g.run)
    <3>1. g.seq # cur
      BY <1>2 DEF Seqs
    <3> QED BY <1>1, <3>1 DEF FramesOf
  <2>2. StoredIsWhole'
    BY <1>1, <2>1 DEF SafetyInv, StoredIsWhole
  <2>3. MisplacedIsWhole'
    BY <1>1, <2>1 DEF SafetyInv, MisplacedIsWhole
  <2> QED BY <2>2, <2>3
<1> QED BY <1>3, <1>4, <1>5, <1>6, <1>7, <1>8 DEF SafetyInv

(* Rotating: the next group is open and still empty.                       *)
LEMMA RotateSafety ==
  ASSUME SafetyInv, Rotate
  PROVE  SafetyInv'
<1> USE PublisherAssumption
<1>1. /\ phase = "rotate" /\ phase' = "store" /\ cur < MaxSeq /\ cur' = cur + 1
      /\ count' = 0 /\ run' = run /\ buffer' = buffer /\ store' = store
      /\ sidecar' = sidecar /\ emitted' = emitted
      /\ streamed' = streamed /\ gone' = gone /\ unsaved' = unsaved
      /\ misplaced' = misplaced /\ torn' = torn /\ refused' = refused
  BY DEF Rotate, disk, segments, history
<1>2. /\ cur \in Seqs /\ sidecar \in Seqs \cup {NoSeq} /\ sidecar <= cur
      /\ \A x \in streamed : x.seq \in Seqs /\ x.run <= run
      /\ \A x \in streamed : x.run = run => x.seq <= cur
      /\ \A x \in streamed : x.seq <= cur \/ x.seq \in unsaved
      /\ \A g \in store \cup misplaced : g.seq \in Seqs /\ g.seq < cur
      /\ buffer = FramesOf(cur, run)
  BY <1>1 DEF SafetyInv, TypeOK, Groups, OpenGroup, BufferIsGroup
<1>3. TypeOK'
  <2>0. PICK floor \in 0 .. cur' : ram' = {s \in ram : s >= floor} \cup {cur'}
    BY DEF Rotate
  <2>1. ram' \subseteq Seqs /\ cur' \in Seqs
    <3>1. cur' \in Seqs
      BY <1>1, <1>2 DEF Seqs
    <3>2. ram \subseteq Seqs
      BY DEF SafetyInv, TypeOK
    <3> QED BY <2>0, <3>1, <3>2
  <2> QED BY <1>1, <2>1 DEF SafetyInv, TypeOK, Phases
<1>4. OpenGroup'
  BY <1>1, <1>2 DEF OpenGroup, Seqs, NoSeq
<1>5. SeedCovers'
  BY <1>1, <1>2 DEF SafetyInv, SeedCovers, Seqs, NoSeq
<1>6. BufferIsGroup'
  <2>1. cur' - 1 = cur
    BY <1>1, <1>2 DEF Seqs
  <2>2. FramesOf(cur - 1, run)' = FramesOf(cur, run)
    BY <1>1, <2>1 DEF FramesOf
  <2> QED BY <1>1, <1>2, <2>2 DEF BufferIsGroup
<1>7. SequenceNeverReused' /\ StoredIsWhole'
  BY <1>1 DEF SafetyInv, SequenceNeverReused, StoredIsWhole, FramesOf
<1>8. MisplacedIsWhole'
  <2>1. \A s \in refused : s < cur => s < cur'
    BY <1>1, <1>2 DEF SafetyInv, TypeOK, Seqs
  <2>2. torn => \E s \in refused : s < cur'
    BY <1>1, <2>1 DEF SafetyInv, MisplacedIsWhole
  <2>3. cur' - 1 = cur
    BY <1>1, <1>2 DEF Seqs
  <2> QED BY <1>1, <2>2, <2>3 DEF SafetyInv, MisplacedIsWhole, FramesOf
<1> QED BY <1>3, <1>4, <1>5, <1>6, <1>7, <1>8 DEF SafetyInv

(* Appending a finished group s to the store, wherever it ends up, keeps   *)
(* what the store's part of the invariant needs when the buffer holds s    *)
(* and a torn segment has its refused append below s.                      *)
LEMMA AppendSafety ==
  ASSUME SafetyInv, NEW s \in Seqs, AppendToStore(s),
         buffer = FramesOf(s, run), UNCHANGED streamed,
         torn => \E t \in refused : t < s
  PROVE  /\ store' \subseteq Groups /\ misplaced' \subseteq Groups
         /\ torn' \in BOOLEAN /\ refused' \subseteq Seqs /\ gone' \subseteq Int
         /\ \A g \in store' \cup misplaced' : g \in store \cup misplaced \/ g.seq = s
         /\ StoredIsWhole'
         /\ \A g \in misplaced' :
              /\ g.frames = FramesOf(g.seq, g.run)'
              /\ g.seq \in refused' \/ \E t \in refused' : t < g.seq
         /\ torn' => \E t \in refused' : t <= s
<1> USE PublisherAssumption
<1> DEFINE F == Finished(s)
<1>1. \/ store' = store \cup {F} /\ misplaced' = misplaced /\ torn' = FALSE /\ refused' = refused
      \/ /\ torn /\ store' = store /\ misplaced' = misplaced \cup {F}
         /\ torn' = torn /\ refused' = refused
      \/ /\ store' = store /\ refused' = refused \cup {s}
         /\ \/ misplaced' = misplaced /\ torn' = torn
            \/ misplaced' = misplaced \cup {F} /\ torn' = TRUE
  BY DEF AppendToStore, AppendInPlace, AppendBehind, AppendFails
<1>2. F \in Groups /\ F.seq = s /\ F.run = run /\ F.frames = FramesOf(s, run)
  BY DEF Finished, Groups, SafetyInv, TypeOK
<1>3. /\ store \subseteq Groups /\ misplaced \subseteq Groups /\ torn \in BOOLEAN
      /\ refused \subseteq Seqs /\ gone \subseteq Int /\ gone' = gone
  BY DEF SafetyInv, TypeOK, AppendToStore
<1>4. /\ store' \subseteq store \cup {F} /\ misplaced' \subseteq misplaced \cup {F}
      /\ refused \subseteq refused' /\ refused' \subseteq refused \cup {s}
  BY <1>1
<1>5. \A f, q : FramesOf(f, q)' = FramesOf(f, q)
  BY DEF FramesOf
<1>6. StoredIsWhole'
  <2> SUFFICES ASSUME NEW g \in store'
               PROVE  g.frames = FramesOf(g.seq, g.run) \/ g.seq \in refused'
    BY <1>5 DEF StoredIsWhole
  <2>1. CASE g \in store
    BY <1>4, <2>1 DEF SafetyInv, StoredIsWhole
  <2>2. CASE g = F
    BY <1>2, <2>2
  <2> QED BY <1>4, <2>1, <2>2
<1>7. ASSUME NEW g \in misplaced'
      PROVE  /\ g.frames = FramesOf(g.seq, g.run)
             /\ g.seq \in refused' \/ \E t \in refused' : t < g.seq
  <2>1. CASE g \in misplaced
    BY <1>4, <2>1 DEF SafetyInv, MisplacedIsWhole
  <2>2. CASE g = F /\ s \in refused'
    BY <1>2, <2>2
  <2>3. CASE g = F /\ torn
    BY <1>2, <1>4, <2>3
  <2>4. g \in misplaced \/ (g = F /\ (s \in refused' \/ torn))
    BY <1>1, <1>7
  <2> QED BY <2>1, <2>2, <2>3, <2>4
<1>8. torn' => \E t \in refused' : t <= s
  <2>1. CASE torn
    <3>1. PICK t \in refused : t < s
      BY <2>1
    <3> QED BY <1>3, <1>4, <3>1 DEF Seqs
  <2>2. CASE ~torn
    <3>1. torn' => s \in refused'
      BY <1>1, <1>3, <2>2
    <3> QED BY <3>1 DEF Seqs
  <2> QED BY <2>1, <2>2
<1>9. /\ store' \subseteq Groups /\ misplaced' \subseteq Groups
      /\ torn' \in BOOLEAN /\ refused' \subseteq Seqs /\ gone' \subseteq Int
  BY <1>1, <1>2, <1>3, <1>4
<1>10. \A g \in store' \cup misplaced' : g \in store \cup misplaced \/ g.seq = s
  BY <1>2, <1>4
<1> QED BY <1>5, <1>6, <1>7, <1>8, <1>9, <1>10

LEMMA StoreFinishedSafety ==
  ASSUME SafetyInv, StoreFinished
  PROVE  SafetyInv'
<1> USE PublisherAssumption
<1>1. /\ phase = "store" /\ phase' = "persist" /\ AppendToStore(cur - 1)
      /\ buffer' = {} /\ run' = run /\ cur' = cur /\ count' = count /\ ram' = ram
      /\ sidecar' = sidecar /\ emitted' = emitted /\ streamed' = streamed
      /\ unsaved' = unsaved
  BY DEF StoreFinished, FramesCleared
<1>2. /\ cur \in Seqs /\ cur - 1 \in Seqs /\ count = 0
      /\ \A x \in streamed : x.seq \in Seqs /\ x.run <= run
      /\ \A x \in streamed : x.run = run => x.seq < cur
      /\ \A x \in streamed : x.seq < cur \/ x.seq \in unsaved
      /\ \A g \in store \cup misplaced : g.seq \in Seqs /\ g.seq < cur - 1
      /\ buffer = FramesOf(cur - 1, run)
      /\ sidecar \in Seqs \cup {NoSeq} /\ sidecar <= cur
      /\ torn => \E t \in refused : t < cur - 1
  BY <1>1 DEF SafetyInv, TypeOK, Groups, OpenGroup, BufferIsGroup, MisplacedIsWhole, Seqs
<1>4. /\ store' \subseteq Groups /\ misplaced' \subseteq Groups
      /\ torn' \in BOOLEAN /\ refused' \subseteq Seqs /\ gone' \subseteq Int
      /\ \A g \in store' \cup misplaced' : g \in store \cup misplaced \/ g.seq = cur - 1
      /\ StoredIsWhole'
      /\ \A g \in misplaced' :
           /\ g.frames = FramesOf(g.seq, g.run)'
           /\ g.seq \in refused' \/ \E t \in refused' : t < g.seq
      /\ torn' => \E t \in refused' : t <= cur - 1
  BY <1>1, <1>2, AppendSafety
<1>5. TypeOK'
  BY <1>1, <1>4 DEF SafetyInv, TypeOK, Phases
<1>6. \A g \in store' \cup misplaced' : g.seq \in Seqs /\ g.seq < cur
  BY <1>2, <1>4 DEF Seqs
<1>7. OpenGroup'
  BY <1>1, <1>2, <1>6 DEF OpenGroup, Seqs
<1>8. SeedCovers'
  <2>1. sidecar # NoSeq \/ \A x \in streamed : x.seq \in unsaved
    BY <1>1 DEF SafetyInv, SeedCovers
  <2> QED BY <1>1, <2>1 DEF SafetyInv, SeedCovers
<1>9. BufferIsGroup'
  BY <1>1, <1>2 DEF BufferIsGroup
<1>10. SequenceNeverReused'
  BY <1>1 DEF SafetyInv, SequenceNeverReused
<1>11. MisplacedIsWhole'
  <2>1. torn' => \E t \in refused' : t < cur
    BY <1>2, <1>4 DEF Seqs
  <2> QED BY <1>1, <1>4, <2>1 DEF MisplacedIsWhole, FramesOf
<1> QED BY <1>4, <1>5, <1>7, <1>8, <1>9, <1>10, <1>11 DEF SafetyInv

(* Retention only removes groups.                                          *)
LEMMA GcSafety ==
  ASSUME SafetyInv, NEW g \in store \cup misplaced, Gc(g)
  PROVE  SafetyInv'
<1> USE PublisherAssumption
<1>1. /\ phase = "live" /\ phase' = phase
      /\ store' \subseteq store /\ misplaced' \subseteq misplaced
      /\ gone' = gone \cup SeqsOf((store \ store') \cup (misplaced \ misplaced'))
      /\ torn' = torn /\ refused' = refused
      /\ run' = run /\ cur' = cur /\ count' = count /\ buffer' = buffer /\ ram' = ram
      /\ sidecar' = sidecar /\ emitted' = emitted /\ streamed' = streamed
      /\ unsaved' = unsaved
  BY DEF Gc, memory
<1>2. TypeOK'
  <2>1. gone' \subseteq Int
    <3>1. gone \subseteq Int /\ \A h \in store \cup misplaced : h.seq \in Int
      BY DEF SafetyInv, TypeOK, Groups, Seqs
    <3> QED BY <1>1, <3>1 DEF SeqsOf
  <2> QED BY <1>1, <2>1 DEF SafetyInv, TypeOK
<1>3. OpenGroup'
  BY <1>1 DEF SafetyInv, OpenGroup
<1>4. SeedCovers'
  BY <1>1 DEF SafetyInv, SeedCovers
<1>5. BufferIsGroup'
  BY <1>1 DEF SafetyInv, BufferIsGroup, FramesOf
<1>6. SequenceNeverReused' /\ StoredIsWhole' /\ MisplacedIsWhole'
  BY <1>1 DEF SafetyInv, SequenceNeverReused, StoredIsWhole, MisplacedIsWhole, FramesOf
<1> QED BY <1>2, <1>3, <1>4, <1>5, <1>6 DEF SafetyInv

(* A stopped process leaves only the files and what was streamed.          *)
LEMMA ResetSafety ==
  ASSUME SafetyInv, Reset, StoredIsWhole',
         store' \subseteq Groups, misplaced' \subseteq Groups,
         torn' \in BOOLEAN, refused' \subseteq Seqs, gone' \subseteq Int,
         \A g \in misplaced' :
           /\ g.frames = FramesOf(g.seq, g.run)'
           /\ g.seq \in refused' \/ \E t \in refused' : t < g.seq,
         phase \in {"down", "persist"} => store' = store /\ misplaced' = misplaced
  PROVE  SafetyInv'
<1> USE PublisherAssumption
<1>1. /\ phase' = "down" /\ cur' = NoSeq /\ count' = 0 /\ buffer' = {} /\ ram' = {}
      /\ run' = run /\ sidecar' = sidecar /\ emitted' = emitted /\ streamed' = streamed
      /\ unsaved' = unsaved
  BY DEF Reset
<1>2. TypeOK'
  BY <1>1 DEF SafetyInv, TypeOK, Phases
<1>3. OpenGroup'
  BY <1>1 DEF SafetyInv, OpenGroup
<1>4. SeedCovers'
  BY <1>1 DEF SafetyInv, SeedCovers
<1>5. BufferIsGroup'
  BY <1>1 DEF BufferIsGroup
<1>6. SequenceNeverReused'
  BY <1>1 DEF SafetyInv, SequenceNeverReused
<1>7. MisplacedIsWhole'
  BY <1>1 DEF MisplacedIsWhole, FramesOf
<1> QED BY <1>2, <1>3, <1>4, <1>5, <1>6, <1>7 DEF SafetyInv

LEMMA FinishSafety ==
  ASSUME SafetyInv, Finish
  PROVE  SafetyInv'
<1> USE PublisherAssumption
<1>1. phase = "live" /\ Reset /\ streamed' = streamed
  BY DEF Finish, Reset
<1>2. /\ cur \in Seqs /\ buffer = FramesOf(cur, run)
      /\ torn => \E t \in refused : t < cur
  BY <1>1 DEF SafetyInv, OpenGroup, BufferIsGroup, MisplacedIsWhole
<1>3. /\ store' \subseteq Groups /\ misplaced' \subseteq Groups
      /\ torn' \in BOOLEAN /\ refused' \subseteq Seqs /\ gone' \subseteq Int
      /\ StoredIsWhole'
      /\ \A g \in misplaced' :
           /\ g.frames = FramesOf(g.seq, g.run)'
           /\ g.seq \in refused' \/ \E t \in refused' : t < g.seq
  <2>1. CASE buffer = {}
    <3>1. /\ store' = store /\ misplaced' = misplaced /\ torn' = torn
          /\ refused' = refused /\ gone' = gone
      BY <2>1 DEF Finish, segments
    <3>2. StoredIsWhole'
      BY <1>1, <3>1 DEF SafetyInv, StoredIsWhole, FramesOf
    <3>3. \A g \in misplaced' :
            /\ g.frames = FramesOf(g.seq, g.run)'
            /\ g.seq \in refused' \/ \E t \in refused' : t < g.seq
      BY <1>1, <3>1 DEF SafetyInv, MisplacedIsWhole, FramesOf
    <3> QED BY <3>1, <3>2, <3>3 DEF SafetyInv, TypeOK
  <2>2. CASE buffer # {}
    <3>1. AppendToStore(cur)
      BY <2>2 DEF Finish
    <3> QED BY <1>1, <1>2, <3>1, AppendSafety
  <2> QED BY <2>1, <2>2
<1> QED BY <1>1, <1>3, ResetSafety

LEMMA CrashSafety ==
  ASSUME SafetyInv, Crash
  PROVE  SafetyInv'
<1> USE PublisherAssumption
<1> DEFINE F == Finished(cur - 1)
<1>1. /\ phase # "down" /\ Reset /\ streamed' = streamed
      /\ torn' = torn /\ refused' = refused
      /\ gone' \subseteq gone \cup {cur, cur - 1}
  BY DEF Crash, Reset
<1>2. /\ cur \in Seqs /\ gone \subseteq Int /\ refused \subseteq Seqs
      /\ torn \in BOOLEAN /\ store \subseteq Groups /\ misplaced \subseteq Groups
  BY <1>1 DEF SafetyInv, TypeOK, OpenGroup
<1>3. gone' \subseteq Int
  <2>1. cur \in Int /\ cur - 1 \in Int
    BY <1>2 DEF Seqs
  <2> QED BY <1>1, <1>2, <2>1
<1>4. \/ store' = store /\ misplaced' = misplaced
      \/ phase = "store" /\ store' = store \cup {F} /\ misplaced' = misplaced
      \/ phase = "store" /\ torn /\ store' = store /\ misplaced' = misplaced \cup {F}
  BY DEF Crash
<1>5. phase = "store" => /\ F \in Groups
                         /\ F.frames = FramesOf(F.seq, F.run)
                         /\ torn => \E t \in refused : t < F.seq
  <2> SUFFICES ASSUME phase = "store"
               PROVE  /\ F \in Groups /\ F.frames = FramesOf(F.seq, F.run)
                      /\ torn => \E t \in refused : t < F.seq
    OBVIOUS
  <2>1. cur - 1 \in Seqs /\ buffer = FramesOf(cur - 1, run)
    BY <1>2 DEF SafetyInv, OpenGroup, BufferIsGroup, Seqs
  <2> QED BY <2>1 DEF Finished, Groups, SafetyInv, TypeOK, MisplacedIsWhole
<1>6. StoredIsWhole'
  <2> SUFFICES ASSUME NEW g \in store'
               PROVE  g.frames = FramesOf(g.seq, g.run) \/ g.seq \in refused
    BY <1>1 DEF StoredIsWhole, FramesOf
  <2>1. CASE g \in store
    BY <2>1 DEF SafetyInv, StoredIsWhole
  <2>2. CASE g = F /\ phase = "store"
    BY <1>5, <2>2
  <2> QED BY <1>4, <2>1, <2>2
<1>7. ASSUME NEW g \in misplaced'
      PROVE  /\ g.frames = FramesOf(g.seq, g.run)
             /\ g.seq \in refused \/ \E t \in refused : t < g.seq
  <2>1. CASE g \in misplaced
    BY <2>1 DEF SafetyInv, MisplacedIsWhole
  <2>2. CASE g = F /\ phase = "store" /\ torn
    BY <1>5, <2>2
  <2> QED BY <1>4, <1>7, <2>1, <2>2
<1>8. \A g \in misplaced' :
        /\ g.frames = FramesOf(g.seq, g.run)'
        /\ g.seq \in refused' \/ \E t \in refused' : t < g.seq
  BY <1>1, <1>7 DEF FramesOf
<1>9. store' \subseteq Groups /\ misplaced' \subseteq Groups
  BY <1>2, <1>4, <1>5
<1> QED BY <1>1, <1>2, <1>3, <1>4, <1>6, <1>8, <1>9, ResetSafety

-----------------------------------------------------------------------------
LEMMA StepSafety ==
  ASSUME SafetyInv, [Next]_vars
  PROVE  SafetyInv'
<1>1. ASSUME NEW m \in NoSeq .. MaxSeq, Boot(m) PROVE SafetyInv'
  BY <1>1, BootSafety
<1>2. ASSUME NEW g \in store \cup misplaced, Gc(g) PROVE SafetyInv'
  BY <1>2, GcSafety
<1>3. CASE UNCHANGED vars
  BY <1>3 DEF vars, memory, disk, segments, history, SafetyInv, TypeOK, OpenGroup,
              SeedCovers, BufferIsGroup, FramesOf, SequenceNeverReused, StoredIsWhole,
              MisplacedIsWhole
<1> QED BY <1>1, <1>2, <1>3, PersistSafety, WriteSafety, RotateSafety,
           StoreFinishedSafety, FinishSafety, CrashSafety DEF Next

(* The invariant holds in every reachable state of the publisher.          *)
THEOREM SafetyInvariant == Spec => []SafetyInv
<1>1. SafetyInv /\ [Next]_vars => SafetyInv'
  BY StepSafety
<1> QED BY InitSafety, <1>1, PTL DEF Spec

(* Types: every variable of the publisher keeps its type.                  *)
THEOREM TypeCorrect == Spec => []TypeOK
<1>1. SafetyInv => TypeOK
  BY DEF SafetyInv
<1> QED BY SafetyInvariant, <1>1, PTL

(* No group sequence carries frames of two runs, over any number of        *)
(* crashes and restarts at any step of a rotation (main.rs: "we never      *)
(* reuse a sequence for different content across a restart"), but for the  *)
(* sequences a failed write of the sidecar left uncovered.                 *)
THEOREM NeverReused == Spec => []SequenceNeverReused
<1>1. SafetyInv => SequenceNeverReused
  BY DEF SafetyInv
<1> QED BY SafetyInvariant, <1>1, PTL

(* What backfill serves from the store is what live subscribers saw, but   *)
(* for a group whose append reported an error and a scan completed with    *)
(* another's bytes.                                                        *)
THEOREM StoredWhole == Spec => []StoredIsWhole
<1>1. SafetyInv => StoredIsWhole
  BY DEF SafetyInv
<1> QED BY SafetyInvariant, <1>1, PTL

-----------------------------------------------------------------------------
(* A set of numbers that is not empty has a least one, and a set of        *)
(* sequences a highest one.                                                *)
LEMMA LeastExists ==
  ASSUME NEW S \in SUBSET Nat, S # {}
  PROVE  \E m \in S : \A k \in S : m <= k
<1>1. PICK m \in S : \A k \in S : <<k, m>> \notin OpToRel(<, Nat)
  BY WFMin, NatLessThanWellFounded, Zenon
<1>2. \A k \in S : ~(k < m)
  BY <1>1, Zenon DEF OpToRel
<1> QED BY <1>2

LEMMA HighestExists ==
  ASSUME NEW S \in SUBSET Seqs, S # {}
  PROVE  \E m \in S : \A x \in S : x <= m
<1> USE PublisherAssumption
<1> DEFINE D == {MaxSeq - x : x \in S}
<1>1. PICK d \in D : \A k \in D : d <= k
  <2>1. \A x \in S : MaxSeq - x \in Nat
    BY DEF Seqs
  <2>2. D \in SUBSET Nat
    BY <2>1
  <2>3. D # {}
    <3>1. PICK x \in S : TRUE
      OBVIOUS
    <3>2. MaxSeq - x \in D
      OBVIOUS
    <3> QED BY <3>2
  <2> HIDE DEF D
  <2> QED BY <2>2, <2>3, LeastExists
<1>2. PICK m \in S : d = MaxSeq - m
  BY <1>1
<1>3. ASSUME NEW x \in S PROVE x <= m
  <2>1. MaxSeq - m <= MaxSeq - x
    BY <1>1, <1>2
  <2> QED BY <2>1 DEF Seqs
<1> QED BY <1>3

(* A step appends one group above everything stored, drops a group and all *)
(* older ones, leaves the store alone, or scans a torn segment.            *)
LEMMA StoreMoves ==
  ASSUME SafetyInv, SafetyInv', [Next]_vars
  PROVE  \/ store' = store
         \/ \E g \in store : store' = {h \in store : h.seq > g.seq}
         \/ \E g \in store' : store' = store \cup {g} /\ \A h \in store : h.seq < g.seq
         \/ ScanRecovers
<1> USE PublisherAssumption
<1>0. \A h \in store \cup misplaced : h.seq \in Seqs
  BY DEF SafetyInv, TypeOK, Groups
<1>1. CASE StoreFinished
  <2>1. phase = "store" /\ (store' = store \/ store' = store \cup {Finished(cur - 1)})
    BY <1>1 DEF StoreFinished, AppendToStore, AppendInPlace, AppendBehind, AppendFails
  <2>2. \A h \in store : h.seq < Finished(cur - 1).seq
    BY <2>1 DEF Finished, SafetyInv, OpenGroup
  <2> QED BY <2>1, <2>2
<1>2. CASE Finish
  <2>1. phase = "live" /\ (store' = store \/ store' = store \cup {Finished(cur)})
    BY <1>2 DEF Finish, segments, AppendToStore, AppendInPlace, AppendBehind, AppendFails
  <2>2. \A h \in store : h.seq < Finished(cur).seq
    BY <2>1 DEF Finished, SafetyInv, OpenGroup
  <2> QED BY <2>1, <2>2
<1>3. CASE Crash
  <2>1. store' = store \/ (phase = "store" /\ store' = store \cup {Finished(cur - 1)})
    BY <1>3 DEF Crash
  <2>2. phase = "store" => \A h \in store : h.seq < Finished(cur - 1).seq
    BY DEF Finished, SafetyInv, OpenGroup
  <2> QED BY <2>1, <2>2
<1>4. ASSUME NEW g \in store \cup misplaced, Gc(g)
      PROVE  store' = store \/ \E h \in store : store' = {k \in store : k.seq > h.seq}
  <2>1. store' = {k \in store : k.seq > g.seq}
    BY <1>4 DEF Gc
  <2> DEFINE dropped == {k \in store : k.seq <= g.seq}
  <2>2. CASE dropped = {}
    <3>1. \A k \in store : k.seq > g.seq
      BY <1>0, <2>2 DEF Seqs
    <3> QED BY <2>1, <3>1
  <2>3. CASE dropped # {}
    <3>1. SeqsOf(dropped) \in SUBSET Seqs /\ SeqsOf(dropped) # {}
      BY <1>0, <2>3 DEF SeqsOf
    <3>2. PICK m \in SeqsOf(dropped) : \A x \in SeqsOf(dropped) : x <= m
      BY <3>1, HighestExists
    <3>3. PICK h \in dropped : h.seq = m
      BY <3>2 DEF SeqsOf
    <3>4. \A k \in dropped : k.seq <= h.seq
      BY <3>2, <3>3 DEF SeqsOf
    <3>5. \A k \in store : k.seq > g.seq <=> k.seq > h.seq
      BY <1>0, <3>3, <3>4 DEF Seqs
    <3> QED BY <2>1, <3>3, <3>5
  <2> QED BY <2>2, <2>3
<1>5. ASSUME NEW m \in NoSeq .. MaxSeq, Boot(m) PROVE ScanRecovers
  <2>1. phase = "down" /\ Scan
    BY <1>5 DEF Boot
  <2>2. PICK found \in SUBSET misplaced :
          \E mixed \in SUBSET {g \in found : CutShort(g)} :
            store' = store \cup (found \ mixed)
                           \cup {[g EXCEPT !.frames = {}] : g \in mixed}
    BY <2>1 DEF Scan
  <2>3. PICK mixed \in SUBSET found :
          store' = store \cup (found \ mixed)
                         \cup {[g EXCEPT !.frames = {}] : g \in mixed}
    BY <2>2
  <2>4. \A g \in mixed : LET h == [g EXCEPT !.frames = {}] IN
                         h.seq = g.seq /\ h.run = g.run
    BY <2>3 DEF SafetyInv, TypeOK, Groups
  <2>5. ASSUME NEW h \in store', h \notin store
        PROVE  \E g \in misplaced : h.seq = g.seq /\ h.run = g.run
    <3>1. CASE h \in found
      BY <3>1
    <3>2. CASE h \in {[g EXCEPT !.frames = {}] : g \in mixed}
      <4>1. PICK g \in mixed : h = [g EXCEPT !.frames = {}]
        BY <3>2
      <4> QED BY <2>4, <4>1
    <3> QED BY <2>3, <2>5, <3>1, <3>2
  <2>6. store \subseteq store'
    BY <2>3
  <2> QED BY <2>1, <2>5, <2>6 DEF ScanRecovers, Stored, Labels
<1>6. CASE Persist \/ Write \/ Rotate \/ UNCHANGED vars
  BY <1>6 DEF Persist, Write, Rotate, vars, disk, segments
<1> QED BY <1>1, <1>2, <1>3, <1>4, <1>5, <1>6 DEF Next

(* The publisher uses the store as ReplayLog.tla lets it: with GroupStore  *)
(* implementing that module, the two fit together over any crashes, and    *)
(* over failed appends but for what a scan finds in a torn segment.        *)
THEOREM StoreUsedAsLog == Spec => UsesReplayLog
<1> DEFINE All == [seq : Seqs, run : 0 .. MaxRuns]
<1> DEFINE Label(g) == [seq |-> g.seq, run |-> g.run]
<1>1. SafetyInv => \A g \in store : Label(g) \in All /\ Label(g).seq = g.seq
  BY DEF SafetyInv, TypeOK, Groups
<1>2. SafetyInv => Stored \in SUBSET All
  BY <1>1 DEF Stored, Labels
<1>3. SafetyInv /\ Init => Asked!LogInit
  BY <1>2 DEF Asked!LogInit
<1>4. SafetyInv /\ SafetyInv' /\ [Next]_vars => [Asked!LogNext \/ ScanRecovers]_Stored
  <2> SUFFICES ASSUME SafetyInv, SafetyInv', [Next]_vars
               PROVE  Asked!LogNext \/ ScanRecovers \/ Stored' = Stored
    OBVIOUS
  <2>1. CASE store' = store
    BY <2>1 DEF Stored, Labels
  <2>2. ASSUME NEW g \in store, store' = {h \in store : h.seq > g.seq}
        PROVE Label(g) \in Stored /\ Asked!Evict(Label(g))
    <3>2. Stored' = {l \in Stored : l.seq > Label(g).seq}
      BY <1>1, <2>2 DEF Stored, Labels
    <3> QED BY <3>2 DEF Stored, Labels, Asked!Evict, Asked!NewerThan
  <2>3. ASSUME NEW g \in store', store' = store \cup {g}, \A h \in store : h.seq < g.seq
        PROVE  Label(g) \in All /\ Asked!Store(Label(g))
    <3>1. Label(g) \in All /\ Label(g).seq = g.seq
      BY DEF SafetyInv, TypeOK, Groups
    <3>2. Stored' = Stored \cup {Label(g)}
      BY <2>3 DEF Stored, Labels
    <3>3. \A l \in Stored : l.seq < Label(g).seq
      BY <1>1, <2>3, <3>1 DEF Stored, Labels
    <3> QED BY <3>1, <3>2, <3>3 DEF Asked!Store
  <2> QED BY <2>1, <2>2, <2>3, StoreMoves DEF Asked!LogNext
<1> QED BY SafetyInvariant, <1>3, <1>4, PTL DEF Spec, UsesReplayLog

-----------------------------------------------------------------------------
(* Frame x is in a file with its group, or its group is known to be lost.  *)
OnFile(x) == \E g \in store \cup misplaced : Holds(g, x)
Excused(x) == x.seq \in gone \cup refused

(* A frame that left the buffer is on file or excused, and a misplaced one *)
(* has a refused append below it.                                          *)
LEMMA AccountedBy ==
  ASSUME SafetyInv, NEW x \in streamed, OnFile(x) \/ Excused(x)
  PROVE  \/ \E g \in store : Holds(g, x)
         \/ x.seq \in gone \cup refused
         \/ /\ \E g \in misplaced : Holds(g, x)
            /\ \E s \in refused : s < x.seq
<1> SUFFICES ASSUME NEW g \in misplaced, Holds(g, x), x.seq \notin refused
             PROVE  \E s \in refused : s < x.seq
  BY DEF OnFile, Excused
<1> QED BY DEF SafetyInv, MisplacedIsWhole, Holds

(* What was on file or excused stays so through an append, a GC and a      *)
(* scan, and the group that an append is given becomes so.                 *)
LEMMA AppendAccounts ==
  ASSUME NEW s, AppendToStore(s)
  PROVE  /\ store \subseteq store' /\ misplaced \subseteq misplaced'
         /\ gone \subseteq gone' /\ refused \subseteq refused'
         /\ Finished(s) \in store' \cup misplaced' \/ s \in refused'
<1> QED BY DEF AppendToStore, AppendInPlace, AppendBehind, AppendFails

LEMMA GcAccounts ==
  ASSUME NEW g, Gc(g), NEW x \in streamed, OnFile(x) \/ Excused(x)
  PROVE  (OnFile(x) \/ Excused(x))'
<1>1. /\ gone' = gone \cup SeqsOf((store \ store') \cup (misplaced \ misplaced'))
      /\ refused' = refused
  BY DEF Gc
<1>2. CASE Excused(x)
  BY <1>1, <1>2 DEF Excused
<1>3. ASSUME NEW h \in store \cup misplaced, Holds(h, x) PROVE (OnFile(x) \/ Excused(x))'
  <2>1. CASE h \in store' \cup misplaced'
    BY <1>3, <2>1 DEF OnFile, Holds
  <2>2. CASE h \notin store' \cup misplaced'
    <3>1. x.seq \in gone'
      BY <1>1, <1>3, <2>2 DEF SeqsOf, Holds
    <3> QED BY <3>1 DEF Excused
  <2> QED BY <2>1, <2>2
<1> QED BY <1>2, <1>3 DEF OnFile

LEMMA ScanAccounts ==
  ASSUME SafetyInv, Scan, UNCHANGED refused, NEW x \in streamed, OnFile(x) \/ Excused(x)
  PROVE  (OnFile(x) \/ Excused(x))'
<1>1. PICK found \in SUBSET misplaced, mixed \in SUBSET misplaced :
        /\ \A g \in mixed : g.seq \in refused
        /\ store' = store \cup (found \ mixed)
                         \cup {[g EXCEPT !.frames = {}] : g \in mixed}
        /\ gone' = gone \cup SeqsOf(misplaced \ found)
  BY DEF Scan, CutShort
<1>2. CASE Excused(x)
  BY <1>1, <1>2 DEF Excused
<1>3. ASSUME NEW h \in store \cup misplaced, Holds(h, x) PROVE (OnFile(x) \/ Excused(x))'
  <2>1. CASE h \in store \/ h \in found \ mixed
    BY <1>1, <1>3, <2>1 DEF OnFile, Holds
  <2>2. CASE h \in misplaced \ found
    <3>1. x.seq \in gone'
      BY <1>1, <1>3, <2>2 DEF SeqsOf, Holds
    <3> QED BY <3>1 DEF Excused
  <2>3. CASE h \in mixed
    <3>1. x.seq \in refused'
      BY <1>1, <1>3, <2>3 DEF Holds
    <3> QED BY <3>1 DEF Excused
  <2> QED BY <2>1, <2>2, <2>3
<1> QED BY <1>2, <1>3 DEF OnFile

(* No frame leaves the replay window unnoticed, whatever step the process  *)
(* dies at and wherever an append fails: it is stored with its group, in   *)
(* the buffer, or in a group that GC, a refused append or the crash        *)
(* accounts for.                                                           *)
THEOREM FramesAccounted == Spec => []EveryFrameAccounted
<1> USE PublisherAssumption
<1> DEFINE InBuffer(x) == /\ x.run = run /\ x.frame \in buffer
                          /\ \/ phase # "down" /\ x.seq = cur
                             \/ phase = "store" /\ x.seq = cur - 1
<1> DEFINE Inv == \A x \in streamed : OnFile(x) \/ Excused(x) \/ InBuffer(x)
<1>1. Init => Inv
  <2> SUFFICES ASSUME Init, NEW x \in streamed PROVE OnFile(x) \/ Excused(x)
    OBVIOUS
  <2>1. PICK m \in NoSeq .. MaxLegacy :
          LET last == IF m = NoSeq THEN NoSeq ELSE m + 1 IN
          /\ store = {[seq |-> s, run |-> 0, frames |-> {s + 1}] : s \in 0 .. m}
          /\ streamed = {[seq |-> s, run |-> 0, frame |-> s + 1] : s \in 0 .. last}
          /\ gone = {last}
    BY DEF Init
  <2> DEFINE last == IF m = NoSeq THEN NoSeq ELSE m + 1
  <2>2. PICK s \in 0 .. last : x = [seq |-> s, run |-> 0, frame |-> s + 1]
    BY <2>1
  <2>3. CASE s = last
    BY <2>1, <2>2, <2>3 DEF Excused
  <2>4. CASE s # last
    <3>1. s \in 0 .. m
      BY <2>4 DEF NoSeq
    <3>2. [seq |-> s, run |-> 0, frames |-> {s + 1}] \in store
      BY <2>1, <3>1
    <3> QED BY <2>2, <3>2 DEF OnFile, Holds
  <2> QED BY <2>3, <2>4
<1>2. SafetyInv /\ Inv /\ [Next]_vars => Inv'
  <2> SUFFICES ASSUME SafetyInv, Inv, [Next]_vars PROVE Inv'
    OBVIOUS
  <2>1. ASSUME NEW m \in NoSeq .. MaxSeq, Boot(m) PROVE Inv'
    <3>1. /\ phase = "down" /\ buffer = {} /\ streamed' = streamed
          /\ Scan /\ refused' = refused
      BY <2>1 DEF Boot, SafetyInv, BufferIsGroup
    <3>2. \A x \in streamed : OnFile(x) \/ Excused(x)
      BY <3>1
    <3> QED BY <3>1, <3>2, ScanAccounts
  <2>2. CASE Persist
    BY <2>2 DEF Persist, SafetyInv, BufferIsGroup, memory, segments, OnFile, Holds, Excused
  <2>3. CASE Write
    <3>1. \A x \in streamed : (OnFile(x) \/ Excused(x)) => (OnFile(x) \/ Excused(x))'
      BY <2>3 DEF Write, disk, segments, OnFile, Holds, Excused
    <3>2. \A x \in streamed : InBuffer(x) => InBuffer(x)'
      BY <2>3 DEF Write
    <3>3. \A x \in streamed' : x \in streamed \/ InBuffer(x)'
      BY <2>3 DEF Write
    <3> QED BY <3>1, <3>2, <3>3
  <2>4. CASE Rotate
    <3>1. cur' - 1 = cur
      BY <2>4 DEF Rotate, SafetyInv, OpenGroup, Seqs
    <3>2. \A x \in streamed : (OnFile(x) \/ Excused(x)) => (OnFile(x) \/ Excused(x))'
      BY <2>4 DEF Rotate, disk, segments, history, OnFile, Holds, Excused
    <3>3. \A x \in streamed : InBuffer(x) => InBuffer(x)'
      BY <2>4, <3>1 DEF Rotate
    <3> QED BY <2>4, <3>2, <3>3 DEF Rotate, history
  <2>5. ASSUME NEW s, AppendToStore(s), UNCHANGED <<streamed, run>>,
               \A x \in streamed : InBuffer(x) => x.seq = s
        PROVE  Inv'
    <3> SUFFICES ASSUME NEW x \in streamed PROVE (OnFile(x) \/ Excused(x))'
      BY <2>5
    <3>1. CASE OnFile(x)
      BY <2>5, <3>1, AppendAccounts DEF OnFile, Holds
    <3>2. CASE Excused(x)
      BY <2>5, <3>2, AppendAccounts DEF Excused
    <3>3. CASE InBuffer(x)
      <4>1. Holds(Finished(s), x) /\ x.seq = s
        BY <2>5, <3>3 DEF Holds, Finished
      <4>2. CASE Finished(s) \in store' \cup misplaced'
        BY <4>1, <4>2 DEF OnFile, Holds
      <4>3. CASE s \in refused'
        BY <4>1, <4>3 DEF Excused
      <4> QED BY <2>5, <4>2, <4>3, AppendAccounts
    <3> QED BY <3>1, <3>2, <3>3
  <2>6. CASE StoreFinished
    <3>1. /\ phase = "store" /\ AppendToStore(cur - 1) /\ cur \in Seqs
          /\ streamed' = streamed /\ run' = run
          /\ \A x \in streamed : x.run = run => x.seq # cur
      BY <2>6 DEF StoreFinished, SafetyInv, TypeOK, OpenGroup, Seqs
    <3> QED BY <2>5, <3>1
  <2>7. ASSUME NEW g \in store \cup misplaced, Gc(g) PROVE Inv'
    <3>1. \A x \in streamed : InBuffer(x) => InBuffer(x)'
      BY <2>7 DEF Gc, memory
    <3> QED BY <2>7, <3>1, GcAccounts DEF Gc
  <2>8. CASE Finish
    <3>1. phase = "live" /\ streamed' = streamed /\ run' = run
      BY <2>8 DEF Finish, Reset
    <3>2. CASE buffer = {}
      <4>1. UNCHANGED <<segments, refused, gone>>
        BY <2>8, <3>2 DEF Finish
      <4> QED BY <3>1, <3>2, <4>1 DEF segments, OnFile, Holds, Excused
    <3>3. CASE buffer # {}
      <4>1. AppendToStore(cur)
        BY <2>8, <3>3 DEF Finish
      <4> QED BY <2>5, <3>1, <4>1
    <3> QED BY <3>2, <3>3
  <2>9. CASE Crash
    <3>1. /\ streamed' = streamed /\ refused' = refused
          /\ store \subseteq store' /\ misplaced \subseteq misplaced'
          /\ gone \subseteq gone' /\ cur \in gone'
          /\ phase = "store" => \/ cur - 1 \in gone'
                               \/ Finished(cur - 1) \in store' \cup misplaced'
      BY <2>9 DEF Crash, Reset
    <3> SUFFICES ASSUME NEW x \in streamed PROVE (OnFile(x) \/ Excused(x))'
      BY <3>1
    <3>2. CASE OnFile(x)
      BY <3>1, <3>2 DEF OnFile, Holds
    <3>3. CASE Excused(x)
      BY <3>1, <3>3 DEF Excused
    <3>4. CASE InBuffer(x) /\ x.seq = cur
      BY <3>1, <3>4 DEF Excused
    <3>5. CASE InBuffer(x) /\ phase = "store" /\ x.seq = cur - 1
      <4>1. Holds(Finished(cur - 1), x)
        BY <3>5 DEF Holds, Finished
      <4> QED BY <3>1, <3>5, <4>1 DEF OnFile, Holds, Excused
    <3> QED BY <3>2, <3>3, <3>4, <3>5
  <2>10. CASE UNCHANGED vars
    BY <2>10 DEF vars, memory, disk, segments, history, OnFile, Holds, Excused
  <2> QED BY <2>1, <2>2, <2>3, <2>4, <2>6, <2>7, <2>8, <2>9, <2>10 DEF Next
<1>3. SafetyInv /\ Inv => EveryFrameAccounted
  <2> SUFFICES ASSUME SafetyInv, Inv, NEW x \in streamed, ~InBuffer(x)
               PROVE  \/ \E g \in store : Holds(g, x)
                      \/ x.seq \in gone \cup refused
                      \/ /\ \E g \in misplaced : Holds(g, x)
                         /\ \E s \in refused : s < x.seq
    BY DEF EveryFrameAccounted
  <2> QED BY AccountedBy
<1> QED BY SafetyInvariant, <1>1, <1>2, <1>3, PTL DEF Spec
=============================================================================
