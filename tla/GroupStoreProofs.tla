------------------------- MODULE GroupStoreProofs --------------------------
(***************************************************************************)
(* Machine-checked proofs about GroupStore.tla for all sequences, bodies,  *)
(* segment sizes, budgets, readers and numbers of crashes, when appends    *)
(* succeed or the process dies in them (AppendMayFail = FALSE); and, at    *)
(* the end, what remains true of one run of the process whose appends may  *)
(* also fail half-way (MaxCrashes = 0).                                    *)
(***************************************************************************)
EXTENDS GroupStore, FiniteSetTheorems, SequenceTheorems, TLAPS

Cell == [group : Groups, at : 1 .. MaxBody + 1]

(* A file is a row of records, of which only the last may be cut short:    *)
(* every cell finds the others of its record where they belong.            *)
Laid(file) ==
  /\ file \in Seq(Cell)
  /\ \A i \in 1 .. Len(file) :
       /\ file[i].at <= file[i].group.n + 1 /\ file[i].at <= i
       /\ \A j \in 1 .. file[i].group.n + 1 :
            i - file[i].at + j <= Len(file) =>
              file[i - file[i].at + j] = [group |-> file[i].group, at |-> j]

(* The last record is not cut short.                                       *)
Uncut(file) ==
  file # <<>> => file[Len(file)].at = file[Len(file)].group.n + 1

(* Where the whole records begin.                                          *)
Whole(file) ==
  {o \in 0 .. Len(file) - 1 : file[o + 1].at = 1 /\ RecordEnd(file, o) <= Len(file)}

(* The groups of the whole records.                                        *)
Records(file) == {GroupAt(file, o) : o \in Whole(file)}

(* What the file named p holds agrees with its name, with the highest      *)
(* sequence h and with the clock t; sequences and times grow within it,    *)
(* and no sequence has two records in it.                                  *)
InOrder(file, p, h, t) ==
  /\ \A i \in 1 .. Len(file) :
       /\ file[i].group.v2 = p.v2
       /\ p.stem <= file[i].group.seq /\ file[i].group.seq <= h
       /\ file[i].group.ms <= t
  /\ \A i, j \in 1 .. Len(file) : i <= j =>
       /\ file[i].group.seq <= file[j].group.seq
       /\ file[i].group.ms <= file[j].group.ms
       /\ file[i].group.seq = file[j].group.seq => i - file[i].at = j - file[j].at

(* Files follow each other as their names do.                              *)
Apart(d) ==
  \A p, q \in DOMAIN d :
    /\ p.stem = q.stem => p = q
    /\ p.stem < q.stem => \A i \in 1 .. Len(d[p]) : d[p][i].group.seq < q.stem

(* The files d of a store, torn or not.                                    *)
DiskOK(d, h, t) ==
  /\ IsFiniteSet(DOMAIN d) /\ DOMAIN d \subseteq Paths
  /\ h \in -1 .. MaxSeq /\ t \in Nat
  /\ \A p \in DOMAIN d : Laid(d[p]) /\ InOrder(d[p], p, h, t) /\ p.stem <= h
  /\ Apart(d)

AckedOK ==
  \A a \in acked : a.path \in DOMAIN disk /\ a.group \in Records(disk[a.path])

Segment == [path : Paths, v2 : BOOLEAN, first : Seqs, newest : Nat, bytes : Nat]

(* A segment describes its file: the logical end is the physical one, and  *)
(* newest is the time of the newest group.                                 *)
Describes(seg, file, h) ==
  /\ seg.v2 = seg.path.v2 /\ seg.bytes = Len(file) /\ seg.first <= h
  /\ \A c \in 1 .. Len(file) : file[c].group.ms <= seg.newest
  /\ seg.newest = 0 \/ \E c \in 1 .. Len(file) : file[c].group.ms = seg.newest

(* The segments are the files in order, and no group of a segment or of a  *)
(* later one is below its first sequence.                                  *)
SegmentsOK(segs, d, h) ==
  /\ segs \in Seq(Segment)
  /\ DOMAIN d = {segs[i].path : i \in 1 .. Len(segs)}
  /\ \A i \in 1 .. Len(segs) : Describes(segs[i], d[segs[i].path], h)
  /\ \A i, j \in 1 .. Len(segs) :
       /\ i < j => segs[i].path.stem < segs[j].path.stem
       /\ i <= j => \A c \in 1 .. Len(d[segs[j].path]) :
                      segs[i].first <= d[segs[j].path][c].group.seq

(* Every whole record is in the index, at its place.                       *)
IndexOK(idx, m, segs, d) ==
  /\ \A s \in DOMAIN idx : idx[s] \in [segment : 1 .. Len(segs), offset : Nat, ms : Nat]
  /\ \A i \in 1 .. Len(segs) : \A o \in Whole(d[segs[i].path]) :
       LET s == GroupAt(d[segs[i].path], o).seq IN
       /\ s \in DOMAIN idx /\ idx[s].segment = i /\ idx[s].offset = o
       /\ s <= m
  /\ m \in Int

Below(d, h) == \A p \in DOMAIN d : \A i \in 1 .. Len(d[p]) : d[p][i].group.seq < h

(* The operation in progress: an append goes to the newest file, and its   *)
(* group is newer than everything on disk.                                 *)
OpOK ==
  \/ op = Idle
  \/ /\ op.kind = "append" /\ op.group \in Groups /\ op.group.v2
     /\ op.group.seq = hw /\ op.group.ms = clock
     /\ segments # <<>> /\ segments[Len(segments)].path.v2
     /\ Below(disk, hw)
  \/ op.kind = "gc" /\ op.cutoff \in Nat /\ op.maxBytes \in Nat

AllUncut(d) == \A p \in DOMAIN d : Uncut(d[p])

RunningOK ==
  /\ AllUncut(disk)
  /\ SegmentsOK(segments, disk, hw)
  /\ IndexOK(index, maxSeq, segments, disk)
  /\ pending = <<>>
  /\ OpOK

StoppedOK == segments = <<>> /\ index = <<>> /\ pending = <<>> /\ op = Idle

LocatedOK ==
  /\ DOMAIN located = Readers
  /\ \A r \in Readers : located[r] # None => located[r].loc.offset \in Nat

(* The inductive invariant.                                                *)
IInv ==
  /\ DiskOK(disk, hw, clock)
  /\ AckedOK
  /\ up => RunningOK
  /\ ~up => StoppedOK
  /\ LocatedOK

-----------------------------------------------------------------------------
(* A bounded set of naturals has a greatest element.                       *)
LEMMA Greatest ==
  ASSUME NEW n \in Nat, NEW S \in SUBSET (0 .. n), S # {}
  PROVE  Max(S) \in S /\ \A y \in S : y <= Max(S)
<1> DEFINE T == {n - x : x \in S}
<1>1. T \in SUBSET Nat /\ T # {}
  <2>1. \A x \in S : n - x \in Nat
    OBVIOUS
  <2>2. PICK x \in S : TRUE
    OBVIOUS
  <2> QED BY <2>1, <2>2
<1>2. PICK m \in T : \A k \in T : <<k, m>> \notin OpToRel(<, Nat)
  <2> HIDE DEF T
  <2> QED BY <1>1, WFMin, NatLessThanWellFounded, Zenon
<1>3. \A k \in T : ~(k < m)
  BY <1>1, <1>2, Zenon DEF OpToRel
<1>4. PICK x \in S : m = n - x
  OBVIOUS
<1>5. ASSUME NEW y \in S PROVE y <= x
  <2>1. ~(n - y < n - x)
    BY <1>3, <1>4
  <2> QED BY <2>1
<1>6. \A y \in S : x >= y
  BY <1>5
<1>7. Max(S) \in S /\ \A y \in S : Max(S) >= y
  BY <1>6 DEF Max
<1> QED BY <1>7

(* What cells and records are.                                             *)
LEMMA CellIs ==
  ASSUME NEW c \in Cell
  PROVE  /\ c.group \in Groups /\ c.at \in Nat \ {0}
         /\ c = [group |-> c.group, at |-> c.at]
  BY StoreAssumption DEF Cell

LEMMA GroupIs ==
  ASSUME NEW g \in Groups
  PROVE  /\ g.n \in Nat \ {0} /\ g.n <= MaxBody /\ g.seq \in 0 .. MaxSeq
         /\ g.ms \in Nat /\ g.v2 \in BOOLEAN
         /\ MaxSeq \in Nat /\ MaxBody \in Nat
  BY StoreAssumption DEF Groups, Seqs

LEMMA EncodeIs ==
  ASSUME NEW g \in Groups
  PROVE  /\ Encode(g) \in Seq(Cell) /\ Len(Encode(g)) = g.n + 1
         /\ \A j \in 1 .. g.n + 1 : Encode(g)[j] = [group |-> g, at |-> j]
<1>1. g.n + 1 \in Nat /\ 1 .. g.n + 1 \subseteq 1 .. MaxBody + 1
  BY GroupIs
<1>2. \A j \in 1 .. g.n + 1 : [group |-> g, at |-> j] \in Cell
  BY <1>1 DEF Cell
<1> QED BY <1>1, <1>2 DEF Encode

(* What a laid file says of a cell.                                        *)
LEMMA LaidIs ==
  ASSUME NEW file, Laid(file)
  PROVE  /\ Len(file) \in Nat /\ file \in Seq(Cell)
         /\ \A i \in 1 .. Len(file) :
              /\ file[i].group \in Groups /\ file[i].at \in Nat \ {0}
              /\ file[i].group.n \in Nat \ {0}
              /\ file[i].at <= file[i].group.n + 1 /\ file[i].at <= i
              /\ \A j \in 1 .. file[i].group.n + 1 :
                   i - file[i].at + j <= Len(file) =>
                     /\ file[i - file[i].at + j].group = file[i].group
                     /\ file[i - file[i].at + j].at = j
<1>1. Len(file) \in Nat /\ file \in Seq(Cell)
  BY DEF Laid
<1>2. ASSUME NEW i \in 1 .. Len(file)
      PROVE  /\ file[i].group \in Groups /\ file[i].at \in Nat \ {0}
             /\ file[i].group.n \in Nat \ {0}
             /\ file[i].at <= file[i].group.n + 1 /\ file[i].at <= i
             /\ \A j \in 1 .. file[i].group.n + 1 :
                  i - file[i].at + j <= Len(file) =>
                    /\ file[i - file[i].at + j].group = file[i].group
                    /\ file[i - file[i].at + j].at = j
  <2>1. file[i] \in Cell
    BY <1>1
  <2>2. file[i].group \in Groups /\ file[i].at \in Nat \ {0} /\ file[i].group.n \in Nat \ {0}
    BY <2>1, CellIs, GroupIs
  <2>3. ASSUME NEW j \in 1 .. file[i].group.n + 1, i - file[i].at + j <= Len(file)
        PROVE  /\ file[i - file[i].at + j].group = file[i].group
               /\ file[i - file[i].at + j].at = j
    <3>1. file[i - file[i].at + j] = [group |-> file[i].group, at |-> j]
      BY <2>3 DEF Laid
    <3> QED BY <3>1
  <2>4. file[i].at <= file[i].group.n + 1 /\ file[i].at <= i
    BY DEF Laid
  <2> QED BY <2>2, <2>3, <2>4
<1> QED BY <1>1, <1>2

(* A header in a laid file is followed by the cells of its record, as far  *)
(* as the file goes.                                                       *)
LEMMA RecordIs ==
  ASSUME NEW file, Laid(file), NEW o \in 0 .. Len(file) - 1, file[o + 1].at = 1
  PROVE  /\ GroupAt(file, o) \in Groups /\ GroupAt(file, o).n \in Nat \ {0}
         /\ RecordEnd(file, o) = o + GroupAt(file, o).n + 1
         /\ \A j \in 1 .. GroupAt(file, o).n + 1 : o + j <= Len(file) =>
              file[o + j].group = GroupAt(file, o) /\ file[o + j].at = j
<1>1. Len(file) \in Nat /\ o + 1 \in 1 .. Len(file)
  BY LaidIs
<1> DEFINE i == o + 1
<1>2. /\ i \in 1 .. Len(file) /\ file[i].at = 1 /\ i - 1 = o
  BY <1>1
<1> HIDE DEF i
<1>3. /\ file[i].group \in Groups /\ file[i].group.n \in Nat \ {0}
      /\ \A j \in 1 .. file[i].group.n + 1 : i - 1 + j <= Len(file) =>
           file[i - 1 + j].group = file[i].group /\ file[i - 1 + j].at = j
  <2>1. file[i].group \in Groups /\ file[i].group.n \in Nat \ {0}
    BY <1>2, LaidIs
  <2>2. ASSUME NEW j \in 1 .. file[i].group.n + 1, i - 1 + j <= Len(file)
        PROVE  file[i - 1 + j].group = file[i].group /\ file[i - 1 + j].at = j
    <3>1. file[i - 1 + j] = [group |-> file[i].group, at |-> j]
      BY <1>2, <2>2 DEF Laid
    <3> QED BY <3>1
  <2> QED BY <2>1, <2>2
<1>4. GroupAt(file, o) = file[i].group
  BY DEF GroupAt, i
<1>5. RecordEnd(file, o) = o + (GroupAt(file, o).n + 1)
  BY <1>3, <1>4, EncodeIs DEF RecordEnd
<1> QED BY <1>1, <1>2, <1>3, <1>4, <1>5

(* The record a cell belongs to begins at a header.                        *)
LEMMA HeadOf ==
  ASSUME NEW file, Laid(file), NEW i \in 1 .. Len(file)
  PROVE  LET o == i - file[i].at IN
         /\ o \in 0 .. Len(file) - 1 /\ file[o + 1].at = 1
         /\ GroupAt(file, o) = file[i].group
         /\ i <= RecordEnd(file, o) /\ RecordEnd(file, o) = o + file[i].group.n + 1
<1> DEFINE o == i - file[i].at
<1>1. /\ Len(file) \in Nat /\ file[i].at \in Nat \ {0} /\ file[i].group.n \in Nat \ {0}
      /\ file[i].at <= file[i].group.n + 1 /\ file[i].at <= i
      /\ \A j \in 1 .. file[i].group.n + 1 : o + j <= Len(file) =>
           file[o + j].group = file[i].group /\ file[o + j].at = j
  BY LaidIs
<1>2. o \in 0 .. Len(file) - 1 /\ o + 1 <= Len(file) /\ 1 \in 1 .. file[i].group.n + 1
  BY <1>1
<1>3. file[o + 1].at = 1 /\ GroupAt(file, o) = file[i].group
  BY <1>1, <1>2 DEF GroupAt
<1> HIDE DEF o
<1>4. RecordEnd(file, o) = o + file[i].group.n + 1
  BY <1>2, <1>3, RecordIs
<1> QED BY SMTT(40), <1>1, <1>2, <1>3, <1>4 DEF o

-----------------------------------------------------------------------------
(* The scan.                                                               *)

(* The recursive function of ScanOffsets at an offset.                     *)
ScanStep(file, v2, f, o) ==
  IF HeaderAt(file, v2, o) /\ RecordEnd(file, o) <= Len(file)
  THEN {o} \cup f[RecordEnd(file, o)] ELSE {}

IsScan(file, v2, f) == f = [o \in 0 .. Len(file) |-> ScanStep(file, v2, f, o)]

LEMMA ScanChoice ==
  ASSUME NEW file, NEW v2
  PROVE  ScanOffsets(file, v2) = (CHOOSE f : IsScan(file, v2, f))[0]
  BY DEF ScanOffsets, IsScan, ScanStep

(* No header lies inside another record.                                   *)
LEMMA HeadersApart ==
  ASSUME NEW file, Laid(file), NEW o \in 0 .. Len(file) - 1, file[o + 1].at = 1,
         NEW x \in 0 .. Len(file) - 1, file[x + 1].at = 1, o < x
  PROVE  RecordEnd(file, o) <= x
<1>1. /\ GroupAt(file, o).n \in Nat \ {0} /\ RecordEnd(file, o) = o + GroupAt(file, o).n + 1
      /\ \A j \in 1 .. GroupAt(file, o).n + 1 : o + j <= Len(file) => file[o + j].at = j
  BY RecordIs
<1>2. Len(file) \in Nat
  BY LaidIs
<1> SUFFICES ASSUME x < RecordEnd(file, o) PROVE FALSE
  BY <1>1, <1>2
<1>3. x + 1 - o \in 1 .. GroupAt(file, o).n + 1 /\ o + (x + 1 - o) = x + 1 /\ x + 1 <= Len(file)
  BY <1>1, <1>2
<1>4. file[x + 1].at = x + 1 - o
  BY <1>1, <1>3
<1> QED BY <1>2, <1>4

(* What follows a record that does not end the file is a header.           *)
LEMMA NextHeader ==
  ASSUME NEW file, Laid(file), NEW o \in Whole(file), RecordEnd(file, o) # Len(file)
  PROVE  RecordEnd(file, o) \in 0 .. Len(file) - 1 /\ file[RecordEnd(file, o) + 1].at = 1
<1> DEFINE e == RecordEnd(file, o)
<1>1. /\ o \in 0 .. Len(file) - 1 /\ file[o + 1].at = 1 /\ e <= Len(file)
  BY DEF Whole
<1>2. /\ GroupAt(file, o).n \in Nat \ {0} /\ e = o + GroupAt(file, o).n + 1
      /\ \A j \in 1 .. GroupAt(file, o).n + 1 : o + j <= Len(file) =>
           file[o + j].group = GroupAt(file, o) /\ file[o + j].at = j
  BY <1>1, RecordIs
<1>3. Len(file) \in Nat
  BY LaidIs
<1> HIDE DEF e
<1>4. e \in 0 .. Len(file) - 1 /\ e + 1 \in 1 .. Len(file)
  BY <1>1, <1>2, <1>3 DEF e
<1> DEFINE h == e + 1 - file[e + 1].at
<1>5. /\ h \in 0 .. Len(file) - 1 /\ file[h + 1].at = 1 /\ e + 1 <= RecordEnd(file, h)
      /\ file[e + 1].at \in Nat \ {0}
  BY <1>4, HeadOf, LaidIs
<1> HIDE DEF h
<1>6. ~(o < h /\ h < e)
  <2> SUFFICES ASSUME o < h PROVE e <= h
    BY <1>1, <1>2, <1>3, <1>5
  <2> QED BY <1>1, <1>5, HeadersApart DEF e
<1>7. ~(h < o)
  <2> SUFFICES ASSUME h < o PROVE FALSE
    OBVIOUS
  <2>1. RecordEnd(file, h) <= o
    BY <1>1, <1>5, HeadersApart
  <2>2. RecordEnd(file, h) \in Int
    BY <1>5, RecordIs
  <2> QED BY SMTT(40), <1>1, <1>2, <1>3, <1>4, <1>5, <2>1, <2>2
<1>8. h # o
  <2> SUFFICES ASSUME h = o PROVE FALSE
    OBVIOUS
  <2>1. e + 1 <= e
    BY <1>5 DEF e
  <2> QED BY <1>4, <2>1
<1>9. h = e
  <2>1. h <= e /\ h \in Int /\ o \in Int /\ e \in Int
    BY <1>1, <1>4, <1>5 DEF h
  <2> QED BY <1>6, <1>7, <1>8, <2>1
<1> QED BY <1>4, <1>5, <1>9 DEF e

(* In a laid file the function gives, at every header and at the end, the  *)
(* whole records from there on.                                            *)
From(file, o) == {x \in Whole(file) : o <= x}

Matches(file, v2) == \A i \in 1 .. Len(file) : file[i].group.v2 = v2

LEMMA ScanStepIs ==
  ASSUME NEW file, NEW v2, Laid(file), Matches(file, v2), NEW f,
         NEW o \in 0 .. Len(file) - 1, file[o + 1].at = 1,
         o \in Whole(file) => f[RecordEnd(file, o)] = From(file, RecordEnd(file, o))
  PROVE  ScanStep(file, v2, f, o) = From(file, o)
<1>1. Len(file) \in Nat /\ o + 1 \in 1 .. Len(file)
  BY LaidIs
<1>2. HeaderAt(file, v2, o)
  BY <1>1 DEF HeaderAt, Matches
<1>3. RecordEnd(file, o) = o + GroupAt(file, o).n + 1 /\ GroupAt(file, o).n \in Nat \ {0}
  BY RecordIs
<1>4. \A x \in Whole(file) : x \in 0 .. Len(file) - 1 /\ file[x + 1].at = 1
  BY DEF Whole
<1>5. CASE o \in Whole(file)
  <2>1. RecordEnd(file, o) <= Len(file)
    BY <1>5 DEF Whole
  <2>2. ASSUME NEW x \in Whole(file), o < x PROVE RecordEnd(file, o) <= x
    BY <1>4, <2>2, HeadersApart
  <2>3. From(file, o) = {o} \cup From(file, RecordEnd(file, o))
    <3>1. \A x \in Whole(file) : o <= x <=> (x = o \/ RecordEnd(file, o) <= x)
      BY <1>1, <1>3, <1>4, <2>2
    <3> QED BY <1>5, <3>1 DEF From
  <2> QED BY <1>2, <1>5, <2>1, <2>3 DEF ScanStep
<1>6. CASE o \notin Whole(file)
  <2>1. ~(RecordEnd(file, o) <= Len(file))
    BY <1>6 DEF Whole
  <2>2. ASSUME NEW x \in Whole(file), o <= x PROVE FALSE
    <3>1. o < x
      BY <1>1, <1>4, <1>6, <2>2
    <3>2. RecordEnd(file, o) <= x
      BY <1>4, <3>1, HeadersApart
    <3> QED BY <1>1, <1>3, <1>4, <2>1, <3>2
  <2> QED BY <2>1, <2>2 DEF ScanStep, From
<1> QED BY <1>5, <1>6

LEMMA ScanExists ==
  ASSUME NEW file, NEW v2, Laid(file), Matches(file, v2)
  PROVE  \E f : IsScan(file, v2, f)
<1> DEFINE F == [o \in 0 .. Len(file) |->
                   IF o < Len(file) /\ file[o + 1].at = 1 THEN From(file, o) ELSE {}]
<1>0. Len(file) \in Nat
  BY LaidIs
<1>1. ASSUME NEW o \in 0 .. Len(file) PROVE F[o] = ScanStep(file, v2, F, o)
  <2>1. CASE o < Len(file) /\ file[o + 1].at = 1
    <3>1. o \in 0 .. Len(file) - 1 /\ F[o] = From(file, o)
      BY <1>0, <2>1
    <3>2. ASSUME o \in Whole(file) PROVE F[RecordEnd(file, o)] = From(file, RecordEnd(file, o))
      <4>1. CASE RecordEnd(file, o) # Len(file)
        <5>1. RecordEnd(file, o) \in 0 .. Len(file) - 1 /\ file[RecordEnd(file, o) + 1].at = 1
          BY <3>2, <4>1, NextHeader
        <5> QED BY <1>0, <5>1
      <4>2. CASE RecordEnd(file, o) = Len(file)
        <5>1. F[Len(file)] = {}
          BY <1>0
        <5>2. From(file, Len(file)) = {}
          BY <1>0 DEF From, Whole
        <5> QED BY <4>2, <5>1, <5>2
      <4> QED BY <4>1, <4>2
    <3> HIDE DEF F
    <3> QED BY <2>1, <3>1, <3>2, ScanStepIs
  <2>2. CASE ~(o < Len(file) /\ file[o + 1].at = 1)
    BY <2>2 DEF ScanStep, HeaderAt
  <2> QED BY <2>1, <2>2
<1>2. F = [o \in 0 .. Len(file) |-> F[o]]
  OBVIOUS
<1> HIDE DEF F
<1>3. F = [o \in 0 .. Len(file) |-> ScanStep(file, v2, F, o)]
  BY <1>1, <1>2
<1> QED BY <1>3 DEF IsScan

(* The scan finds the whole records of a laid file.                        *)
LEMMA ScanFinds ==
  ASSUME NEW file, NEW v2, Laid(file), Matches(file, v2)
  PROVE  ScanOffsets(file, v2) = Whole(file)
<1> DEFINE f == CHOOSE g : IsScan(file, v2, g)
<1>0. Len(file) \in Nat
  BY LaidIs
<1>1. IsScan(file, v2, f)
  BY ScanExists
<1>2. ScanOffsets(file, v2) = f[0]
  BY ScanChoice
<1> HIDE DEF f
<1>3. \A o \in 0 .. Len(file) : f[o] = ScanStep(file, v2, f, o)
  BY <1>1 DEF IsScan
<1> DEFINE Heads == {o \in 0 .. Len(file) - 1 : file[o + 1].at = 1}
           Bad   == {o \in Heads : f[o] # From(file, o)}
<1>4. Bad = {}
  <2> SUFFICES ASSUME Bad # {} PROVE FALSE
    OBVIOUS
  <2>1. Bad \in SUBSET (0 .. Len(file)) /\ Bad \subseteq Heads
    BY <1>0
  <2>2. Max(Bad) \in Bad /\ \A y \in Bad : y <= Max(Bad)
    <3> HIDE DEF Bad
    <3> QED BY <1>0, <2>1, Greatest
  <2> DEFINE o == Max(Bad)
  <2>3. /\ o \in 0 .. Len(file) - 1 /\ file[o + 1].at = 1 /\ f[o] # From(file, o)
        /\ \A y \in Heads : o < y => f[y] = From(file, y)
    <3>1. o \in Bad /\ o \in 0 .. Len(file) - 1
      BY <2>2
    <3>2. ASSUME NEW y \in Heads, o < y PROVE y \notin Bad
      BY <1>0, <2>2, <3>1, <3>2
    <3> QED BY <3>1, <3>2
  <2> HIDE DEF Bad, o
  <2>4. ASSUME o \in Whole(file) PROVE f[RecordEnd(file, o)] = From(file, RecordEnd(file, o))
    <3>1. CASE RecordEnd(file, o) # Len(file)
      <4>1. RecordEnd(file, o) \in Heads
        BY <2>4, <3>1, NextHeader
      <4>2. o < RecordEnd(file, o)
        BY <1>0, <2>3, RecordIs
      <4> QED BY <2>3, <4>1, <4>2
    <3>2. CASE RecordEnd(file, o) = Len(file)
      <4>1. f[Len(file)] = {}
        <5>1. ~HeaderAt(file, v2, Len(file)) /\ Len(file) \in 0 .. Len(file)
          BY <1>0 DEF HeaderAt
        <5> QED BY <1>3, <5>1 DEF ScanStep
      <4>2. From(file, Len(file)) = {}
        BY <1>0 DEF From, Whole
      <4> QED BY <3>2, <4>1, <4>2
    <3> QED BY <3>1, <3>2
  <2>5. ScanStep(file, v2, f, o) = From(file, o)
    BY <2>3, <2>4, ScanStepIs
  <2> QED BY <1>0, <1>3, <2>3, <2>5
<1>5. From(file, 0) = Whole(file)
  BY DEF From, Whole
<1>6. CASE Len(file) = 0
  <2>1. f[0] = {}
    BY <1>3, <1>6 DEF ScanStep, HeaderAt
  <2>2. Whole(file) = {}
    BY <1>6 DEF Whole
  <2> QED BY <1>2, <2>1, <2>2
<1>7. CASE Len(file) # 0
  <2>1. file[1].at = 1
    BY <1>0, <1>7, LaidIs
  <2>2. 0 \in Heads
    BY <1>0, <1>7, <2>1
  <2> QED BY <1>2, <1>4, <1>5, <2>2
<1> QED BY <1>6, <1>7

-----------------------------------------------------------------------------
(* Where the scan ends: behind the last whole record.                      *)
LEMMA EndIs ==
  ASSUME NEW file, NEW v2, Laid(file), Matches(file, v2)
  PROVE  LET e == ScanEnd(file, v2) IN
         /\ e \in 0 .. Len(file)
         /\ \A o \in Whole(file) : RecordEnd(file, o) <= e
         /\ e # 0 => \E o \in Whole(file) : RecordEnd(file, o) = e
         /\ Whole(file) # {} => \A o \in Whole(file) : o <= Max(Whole(file))
         /\ Whole(file) # {} => Max(Whole(file)) \in Whole(file)
<1> DEFINE e == ScanEnd(file, v2)
           m == Max(Whole(file))
<1>0. Len(file) \in Nat
  BY LaidIs
<1>1. \A o \in Whole(file) : /\ o \in 0 .. Len(file) - 1 /\ file[o + 1].at = 1
                             /\ RecordEnd(file, o) <= Len(file)
  BY DEF Whole
<1>2. \A o \in Whole(file) : RecordEnd(file, o) \in Nat /\ o < RecordEnd(file, o)
  BY <1>0, <1>1, RecordIs
<1>3. e = IF Whole(file) = {} THEN 0 ELSE RecordEnd(file, m)
  BY ScanFinds DEF ScanEnd
<1>4. CASE Whole(file) = {}
  BY <1>0, <1>3, <1>4
<1>5. CASE Whole(file) # {}
  <2>1. m \in Whole(file) /\ \A o \in Whole(file) : o <= m
    <3>1. Whole(file) \in SUBSET (0 .. Len(file))
      BY <1>0 DEF Whole
    <3> QED BY <1>0, <1>5, <3>1, Greatest
  <2>2. e = RecordEnd(file, m)
    BY <1>3, <1>5
  <2> HIDE DEF e, m
  <2>3. e \in 0 .. Len(file)
    BY <1>0, <1>1, <1>2, <2>1, <2>2
  <2>4. ASSUME NEW o \in Whole(file) PROVE RecordEnd(file, o) <= e
    <3>1. CASE o = m
      BY <2>2, <2>3, <3>1
    <3>2. CASE o # m
      <4>1. o < m
        BY <1>1, <2>1, <3>2
      <4>2. RecordEnd(file, o) <= m
        BY <1>1, <2>1, <4>1, HeadersApart
      <4> QED BY <1>0, <1>1, <1>2, <2>1, <2>2, <4>2
    <3> QED BY <3>1, <3>2
  <2>5. /\ e \in 0 .. Len(file)
        /\ \A o \in Whole(file) : RecordEnd(file, o) <= e
        /\ \E o \in Whole(file) : RecordEnd(file, o) = e
        /\ \A o \in Whole(file) : o <= m
        /\ m \in Whole(file)
    BY <2>1, <2>2, <2>3, <2>4
  <2> QED BY <2>5 DEF e, m
<1> QED BY <1>4, <1>5

(* A cell before that end belongs to a whole record.                       *)
LEMMA CellsBeforeEnd ==
  ASSUME NEW file, NEW v2, Laid(file), Matches(file, v2), NEW i \in 1 .. ScanEnd(file, v2)
  PROVE  /\ i \in 1 .. Len(file) /\ i - file[i].at \in Whole(file)
         /\ RecordEnd(file, i - file[i].at) <= ScanEnd(file, v2)
<1> DEFINE e == ScanEnd(file, v2)
           h == i - file[i].at
<1>0. Len(file) \in Nat /\ e \in 0 .. Len(file) /\ i \in 1 .. Len(file) /\ e # 0
  BY LaidIs, EndIs
<1>1. PICK m \in Whole(file) : RecordEnd(file, m) = e
  BY <1>0, EndIs
<1>2. /\ m \in 0 .. Len(file) - 1 /\ file[m + 1].at = 1
  BY DEF Whole
<1>3. /\ h \in 0 .. Len(file) - 1 /\ file[h + 1].at = 1 /\ i <= RecordEnd(file, h)
      /\ file[i].at \in Nat \ {0}
  BY <1>0, HeadOf, LaidIs
<1>5. i <= e /\ h < i
  BY <1>0, <1>3
<1> HIDE DEF h, e
<1>4. RecordEnd(file, h) \in Int /\ h < i
  <2>1. GroupAt(file, h).n \in Nat /\ RecordEnd(file, h) = h + GroupAt(file, h).n + 1
    BY <1>3, RecordIs
  <2> QED BY <1>3, <1>5, <2>1
<1>6. ~(m < h)
  <2> SUFFICES ASSUME m < h PROVE FALSE
    OBVIOUS
  <2>1. e <= h
    BY <1>1, <1>2, <1>3, HeadersApart
  <2> QED BY <1>0, <1>3, <1>4, <1>5, <2>1
<1>7. CASE h = m
  BY <1>0, <1>1, <1>7 DEF h, e
<1>8. CASE h < m
  <2>1. RecordEnd(file, h) <= m
    BY <1>2, <1>3, <1>8, HeadersApart
  <2>2. h \in Whole(file)
    BY <1>0, <1>2, <1>3, <1>4, <2>1 DEF Whole
  <2>3. RecordEnd(file, h) <= e
    BY <2>2, EndIs DEF e
  <2> QED BY <1>0, <2>2, <2>3 DEF h, e
<1> QED BY <1>2, <1>3, <1>6, <1>7, <1>8

(* The first e elements of a sequence.                                     *)
LEMMA PrefixIs ==
  ASSUME NEW S, NEW s \in Seq(S), NEW e \in 0 .. Len(s)
  PROVE  /\ SubSeq(s, 1, e) \in Seq(S) /\ Len(SubSeq(s, 1, e)) = e
         /\ \A i \in 1 .. e : SubSeq(s, 1, e)[i] = s[i]
<1>1. 1 \in 1 .. Len(s) + 1 /\ e \in 1 - 1 .. Len(s) /\ e - 1 + 1 = e
  BY LenProperties
<1>2. /\ SubSeq(s, 1, e) \in Seq(S) /\ Len(SubSeq(s, 1, e)) = e - 1 + 1
      /\ \A i \in 1 .. e - 1 + 1 : SubSeq(s, 1, e)[i] = s[1 + i - 1]
  BY <1>1, SubSeqProperties
<1>3. \A i \in 1 .. e : 1 + i - 1 = i
  BY <1>1
<1> QED BY <1>1, <1>2, <1>3

(* Is cut what open leaves of the file?                                    *)
IsCut(file, v2, cut) == cut = SubSeq(file, 1, ScanEnd(file, v2))

(* What open leaves of a file is laid, uncut, and holds the same records.  *)
LEMMA CutIs ==
  ASSUME NEW file, NEW v2, Laid(file), Matches(file, v2), NEW cut,
         IsCut(file, v2, cut)
  PROVE  /\ Laid(cut) /\ Uncut(cut) /\ Len(cut) = ScanEnd(file, v2)
         /\ \A i \in 1 .. Len(cut) : cut[i] = file[i] /\ i \in 1 .. Len(file)
         /\ Whole(cut) = Whole(file)
         /\ \A o \in Whole(file) : GroupAt(cut, o) = GroupAt(file, o)
<1> DEFINE e == ScanEnd(file, v2)
<1>0. Len(file) \in Nat /\ file \in Seq(Cell) /\ e \in 0 .. Len(file)
  BY LaidIs, EndIs
<1>1. /\ cut \in Seq(Cell) /\ Len(cut) = e /\ \A i \in 1 .. e : cut[i] = file[i] /\ i \in 1 .. Len(file)
  <2> HIDE DEF e
  <2>1. cut = SubSeq(file, 1, e)
    BY DEF e, IsCut
  <2>2. cut \in Seq(Cell) /\ Len(cut) = e /\ \A i \in 1 .. e : cut[i] = file[i]
    BY <1>0, <2>1, PrefixIs
  <2> QED BY <1>0, <2>2
<1>2. \A i \in 1 .. e : /\ i - file[i].at \in Whole(file)
                        /\ RecordEnd(file, i - file[i].at) <= e
  BY CellsBeforeEnd
<1> HIDE DEF e
<1>3. Laid(cut)
  <2>1. ASSUME NEW i \in 1 .. e
        PROVE  /\ cut[i].at <= cut[i].group.n + 1 /\ cut[i].at <= i
               /\ \A j \in 1 .. cut[i].group.n + 1 :
                    i - cut[i].at + j <= e =>
                      cut[i - cut[i].at + j] = [group |-> cut[i].group, at |-> j]
    <3>1. cut[i] = file[i] /\ i \in 1 .. Len(file)
      BY <1>1
    <3>2. /\ file[i].at <= file[i].group.n + 1 /\ file[i].at <= i
          /\ file[i].at \in Nat \ {0} /\ file[i].group.n \in Nat
      BY <3>1, LaidIs
    <3>3. ASSUME NEW j \in 1 .. file[i].group.n + 1, i - file[i].at + j <= e
          PROVE  cut[i - file[i].at + j] = [group |-> file[i].group, at |-> j]
      <4>1. i - file[i].at + j \in 1 .. e /\ i - file[i].at + j <= Len(file)
        BY <1>0, <3>2, <3>3
      <4>2. file[i - file[i].at + j] = [group |-> file[i].group, at |-> j]
        BY <3>1, <4>1 DEF Laid
      <4> QED BY <1>1, <4>1, <4>2
    <3> QED BY <3>1, <3>2, <3>3
  <2> QED BY <1>1, <2>1 DEF Laid
<1>4. ASSUME NEW o \in 0 .. Len(file) - 1, file[o + 1].at = 1, o + 1 <= e
      PROVE  GroupAt(cut, o) = GroupAt(file, o) /\ RecordEnd(cut, o) = RecordEnd(file, o)
  <2>1. o + 1 \in 1 .. e
    BY <1>0, <1>4
  <2>2. cut[o + 1] = file[o + 1]
    BY <1>1, <2>1
  <2> QED BY <2>2 DEF GroupAt, RecordEnd
<1>5. Whole(cut) \subseteq Whole(file)
  <2> SUFFICES ASSUME NEW o \in Whole(cut) PROVE o \in Whole(file)
    OBVIOUS
  <2>1. o \in 0 .. e - 1 /\ cut[o + 1].at = 1 /\ RecordEnd(cut, o) <= e
    BY <1>1 DEF Whole
  <2>2. o \in 0 .. Len(file) - 1 /\ file[o + 1].at = 1 /\ o + 1 <= e
    BY <1>0, <1>1, <2>1
  <2>3. RecordEnd(file, o) <= e /\ RecordEnd(file, o) \in Int
    BY <1>4, <2>1, <2>2, RecordIs
  <2> QED BY <1>0, <2>2, <2>3 DEF Whole
<1>6. ASSUME NEW o \in Whole(file)
      PROVE  o \in Whole(cut) /\ GroupAt(cut, o) = GroupAt(file, o)
  <2>1. o \in 0 .. Len(file) - 1 /\ file[o + 1].at = 1 /\ RecordEnd(file, o) <= e
    BY EndIs DEF Whole, e
  <2>2. RecordEnd(file, o) = o + GroupAt(file, o).n + 1 /\ GroupAt(file, o).n \in Nat \ {0}
    BY <2>1, RecordIs
  <2>3. o \in 0 .. e - 1 /\ o + 1 \in 1 .. e
    BY <1>0, <2>1, <2>2
  <2>4. GroupAt(cut, o) = GroupAt(file, o) /\ RecordEnd(cut, o) = RecordEnd(file, o)
    BY <1>4, <2>1, <2>3
  <2> QED BY <1>1, <2>1, <2>3, <2>4 DEF Whole
<1>7. Uncut(cut)
  <2> SUFFICES ASSUME cut # <<>> PROVE cut[e].at = cut[e].group.n + 1
    BY <1>1 DEF Uncut
  <2>1. e \in 1 .. e
    BY <1>0, <1>1
  <2>2. cut[e] = file[e] /\ e \in 1 .. Len(file) /\ RecordEnd(file, e - file[e].at) <= e
    BY <1>1, <1>2, <2>1
  <2>3. /\ RecordEnd(file, e - file[e].at) = e - file[e].at + file[e].group.n + 1
    BY <2>2, HeadOf
  <2>4. /\ file[e].at \in Nat /\ file[e].group.n \in Nat
        /\ file[e].at <= file[e].group.n + 1
    BY <2>2, LaidIs
  <2>5. file[e].group.n + 1 <= file[e].at
    BY <1>0, <2>2, <2>3, <2>4
  <2>6. file[e].at = file[e].group.n + 1
    BY <2>4, <2>5
  <2> QED BY <2>2, <2>6
<1> QED BY <1>1, <1>3, <1>5, <1>6, <1>7 DEF e

(* In an uncut file the whole record of every cell is there.               *)
LEMMA RecordsFull ==
  ASSUME NEW file, Laid(file), Uncut(file), NEW i \in 1 .. Len(file),
         NEW j \in 1 .. file[i].group.n + 1
  PROVE  /\ i - file[i].at + j \in 1 .. Len(file)
         /\ file[i - file[i].at + j] = [group |-> file[i].group, at |-> j]
<1> DEFINE L == Len(file)
           a == file[i].at
           n == file[i].group.n
<1>1. L \in Nat /\ a \in Nat \ {0} /\ n \in Nat /\ a <= i /\ a <= n + 1 /\ i \in 1 .. L /\ j \in 1 .. n + 1
  BY LaidIs
<1>2. \A x \in 1 .. n + 1 : i - a + x <= L => file[i - a + x] = [group |-> file[i].group, at |-> x]
  BY DEF Laid
<1> HIDE DEF L, a, n
<1>3. i - a + j <= L
  <2> SUFFICES ASSUME L < i - a + j PROVE FALSE
    BY <1>1
  <2> DEFINE x == L - (i - a)
  <2>1. x \in 1 .. n + 1 /\ i - a + x = L /\ x < n + 1
    BY <1>1
  <2> HIDE DEF x
  <2>2. file[L] = [group |-> file[i].group, at |-> x]
    BY <1>1, <1>2, <2>1
  <2>3. file # <<>>
    BY <1>1 DEF L
  <2>4. file[L].at = x /\ file[L].group.n = n
    BY <2>2 DEF n
  <2>5. x = n + 1
    BY <2>3, <2>4 DEF Uncut, L
  <2> QED BY <1>1, <2>1, <2>5
<1>4. i - a + j \in 1 .. L
  BY <1>1, <1>3
<1>5. file[i - a + j] = [group |-> file[i].group, at |-> j]
  BY <1>1, <1>2, <1>3
<1> QED BY <1>4, <1>5 DEF a, L

(* Is new the file with the first k cells of a record after it?            *)
Grown(file, g, k, new) ==
  /\ new \in Seq(Cell) /\ Len(new) = Len(file) + k
  /\ \A i \in 1 .. Len(file) : new[i] = file[i]
  /\ \A j \in 1 .. k : new[Len(file) + j] = [group |-> g, at |-> j]

(* Growing an uncut file by the first k cells of a record.                 *)
LEMMA GrownIs ==
  ASSUME NEW file, Laid(file), Uncut(file), NEW g \in Groups, NEW k \in 0 .. g.n + 1, NEW new,
         Grown(file, g, k, new)
  PROVE  /\ Laid(new) /\ (k \in {0, g.n + 1} => Uncut(new)) /\ Len(new) = Len(file) + k
         /\ \A i \in 1 .. Len(file) : new[i] = file[i]
         /\ \A j \in 1 .. k : new[Len(file) + j] = [group |-> g, at |-> j]
         /\ Whole(new) = Whole(file) \cup (IF k = g.n + 1 THEN {Len(file)} ELSE {})
         /\ \A o \in Whole(file) : GroupAt(new, o) = GroupAt(file, o)
         /\ k = g.n + 1 => GroupAt(new, Len(file)) = g
<1> DEFINE L == Len(file)
           N == g.n
<1>1. /\ new \in Seq(Cell) /\ Len(new) = L + k
      /\ \A i \in 1 .. L : new[i] = file[i]
      /\ \A j \in 1 .. k : new[L + j] = [group |-> g, at |-> j]
  BY DEF Grown
<1>2. ASSUME NEW i \in 1 .. L, NEW j \in 1 .. file[i].group.n + 1
      PROVE  /\ i - file[i].at + j \in 1 .. L
             /\ file[i - file[i].at + j] = [group |-> file[i].group, at |-> j]
  BY RecordsFull
<1>a. L \in Nat /\ N \in Nat \ {0} /\ k \in 0 .. N + 1 /\ Len(new) = L + k
  BY <1>1, LaidIs, GroupIs
<1>b. \A i \in 1 .. L : new[i] = file[i]
  BY <1>1
<1>c. \A j \in 1 .. k : new[L + j] = [group |-> g, at |-> j]
  BY <1>1
<1>d. \A i \in 1 .. L : /\ file[i].at \in Nat \ {0} /\ file[i].group.n \in Nat \ {0}
                        /\ file[i].at <= file[i].group.n + 1 /\ file[i].at <= i
  BY LaidIs
<1> HIDE DEF L, N
<1>3. Laid(new)
  <2>1. ASSUME NEW i \in 1 .. L + k
        PROVE  /\ new[i].at <= new[i].group.n + 1 /\ new[i].at <= i
               /\ \A j \in 1 .. new[i].group.n + 1 :
                    i - new[i].at + j <= L + k =>
                      new[i - new[i].at + j] = [group |-> new[i].group, at |-> j]
    <3>1. CASE i \in 1 .. L
      <4>1. new[i] = file[i] /\ file[i].at <= file[i].group.n + 1 /\ file[i].at <= i
        BY <1>b, <1>d, <3>1
      <4>2. ASSUME NEW j \in 1 .. file[i].group.n + 1
            PROVE  new[i - file[i].at + j] = [group |-> file[i].group, at |-> j]
        BY <1>2, <1>b, <3>1
      <4> QED BY <4>1, <4>2
    <3>2. CASE i \notin 1 .. L
      <4> DEFINE x == i - L
      <4>1. x \in 1 .. k /\ L + x = i /\ x \in Nat /\ x <= i /\ x <= N + 1
        BY <1>a, <3>2
      <4> HIDE DEF x
      <4>2. new[i] = [group |-> g, at |-> x]
        BY <1>c, <4>1
      <4>3. new[i].at = x /\ new[i].group = g /\ new[i].group.n = N
        BY <4>2 DEF N
      <4>4. ASSUME NEW j \in 1 .. N + 1, i - x + j <= L + k
            PROVE  new[i - x + j] = [group |-> g, at |-> j]
        <5>1. j \in 1 .. k /\ i - x + j = L + j
          BY <1>a, <4>1, <4>4
        <5> QED BY <1>c, <5>1
      <4> QED BY <4>1, <4>3, <4>4
    <3> QED BY <3>1, <3>2
  <2>2. new \in Seq(Cell)
    BY <1>1
  <2> QED BY <1>a, <2>1, <2>2 DEF Laid
<1>4. k \in {0, N + 1} => Uncut(new)
  <2>1. CASE k = 0
    <3>1. L + k = L /\ Len(new) = L
      BY <1>a, <2>1
    <3>2. CASE L = 0
      <4>1. new = <<>>
        BY <1>1, <3>1, <3>2, EmptySeq
      <4> QED BY <4>1 DEF Uncut
    <3>3. CASE L # 0
      <4>1. L \in 1 .. L /\ file # <<>>
        BY <1>a, <3>3 DEF L
      <4> QED BY <1>b, <3>1, <4>1 DEF Uncut, L
    <3> QED BY <3>2, <3>3
  <2>2. CASE k = N + 1
    <3>1. k \in 1 .. k
      BY <1>a, <2>2
    <3>2. new[L + k] = [group |-> g, at |-> N + 1]
      BY <1>c, <2>2, <3>1
    <3>3. new[L + k].at = N + 1 /\ new[L + k].group.n = N
      BY <3>2 DEF N
    <3> QED BY <1>a, <3>3 DEF Uncut
  <2> QED BY <2>1, <2>2
<1>5. ASSUME NEW o \in 0 .. L - 1
      PROVE  /\ new[o + 1] = file[o + 1] /\ GroupAt(new, o) = GroupAt(file, o)
             /\ RecordEnd(new, o) = RecordEnd(file, o)
  <2>1. o + 1 \in 1 .. L
    BY <1>a
  <2>2. new[o + 1] = file[o + 1]
    BY <1>b, <2>1
  <2> QED BY <2>2 DEF GroupAt, RecordEnd
<1>6. ASSUME NEW o \in 0 .. L + k - 1, L <= o, new[o + 1].at = 1
      PROVE  o = L /\ GroupAt(new, o) = g /\ RecordEnd(new, o) = L + N + 1
  <2> DEFINE x == o - L + 1
  <2>1. x \in 1 .. k /\ L + x = o + 1
    BY <1>a, <1>6
  <2>2. new[o + 1] = [group |-> g, at |-> x]
    BY <1>c, <2>1
  <2>3. x = 1
    BY <1>6, <2>2
  <2>4. o = L
    BY <1>a, <2>3
  <2>5. GroupAt(new, o) = g
    BY <2>2 DEF GroupAt
  <2>6. RecordEnd(new, o) = o + (N + 1)
    BY <2>5, EncodeIs DEF RecordEnd, N
  <2> QED BY <1>a, <2>4, <2>5, <2>6
<1>7. ASSUME NEW o \in Whole(file)
      PROVE  o \in Whole(new) /\ GroupAt(new, o) = GroupAt(file, o)
  <2>1. o \in 0 .. L - 1 /\ file[o + 1].at = 1 /\ RecordEnd(file, o) <= L
    BY DEF Whole, L
  <2>2. RecordEnd(file, o) \in Int
    <3>1. GroupAt(file, o).n \in Nat /\ RecordEnd(file, o) = o + GroupAt(file, o).n + 1
      BY <2>1, RecordIs DEF L
    <3> QED BY <2>1, <3>1
  <2>3. o \in 0 .. L + k - 1 /\ RecordEnd(new, o) <= L + k
    BY <1>a, <1>5, <2>1, <2>2
  <2>4. new[o + 1].at = 1 /\ GroupAt(new, o) = GroupAt(file, o)
    BY <1>5, <2>1
  <2> QED BY <1>a, <2>3, <2>4 DEF Whole
<1>8. ASSUME NEW o \in Whole(new)
      PROVE  o \in 0 .. L + k - 1 /\ new[o + 1].at = 1 /\ RecordEnd(new, o) <= L + k
  BY <1>a DEF Whole
<1>9. ASSUME NEW o \in Whole(new), o < L PROVE o \in Whole(file)
  <2> DEFINE i == o + 1
             n == file[i].group.n
  <2>1. o \in 0 .. L - 1 /\ i \in 1 .. L /\ file[o + 1].at = 1 /\ file[i].at = 1
    BY <1>a, <1>5, <1>8, <1>9
  <2>2. n \in Nat /\ RecordEnd(file, o) = o + n + 1
    BY <2>1, RecordIs DEF L, GroupAt
  <2>3. n + 1 \in 1 .. n + 1
    BY <2>2
  <2>4. i - 1 + (n + 1) \in 1 .. L
    BY <1>2, <2>1, <2>3
  <2>5. RecordEnd(file, o) <= L
    <3> HIDE DEF n
    <3> QED BY <1>a, <2>1, <2>2, <2>4
  <2> QED BY <2>1, <2>5 DEF Whole, L
<1>10. ASSUME NEW o \in Whole(new), ~(o < L) PROVE o = L /\ k = N + 1
  <2>1. o \in 0 .. L + k - 1 /\ new[o + 1].at = 1 /\ RecordEnd(new, o) <= L + k
    BY <1>8
  <2>2. L <= o
    BY <1>a, <1>10, <2>1
  <2>3. o = L /\ RecordEnd(new, o) = L + N + 1
    BY <1>6, <2>1, <2>2
  <2> QED BY <1>a, <2>1, <2>3
<1>11. ASSUME k = N + 1 PROVE L \in Whole(new) /\ GroupAt(new, L) = g
  <2>1. L \in 0 .. L + k - 1 /\ 1 \in 1 .. k /\ L <= L
    BY <1>a, <1>11
  <2>2. new[L + 1] = [group |-> g, at |-> 1]
    BY <1>c, <2>1
  <2>3. GroupAt(new, L) = g /\ RecordEnd(new, L) = L + N + 1
    BY <1>6, <2>1, <2>2
  <2>4. RecordEnd(new, L) <= L + k
    BY <1>a, <1>11, <2>3
  <2> QED BY <1>a, <2>1, <2>2, <2>3, <2>4 DEF Whole
<1>12. Whole(new) = Whole(file) \cup (IF k = N + 1 THEN {L} ELSE {})
  <2>1. ASSUME NEW o \in Whole(new) PROVE o \in Whole(file) \cup (IF k = N + 1 THEN {L} ELSE {})
    BY <1>9, <1>10
  <2> QED BY <1>7, <1>11, <2>1
<1> QED BY <1>1, <1>3, <1>4, <1>7, <1>11, <1>12 DEF L, N

(* Appending the first k cells of a record to an uncut file.               *)
LEMMA AppendIs ==
  ASSUME NEW file, Laid(file), NEW g \in Groups, NEW k \in 0 .. g.n + 1
  PROVE  Grown(file, g, k, file \o SubSeq(Encode(g), 1, k))
<1> DEFINE L == Len(file)
           t == SubSeq(Encode(g), 1, k)
           new == file \o t
<1>0. L \in Nat /\ file \in Seq(Cell) /\ g.n \in Nat \ {0} /\ k \in Nat /\ k <= g.n + 1
  BY LaidIs, GroupIs
<1>1. t \in Seq(Cell) /\ Len(t) = k /\ \A j \in 1 .. k : t[j] = [group |-> g, at |-> j]
  <2>1. /\ Encode(g) \in Seq(Cell) /\ Len(Encode(g)) = g.n + 1
        /\ \A j \in 1 .. g.n + 1 : Encode(g)[j] = [group |-> g, at |-> j]
    BY EncodeIs
  <2> QED BY <1>0, <2>1, PrefixIs
<1>3. file \o t \in Seq(Cell) /\ Len(file \o t) = L + Len(t)
      /\ \A i \in 1 .. L + Len(t) : (file \o t)[i] = IF i <= L THEN file[i] ELSE t[i - L]
  <2> HIDE DEF t
  <2> QED BY <1>0, <1>1, ConcatProperties
<1>2. new = file \o t
  OBVIOUS
<1> HIDE DEF L, t, new
<1>4. ASSUME NEW i \in 1 .. L PROVE new[i] = file[i]
  <2>1. i \in 1 .. L + Len(t) /\ i <= L
    BY <1>0, <1>1
  <2> QED BY <1>2, <1>3, <2>1
<1>5. ASSUME NEW j \in 1 .. k PROVE new[L + j] = [group |-> g, at |-> j]
  <2>1. L + j \in 1 .. L + Len(t) /\ ~(L + j <= L) /\ (L + j) - L = j
    BY <1>0, <1>1
  <2>2. new[L + j] = t[j]
    BY <1>2, <1>3, <2>1
  <2> QED BY <1>1, <2>2
<1>6. new \in Seq(Cell) /\ Len(new) = Len(file) + k
  BY <1>1, <1>2, <1>3 DEF L
<1> QED BY <1>4, <1>5, <1>6 DEF L, Grown, new, t

-----------------------------------------------------------------------------
(* What a scan and a read return.                                          *)

(* What a whole record is.                                                 *)
LEMMA WholeIs ==
  ASSUME NEW file, Laid(file), NEW o \in Whole(file)
  PROVE  /\ o \in Nat /\ o \in 0 .. Len(file) - 1 /\ o + 1 \in 1 .. Len(file)
         /\ file[o + 1].at = 1 /\ RecordEnd(file, o) <= Len(file)
         /\ GroupAt(file, o) = file[o + 1].group /\ GroupAt(file, o) \in Groups
<1>1. o \in 0 .. Len(file) - 1 /\ file[o + 1].at = 1 /\ RecordEnd(file, o) <= Len(file)
  BY DEF Whole
<1>2. Len(file) \in Nat
  BY LaidIs
<1>3. GroupAt(file, o) \in Groups
  BY <1>1, RecordIs
<1> QED BY <1>1, <1>2, <1>3 DEF GroupAt

(* In an uncut file every cell is part of a whole record.                  *)
LEMMA UncutWhole ==
  ASSUME NEW file, Laid(file), Uncut(file), NEW i \in 1 .. Len(file)
  PROVE  /\ i - file[i].at \in Whole(file)
         /\ GroupAt(file, i - file[i].at) = file[i].group
<1> DEFINE o == i - file[i].at
           n == file[i].group.n
<1>1. /\ o \in 0 .. Len(file) - 1 /\ file[o + 1].at = 1
      /\ GroupAt(file, o) = file[i].group /\ RecordEnd(file, o) = o + n + 1
  BY HeadOf
<1>2. n \in Nat /\ n + 1 \in 1 .. n + 1
  BY LaidIs
<1>3. o + (n + 1) \in 1 .. Len(file)
  BY <1>2, RecordsFull
<1> HIDE DEF n, o
<1>4. RecordEnd(file, o) <= Len(file)
  BY <1>1, <1>2, <1>3
<1> QED BY <1>1, <1>4 DEF Whole, o

(* The groups a scan finds are those of the whole records.                 *)
LEMMA ScanIs ==
  ASSUME NEW file, NEW p, NEW h, NEW t, Laid(file), InOrder(file, p, h, t)
  PROVE  /\ Matches(file, p.v2)
         /\ ScanOffsets(file, p.v2) = Whole(file)
         /\ {GroupAt(file, o) : o \in ScanOffsets(file, p.v2)} = Records(file)
<1>1. Matches(file, p.v2)
  BY DEF InOrder, Matches
<1> QED BY <1>1, ScanFinds DEF Records

(* A record whose cells are all in a file reads back as it was encoded.    *)
LEMMA ReadCells ==
  ASSUME NEW file \in Seq(Cell), NEW o \in Nat, NEW g \in Groups,
         \A j \in 1 .. g.n + 1 : o + j <= Len(file) /\ file[o + j] = [group |-> g, at |-> j]
  PROVE  SubSeq(file, o + 1, o + Len(Encode(g))) = Encode(g)
<1> DEFINE n == g.n
           e == o + Len(Encode(g))
           s == SubSeq(file, o + 1, e)
<1>1. n \in Nat /\ Len(file) \in Nat /\ e = o + (n + 1)
  <2>1. Len(Encode(g)) = n + 1
    BY EncodeIs
  <2> QED BY <2>1, GroupIs
<1>2. /\ Encode(g) \in Seq(Cell) /\ Len(Encode(g)) = n + 1
      /\ \A j \in 1 .. n + 1 : Encode(g)[j] = file[o + j]
  BY EncodeIs
<1>3. s \in Seq(Cell) /\ Len(s) = n + 1 /\ \A j \in 1 .. n + 1 : s[j] = file[o + j]
  <2> HIDE DEF e
  <2>1. o + 1 \in Int /\ e \in Int /\ o + 1 <= e /\ e - (o + 1) + 1 = n + 1
    BY <1>1
  <2>2. \A i \in o + 1 .. e : file[i] \in Cell
    <3>1. ASSUME NEW i \in o + 1 .. e PROVE i \in 1 .. Len(file)
      <4>1. i - o \in 1 .. n + 1 /\ o + (i - o) = i
        BY <1>1
      <4>2. o + (i - o) <= Len(file)
        BY <4>1
      <4> QED BY <1>1, <4>1, <4>2
    <3> QED BY <3>1
  <2>3. /\ s \in Seq(Cell) /\ Len(s) = e - (o + 1) + 1
        /\ \A i \in 1 .. e - (o + 1) + 1 : s[i] = file[(o + 1) + i - 1]
    BY <2>1, <2>2, SubSeqProperties
  <2>4. \A i \in 1 .. n + 1 : (o + 1) + i - 1 = o + i
    BY <1>1
  <2> HIDE DEF s
  <2> QED BY <2>1, <2>3, <2>4
<1> HIDE DEF s, e, n
<1>4. s = Encode(g)
  BY <1>2, <1>3, SeqEqual
<1> QED BY <1>4 DEF s, e

(* A record that fits in a laid file reads back as it was encoded.         *)
LEMMA ReadIs ==
  ASSUME NEW file, Laid(file), NEW o \in Whole(file)
  PROVE  SubSeq(file, o + 1, RecordEnd(file, o)) = Encode(GroupAt(file, o))
<1> DEFINE g == GroupAt(file, o)
           n == g.n
           e == RecordEnd(file, o)
<1>1. /\ o \in 0 .. Len(file) - 1 /\ file[o + 1].at = 1 /\ e <= Len(file)
      /\ g \in Groups
  BY WholeIs
<1>2. /\ n \in Nat /\ e = o + n + 1
      /\ \A j \in 1 .. n + 1 : o + j <= Len(file) =>
           file[o + j].group = g /\ file[o + j].at = j
  BY <1>1, RecordIs
<1>3. Len(file) \in Nat /\ file \in Seq(Cell) /\ o \in Nat
  BY <1>1, LaidIs
<1>4. ASSUME NEW j \in 1 .. n + 1
      PROVE  o + j <= Len(file) /\ file[o + j] = [group |-> g, at |-> j]
  <2> HIDE DEF g, n, e
  <2>1. o + j \in 1 .. Len(file)
    BY <1>1, <1>2, <1>3
  <2>2. file[o + j].group = g /\ file[o + j].at = j
    BY <1>2, <1>3, <2>1
  <2>3. file[o + j] = [group |-> g, at |-> j]
    BY <1>3, <2>1, <2>2, CellIs
  <2> QED BY <1>3, <2>1, <2>3
<1>5. e = o + Len(Encode(g))
  BY DEF RecordEnd
<1> HIDE DEF g
<1>6. SubSeq(file, o + 1, o + Len(Encode(g))) = Encode(g)
  BY <1>1, <1>3, <1>4, ReadCells
<1> QED BY <1>5, <1>6 DEF g

(* Whatever the location, a read returns the group asked for or nothing.   *)
LEMMA ReadSound ==
  ASSUME NEW loc, NEW seq, \A p \in DOMAIN disk : Laid(disk[p]), loc.offset \in Nat
  PROVE  LET got == ReadGroupAt(loc, seq) IN
         got = None \/ (got \in Groups /\ got.seq = seq)
<1> DEFINE file == disk[loc.path]
           o == loc.offset
           g == GroupAt(file, o)
<1> SUFFICES ASSUME loc.path \in DOMAIN disk, HeaderAt(file, loc.v2, o),
                    g.seq = seq, ~(RecordEnd(file, o) > Len(file))
             PROVE  ReadGroupAt(loc, seq) \in Groups /\ ReadGroupAt(loc, seq).seq = seq
  BY DEF ReadGroupAt
<1>1. Laid(file)
  OBVIOUS
<1>2. o \in 0 .. Len(file) - 1 /\ file[o + 1].at = 1
  <2>1. Len(file) \in Nat
    BY <1>1, LaidIs
  <2>2. o < Len(file) /\ file[o + 1].at = 1
    BY DEF HeaderAt
  <2> HIDE DEF file
  <2> QED BY <2>1, <2>2
<1>3. RecordEnd(file, o) <= Len(file)
  <2>1. RecordEnd(file, o) = o + g.n + 1 /\ g.n \in Nat
    BY <1>1, <1>2, RecordIs
  <2>2. RecordEnd(file, o) \in Int /\ Len(file) \in Int
    BY <1>1, <2>1, LaidIs
  <2> QED BY <2>2
<1>4. o \in Whole(file)
  BY <1>2, <1>3 DEF Whole
<1>5. SubSeq(file, o + 1, RecordEnd(file, o)) = Encode(g)
  BY <1>1, <1>4, ReadIs
<1>6. ReadGroupAt(loc, seq) = g
  BY <1>5 DEF ReadGroupAt
<1>7. g \in Groups
  BY <1>1, <1>4, WholeIs
<1> QED BY <1>6, <1>7

(* A read at a whole record of the sequence asked for returns its group.   *)
LEMMA ReadBack ==
  ASSUME NEW loc, NEW seq, loc.path \in DOMAIN disk, Laid(disk[loc.path]),
         Matches(disk[loc.path], loc.v2),
         loc.offset \in Whole(disk[loc.path]),
         GroupAt(disk[loc.path], loc.offset).seq = seq
  PROVE  ReadGroupAt(loc, seq) = GroupAt(disk[loc.path], loc.offset)
<1> DEFINE file == disk[loc.path]
           o == loc.offset
           g == GroupAt(file, o)
<1>1. /\ o \in Nat /\ o + 1 \in 1 .. Len(file) /\ file[o + 1].at = 1
      /\ RecordEnd(file, o) <= Len(file)
  BY WholeIs
<1>2. Len(file) \in Nat
  BY LaidIs
<1>3. HeaderAt(file, loc.v2, o)
  <2>1. o < Len(file)
    <3> HIDE DEF file, o
    <3> QED BY <1>1, <1>2
  <2> QED BY <1>1, <2>1 DEF HeaderAt, Matches
<1>4. ~(RecordEnd(file, o) > Len(file))
  <2>1. RecordEnd(file, o) = o + g.n + 1 /\ g.n \in Nat
    BY WholeIs, RecordIs
  <2>2. RecordEnd(file, o) \in Int
    BY <1>1, <2>1
  <2> QED BY <1>1, <1>2, <2>2
<1>5. SubSeq(file, o + 1, RecordEnd(file, o)) = Encode(g)
  BY ReadIs
<1> QED BY <1>3, <1>4, <1>5 DEF ReadGroupAt

-----------------------------------------------------------------------------
(* The files after each step.                                              *)

(* What DiskOK says of one file.                                           *)
LEMMA FileIs ==
  ASSUME NEW d, NEW h, NEW t, DiskOK(d, h, t), NEW p \in DOMAIN d
  PROVE  /\ Laid(d[p]) /\ InOrder(d[p], p, h, t) /\ p.stem <= h /\ p \in Paths
         /\ p.stem \in 0 .. MaxSeq /\ p.v2 \in BOOLEAN /\ h \in Int /\ h <= MaxSeq
         /\ MaxSeq \in Nat /\ t \in Nat
  BY StoreAssumption DEF DiskOK, Paths, Seqs

(* The files as open leaves them.                                          *)
Cut(d) == [p \in DOMAIN d |-> SubSeq(d[p], 1, ScanEnd(d[p], p.v2))]

(* What is cut off a file at open is no whole record.                      *)
LEMMA CutFile ==
  ASSUME NEW d, NEW h, NEW t, DiskOK(d, h, t), NEW c, c = Cut(d), NEW p \in DOMAIN d
  PROVE  /\ Laid(c[p]) /\ Uncut(c[p]) /\ Len(c[p]) = ScanEnd(d[p], p.v2)
         /\ \A i \in 1 .. Len(c[p]) : c[p][i] = d[p][i] /\ i \in 1 .. Len(d[p])
         /\ Whole(c[p]) = Whole(d[p])
         /\ \A o \in Whole(d[p]) : GroupAt(c[p], o) = GroupAt(d[p], o)
<1>1. Laid(d[p]) /\ Matches(d[p], p.v2)
  BY FileIs, ScanIs
<1>2. c[p] = SubSeq(d[p], 1, ScanEnd(d[p], p.v2))
  BY DEF Cut
<1>3. IsCut(d[p], p.v2, c[p])
  BY <1>2 DEF IsCut
<1> QED BY <1>1, <1>3, CutIs

(* All files as open leaves them.                                          *)
LEMMA DiskCut ==
  ASSUME NEW d, NEW h, NEW t, DiskOK(d, h, t), NEW c, c = Cut(d)
  PROVE  /\ DiskOK(c, h, t) /\ AllUncut(c) /\ DOMAIN c = DOMAIN d
         /\ \A p \in DOMAIN d :
              /\ Len(c[p]) = ScanEnd(d[p], p.v2)
              /\ \A i \in 1 .. Len(c[p]) : c[p][i] = d[p][i] /\ i \in 1 .. Len(d[p])
              /\ Whole(c[p]) = Whole(d[p]) /\ Records(c[p]) = Records(d[p])
              /\ \A o \in Whole(d[p]) : GroupAt(c[p], o) = GroupAt(d[p], o)
<1>1. DOMAIN c = DOMAIN d
  BY DEF Cut
<1>2. ASSUME NEW p \in DOMAIN d
      PROVE  /\ Laid(c[p]) /\ Uncut(c[p]) /\ Len(c[p]) = ScanEnd(d[p], p.v2)
             /\ \A i \in 1 .. Len(c[p]) : c[p][i] = d[p][i] /\ i \in 1 .. Len(d[p])
             /\ Whole(c[p]) = Whole(d[p])
             /\ \A o \in Whole(d[p]) : GroupAt(c[p], o) = GroupAt(d[p], o)
  BY CutFile
<1>3. ASSUME NEW p \in DOMAIN d PROVE InOrder(c[p], p, h, t)
  <2>1. InOrder(d[p], p, h, t) /\ \A i \in 1 .. Len(c[p]) : c[p][i] = d[p][i] /\ i \in 1 .. Len(d[p])
    BY <1>2, FileIs
  <2> QED BY SMTT(40), <2>1 DEF InOrder
<1>4. ASSUME NEW p \in DOMAIN d PROVE Records(c[p]) = Records(d[p])
  BY <1>2 DEF Records
<1>5. Apart(c)
  <2>1. ASSUME NEW p \in DOMAIN d, NEW q \in DOMAIN d, p.stem < q.stem, NEW i \in 1 .. Len(c[p])
        PROVE  c[p][i].group.seq < q.stem
    <3>1. c[p][i] = d[p][i] /\ i \in 1 .. Len(d[p])
      BY <1>2
    <3> QED BY <2>1, <3>1 DEF DiskOK, Apart
  <2>2. ASSUME NEW p \in DOMAIN d, NEW q \in DOMAIN d, p.stem = q.stem PROVE p = q
    BY <2>2 DEF DiskOK, Apart
  <2> QED BY <1>1, <2>1, <2>2 DEF Apart
<1>6. DiskOK(c, h, t)
  <2>1. \A p \in DOMAIN c : Laid(c[p]) /\ InOrder(c[p], p, h, t) /\ p.stem <= h
    BY <1>1, <1>2, <1>3, FileIs
  <2>2. IsFiniteSet(DOMAIN d) /\ DOMAIN d \subseteq Paths /\ h \in -1 .. MaxSeq /\ t \in Nat
    BY DEF DiskOK
  <2> QED BY <1>1, <1>5, <2>1, <2>2 DEF DiskOK
<1>7. AllUncut(c)
  BY <1>1, <1>2 DEF AllUncut
<1> QED BY <1>1, <1>2, <1>4, <1>6, <1>7

(* The cells of a grown file are those of the file and those of the group. *)
LEMMA GrownCells ==
  ASSUME NEW file, Laid(file), NEW g \in Groups, NEW k \in 0 .. g.n + 1, NEW new,
         Grown(file, g, k, new), NEW i \in 1 .. Len(new)
  PROVE  \/ i \in 1 .. Len(file) /\ new[i] = file[i]
         \/ /\ Len(file) < i /\ new[i].group = g /\ i - new[i].at = Len(file)
<1> DEFINE L == Len(file)
           x == i - L
<1>1. L \in Nat /\ k \in Nat /\ i \in 1 .. L + k
  BY LaidIs, GroupIs DEF Grown
<1>2. CASE i \in 1 .. L
  BY <1>2 DEF Grown
<1>3. CASE i \notin 1 .. L
  <2>1. x \in 1 .. k /\ L + x = i /\ L < i /\ i - x = L
    BY <1>1, <1>3
  <2>2. new[L + x] = [group |-> g, at |-> x]
    BY <2>1 DEF Grown
  <2> HIDE DEF x
  <2>3. new[i].group = g /\ new[i].at = x
    BY <2>1, <2>2
  <2> QED BY <2>1, <2>3
<1> QED BY <1>2, <1>3

(* An append to the newest file, complete or not.                          *)
LEMMA DiskGrow ==
  ASSUME NEW d, NEW h, NEW t, DiskOK(d, h, t), NEW p \in DOMAIN d, Uncut(d[p]),
         \A q \in DOMAIN d : q.stem <= p.stem,
         NEW g \in Groups, g.v2 = p.v2, g.seq = h, g.ms = t, Below(d, h),
         NEW k \in 0 .. g.n + 1, NEW new, Grown(d[p], g, k, new),
         NEW c, c = [d EXCEPT ![p] = new]
  PROVE  DiskOK(c, h, t)
<1>1. DOMAIN c = DOMAIN d /\ c[p] = new /\ \A q \in DOMAIN d \ {p} : c[q] = d[q]
  OBVIOUS
<1>2. Laid(new)
  BY FileIs, GrownIs
<1>3. InOrder(new, p, h, t)
  <2>1. /\ InOrder(d[p], p, h, t) /\ Laid(d[p]) /\ p.stem <= h
        /\ h \in Int /\ t \in Nat
    BY FileIs
  <2>2. ASSUME NEW i \in 1 .. Len(d[p])
        PROVE  /\ d[p][i].group.seq \in Int /\ d[p][i].group.ms \in Int
               /\ d[p][i].group.seq < h /\ d[p][i].group.ms <= t
               /\ d[p][i].group.v2 = p.v2 /\ p.stem <= d[p][i].group.seq
    <3>1. d[p][i].group \in Groups
      BY <2>1, LaidIs
    <3>2. d[p][i].group.seq < h
      BY DEF Below
    <3> QED BY <2>1, <3>1, <3>2, GroupIs DEF InOrder
  <2>3. ASSUME NEW i \in 1 .. Len(new)
        PROVE  \/ i \in 1 .. Len(d[p]) /\ new[i] = d[p][i]
               \/ /\ Len(d[p]) < i /\ new[i].group = g /\ i - new[i].at = Len(d[p])
    BY <2>1, GrownCells
  <2>4. ASSUME NEW i \in 1 .. Len(new)
        PROVE  /\ new[i].group.v2 = p.v2
               /\ p.stem <= new[i].group.seq /\ new[i].group.seq <= h
               /\ new[i].group.ms <= t
    <3>1. CASE i \in 1 .. Len(d[p]) /\ new[i] = d[p][i]
      BY <2>1, <2>2, <3>1
    <3>2. CASE new[i].group = g
      BY <2>1, <3>2
    <3> QED BY <2>3, <3>1, <3>2
  <2>5. ASSUME NEW i \in 1 .. Len(new), NEW j \in 1 .. Len(new), i <= j
        PROVE  /\ new[i].group.seq <= new[j].group.seq
               /\ new[i].group.ms <= new[j].group.ms
               /\ new[i].group.seq = new[j].group.seq => i - new[i].at = j - new[j].at
    <3>1. CASE j \in 1 .. Len(d[p]) /\ new[j] = d[p][j]
      <4>1. i \in 1 .. Len(d[p]) /\ new[i] = d[p][i]
        <5>1. Len(d[p]) \in Nat
          BY <2>1, LaidIs
        <5>2. i \in 1 .. Len(d[p])
          BY <2>5, <3>1, <5>1
        <5> QED BY <2>3, <5>1, <5>2
      <4> QED BY <2>1, <2>5, <3>1, <4>1 DEF InOrder
    <3>2. CASE new[j].group = g /\ j - new[j].at = Len(d[p])
      <4>1. CASE i \in 1 .. Len(d[p]) /\ new[i] = d[p][i]
        BY <2>1, <2>2, <3>2, <4>1
      <4>2. CASE new[i].group = g /\ i - new[i].at = Len(d[p])
        BY <2>1, <3>2, <4>2
      <4> QED BY <2>3, <4>1, <4>2
    <3> QED BY <2>3, <3>1, <3>2
  <2> QED BY <2>4, <2>5 DEF InOrder
<1>4. Apart(c)
  <2>1. ASSUME NEW q \in DOMAIN d, NEW r \in DOMAIN d, q.stem < r.stem, NEW i \in 1 .. Len(c[q])
        PROVE  c[q][i].group.seq < r.stem
    <3>1. q # p
      <4>1. r.stem <= p.stem /\ r.stem \in Int /\ q.stem \in Int /\ p.stem \in Int
        BY FileIs
      <4> QED BY <2>1, <4>1
    <3> QED BY <1>1, <2>1, <3>1 DEF DiskOK, Apart
  <2>2. ASSUME NEW q \in DOMAIN d, NEW r \in DOMAIN d, q.stem = r.stem PROVE q = r
    BY <2>2 DEF DiskOK, Apart
  <2> QED BY <1>1, <2>1, <2>2 DEF Apart
<1>5. \A q \in DOMAIN c : Laid(c[q]) /\ InOrder(c[q], q, h, t) /\ q.stem <= h
  <2>1. ASSUME NEW q \in DOMAIN d PROVE Laid(c[q]) /\ InOrder(c[q], q, h, t) /\ q.stem <= h
    <3>1. CASE q = p
      BY <1>1, <1>2, <1>3, <3>1, FileIs
    <3>2. CASE q # p
      BY <1>1, <3>2, FileIs
    <3> QED BY <3>1, <3>2
  <2> QED BY <1>1, <2>1
<1>6. IsFiniteSet(DOMAIN d) /\ DOMAIN d \subseteq Paths /\ h \in -1 .. MaxSeq /\ t \in Nat
  BY DEF DiskOK
<1> QED BY <1>1, <1>4, <1>5, <1>6 DEF DiskOK

(* A new group, in an old file or in a new one: everything stored is below *)
(* it.                                                                     *)
LEMMA DiskLater ==
  ASSUME NEW d, NEW h, NEW t, DiskOK(d, h, t),
         NEW s \in Seqs, s > h, NEW u \in Nat, u >= t
  PROVE  DiskOK(d, s, u) /\ Below(d, s)
<1>1. s \in Int /\ s <= MaxSeq /\ s \in -1 .. MaxSeq /\ h \in Int /\ t \in Nat
  BY StoreAssumption DEF Seqs, DiskOK
<1>2. ASSUME NEW p \in DOMAIN d, NEW i \in 1 .. Len(d[p])
      PROVE  d[p][i].group.seq < s /\ d[p][i].group.seq <= s /\ d[p][i].group.ms <= u
  <2>1. Laid(d[p]) /\ InOrder(d[p], p, h, t)
    BY FileIs
  <2>2. d[p][i].group.seq \in Int /\ d[p][i].group.ms \in Int
    BY <2>1, LaidIs, GroupIs
  <2>3. d[p][i].group.seq <= h /\ d[p][i].group.ms <= t
    BY <2>1 DEF InOrder
  <2> QED BY <1>1, <2>2, <2>3
<1>3. ASSUME NEW p \in DOMAIN d PROVE Laid(d[p]) /\ InOrder(d[p], p, s, u) /\ p.stem <= s
  <2>1. Laid(d[p]) /\ InOrder(d[p], p, h, t) /\ p.stem <= h /\ p.stem \in Int
    BY FileIs
  <2>2. InOrder(d[p], p, s, u)
    BY <1>2, <2>1 DEF InOrder
  <2> QED BY <1>1, <2>1, <2>2
<1>4. DiskOK(d, s, u)
  BY <1>1, <1>3 DEF DiskOK
<1>5. Below(d, s)
  BY <1>2 DEF Below
<1> QED BY <1>4, <1>5

(* A new, empty file.                                                      *)
NewFile(d, path, s, c) == path = [stem |-> s, v2 |-> TRUE] /\ c = Put(d, path, <<>>)

LEMMA DiskNew ==
  ASSUME NEW d, NEW h, NEW t, DiskOK(d, h, t),
         NEW s \in Seqs, s > h, NEW u \in Nat, u >= t,
         NEW path, NEW c, NewFile(d, path, s, c)
  PROVE  /\ DiskOK(c, s, u) /\ Below(c, s)
         /\ path \notin DOMAIN d /\ DOMAIN c = DOMAIN d \cup {path}
         /\ c[path] = <<>> /\ \A p \in DOMAIN d : c[p] = d[p] /\ p.stem < s
<1>1. DiskOK(d, s, u) /\ Below(d, s)
  BY DiskLater
<1>2. ASSUME NEW p \in DOMAIN d PROVE p.stem < s
  BY FileIs DEF Seqs
<1>3. path.stem = s /\ path.v2 = TRUE /\ path \in Paths /\ s \in Int
  BY StoreAssumption DEF Paths, Seqs, NewFile
<1>4. path \notin DOMAIN d
  BY <1>2, <1>3
<1>5. /\ DOMAIN c = DOMAIN d \cup {path} /\ c[path] = <<>>
      /\ \A p \in DOMAIN d : c[p] = d[p]
  BY <1>4 DEF Put, NewFile
<1>6. Len(<<>>) = 0 /\ \A i \in 1 .. Len(<<>>) : FALSE
  OBVIOUS
<1>7. Laid(<<>>) /\ InOrder(<<>>, path, s, u)
  BY <1>6 DEF Laid, InOrder
<1>8. Below(c, s)
  <2>1. ASSUME NEW p \in DOMAIN c, NEW i \in 1 .. Len(c[p]) PROVE c[p][i].group.seq < s
    <3>1. p \in DOMAIN d
      BY <1>5, <1>6
    <3> QED BY <1>1, <1>5, <3>1 DEF Below
  <2> QED BY <2>1 DEF Below
<1>9. Apart(c)
  <2>1. ASSUME NEW p \in DOMAIN c, NEW q \in DOMAIN c, p.stem = q.stem PROVE p = q
    <3>1. CASE p \in DOMAIN d /\ q \in DOMAIN d
      BY <2>1, <3>1 DEF DiskOK, Apart
    <3>2. CASE p \notin DOMAIN d \/ q \notin DOMAIN d
      <4>1. \A x \in DOMAIN d : x.stem < s /\ x.stem \in Int
        BY <1>2, FileIs
      <4>2. \A x \in DOMAIN d : x.stem # s
        BY <1>3, <4>1
      <4> QED BY <1>3, <1>5, <2>1, <3>2, <4>2
    <3> QED BY <3>1, <3>2
  <2>2. ASSUME NEW p \in DOMAIN c, NEW q \in DOMAIN c, p.stem < q.stem, NEW i \in 1 .. Len(c[p])
        PROVE  c[p][i].group.seq < q.stem
    <3>1. p \in DOMAIN d
      BY <1>5, <1>6
    <3>2. CASE q \in DOMAIN d
      BY <1>5, <2>2, <3>1, <3>2 DEF DiskOK, Apart
    <3>3. CASE q = path
      BY <1>3, <1>8, <3>3 DEF Below
    <3> QED BY <1>5, <3>2, <3>3
  <2> QED BY <2>1, <2>2 DEF Apart
<1>10. IsFiniteSet(DOMAIN c)
  <2>1. IsFiniteSet(DOMAIN d)
    BY DEF DiskOK
  <2>2. IsFiniteSet(DOMAIN d \cup {path})
    BY <2>1, FS_AddElement
  <2> QED BY <1>5, <2>2
<1>11. \A p \in DOMAIN c : Laid(c[p]) /\ InOrder(c[p], p, s, u) /\ p.stem <= s
  <2>1. ASSUME NEW p \in DOMAIN c PROVE Laid(c[p]) /\ InOrder(c[p], p, s, u) /\ p.stem <= s
    <3>1. CASE p \in DOMAIN d
      BY <1>1, <1>5, <3>1, FileIs
    <3>2. CASE p = path
      BY <1>3, <1>5, <1>7, <3>2
    <3> QED BY <1>5, <3>1, <3>2
  <2> QED BY <2>1
<1>12. DOMAIN c \subseteq Paths /\ s \in -1 .. MaxSeq /\ u \in Nat
  BY <1>1, <1>3, <1>5 DEF DiskOK
<1> QED BY <1>2, <1>4, <1>5, <1>8, <1>9, <1>10, <1>11, <1>12 DEF DiskOK

(* GC deletes a file.                                                      *)
Drops(d, p, c) == DOMAIN c = DOMAIN d \ {p} /\ \A q \in DOMAIN c : c[q] = d[q]

Without(d, path, c) == c = KeepOnly(d, DOMAIN d \ {path})

LEMMA DiskDrop ==
  ASSUME NEW d, NEW h, NEW t, DiskOK(d, h, t), NEW path, NEW c, Without(d, path, c)
  PROVE  DiskOK(c, h, t) /\ Drops(d, path, c)
<1>1. DOMAIN c = DOMAIN d \ {path} /\ \A p \in DOMAIN c : c[p] = d[p]
  BY DEF KeepOnly, Without
<1>2. IsFiniteSet(DOMAIN c)
  BY <1>1, FS_Subset DEF DiskOK
<1>3. Apart(c)
  BY <1>1 DEF DiskOK, Apart
<1>4. \A p \in DOMAIN c : Laid(c[p]) /\ InOrder(c[p], p, h, t) /\ p.stem <= h
  BY <1>1, FileIs
<1>5. DOMAIN c \subseteq Paths /\ h \in -1 .. MaxSeq /\ t \in Nat
  BY <1>1 DEF DiskOK
<1>6. Drops(d, path, c)
  BY <1>1 DEF Drops
<1> QED BY <1>1, <1>2, <1>3, <1>4, <1>5, <1>6 DEF DiskOK

-----------------------------------------------------------------------------
(* The segments after each step.                                           *)

(* What SegmentsOK says of one segment.                                    *)
LEMMA SegIs ==
  ASSUME NEW segs, NEW d, NEW h, SegmentsOK(segs, d, h), NEW i \in 1 .. Len(segs)
  PROVE  /\ segs[i] \in Segment /\ segs[i].path \in DOMAIN d /\ segs[i].path \in Paths
         /\ segs[i].path.stem \in Int /\ Describes(segs[i], d[segs[i].path], h)
         /\ segs[i].first \in Int /\ segs[i].newest \in Nat /\ segs[i].bytes \in Nat
         /\ segs[i].v2 \in BOOLEAN
         /\ Len(segs) \in Nat /\ segs \in Seq(Segment)
<1>1. segs \in Seq(Segment) /\ Len(segs) \in Nat
  BY DEF SegmentsOK
<1>2. segs[i] \in Segment
  BY <1>1
<1>3. /\ segs[i].path \in Paths /\ segs[i].first \in Int /\ segs[i].newest \in Nat
      /\ segs[i].bytes \in Nat /\ segs[i].path.stem \in Int /\ segs[i].v2 \in BOOLEAN
  BY <1>2, StoreAssumption DEF Segment, Paths, Seqs
<1>4. segs[i].path \in DOMAIN d /\ Describes(segs[i], d[segs[i].path], h)
  BY DEF SegmentsOK
<1> QED BY <1>1, <1>2, <1>3, <1>4

(* Segments with different numbers have different files.                   *)
LEMMA SegDistinct ==
  ASSUME NEW segs, NEW d, NEW h, SegmentsOK(segs, d, h),
         NEW i \in 1 .. Len(segs), NEW j \in 1 .. Len(segs), i # j
  PROVE  segs[i].path # segs[j].path
<1>1. Len(segs) \in Nat /\ segs[i].path.stem \in Int /\ segs[j].path.stem \in Int
  BY SegIs
<1>2. CASE i < j
  <2>1. segs[i].path.stem < segs[j].path.stem
    BY <1>2 DEF SegmentsOK
  <2> QED BY <1>1, <2>1
<1>3. CASE j < i
  <2>1. segs[j].path.stem < segs[i].path.stem
    BY <1>3 DEF SegmentsOK
  <2> QED BY <1>1, <2>1
<1> QED BY <1>1, <1>2, <1>3

(* The last segment has the newest file.                                   *)
LEMMA LastIsNewest ==
  ASSUME NEW segs, NEW d, NEW h, SegmentsOK(segs, d, h), segs # <<>>
  PROVE  /\ Len(segs) \in 1 .. Len(segs) /\ Len(segs) \in Nat
         /\ \A q \in DOMAIN d : q.stem <= segs[Len(segs)].path.stem
<1>1. segs \in Seq(Segment) /\ Len(segs) \in Nat
  BY DEF SegmentsOK
<1>2. Len(segs) \in 1 .. Len(segs)
  BY <1>1, EmptySeq
<1>3. ASSUME NEW q \in DOMAIN d PROVE q.stem <= segs[Len(segs)].path.stem
  <2>1. PICK i \in 1 .. Len(segs) : q = segs[i].path
    BY DEF SegmentsOK
  <2>2. segs[i].path.stem \in Int /\ segs[Len(segs)].path.stem \in Int
    BY <1>2, SegIs
  <2>3. CASE i = Len(segs)
    BY <2>1, <2>2, <2>3
  <2>4. CASE i # Len(segs)
    <3>1. i < Len(segs)
      BY <1>1, <2>4
    <3>2. segs[i].path.stem < segs[Len(segs)].path.stem
      BY <1>2, <3>1 DEF SegmentsOK
    <3> QED BY <2>1, <2>2, <3>2
  <2> QED BY <2>3, <2>4
<1> QED BY <1>1, <1>2, <1>3

(* A new group goes to an old segment, or to a new one.                    *)
LEMMA SegLater ==
  ASSUME NEW segs, NEW d, NEW h \in Int, SegmentsOK(segs, d, h), NEW s \in Int, h <= s
  PROVE  SegmentsOK(segs, d, s)
<1>1. ASSUME NEW i \in 1 .. Len(segs) PROVE Describes(segs[i], d[segs[i].path], s)
  <2>1. segs[i].first \in Int /\ Describes(segs[i], d[segs[i].path], h)
    BY SegIs
  <2> QED BY <2>1 DEF Describes
<1> QED BY <1>1 DEF SegmentsOK

NewSegment(path, s) ==
  [path |-> path, v2 |-> TRUE, first |-> s, newest |-> 0, bytes |-> 0]

WithNew(segs, path, s) == Append(segs, NewSegment(path, s))

(* A new, empty segment.                                                   *)
LEMMA SegNew ==
  ASSUME NEW segs, NEW d, NEW h \in Int, SegmentsOK(segs, d, h),
         NEW s \in Seqs, h < s, NEW path \in Paths, path.stem = s, path.v2 = TRUE,
         NEW c, DOMAIN c = DOMAIN d \cup {path}, path \notin DOMAIN d,
         c[path] = <<>>, \A p \in DOMAIN d : c[p] = d[p] /\ p.stem < s,
         NEW sg, sg = WithNew(segs, path, s)
  PROVE  SegmentsOK(sg, c, s)
<1> DEFINE n == Len(segs)
           x == NewSegment(path, s)
<1>1. segs \in Seq(Segment) /\ n \in Nat /\ s \in Int /\ path.stem = s /\ path \in Paths
  BY StoreAssumption DEF SegmentsOK, Seqs, Paths
<1>2. x \in Segment /\ x.path = path /\ x.v2 = path.v2 /\ x.first = s /\ x.newest = 0 /\ x.bytes = 0
  BY <1>1 DEF NewSegment, Segment
<1> HIDE DEF x
<1>3. /\ sg \in Seq(Segment) /\ Len(sg) = n + 1 /\ sg[n + 1] = x
      /\ \A i \in 1 .. n : sg[i] = segs[i]
  BY <1>1, <1>2, AppendProperties DEF x, WithNew
<1> HIDE DEF n
<1>4. \A i \in 1 .. n + 1 : i \in 1 .. n \/ i = n + 1
  BY <1>1
<1>5. ASSUME NEW i \in 1 .. n
      PROVE  /\ sg[i] = segs[i] /\ sg[i].path \in DOMAIN d /\ c[sg[i].path] = d[segs[i].path]
             /\ sg[i].path.stem < s /\ Describes(segs[i], d[segs[i].path], h) /\ segs[i].first \in Int
  <2>1. segs[i].path \in DOMAIN d /\ Describes(segs[i], d[segs[i].path], h) /\ segs[i].first \in Int
    BY SegIs DEF n
  <2> QED BY <1>3, <2>1
<1>6. n + 1 \in 1 .. n + 1 /\ sg[n + 1].path = path /\ c[sg[n + 1].path] = <<>> /\ 1 .. n \subseteq 1 .. n + 1
  BY <1>1, <1>2, <1>3
<1>7. Len(<<>>) = 0 /\ \A k \in 1 .. Len(<<>>) : FALSE
  OBVIOUS
<1>8. DOMAIN c = {sg[i].path : i \in 1 .. n + 1}
  <2>1. DOMAIN d = {segs[i].path : i \in 1 .. n}
    BY DEF SegmentsOK, n
  <2>2. ASSUME NEW p \in DOMAIN c PROVE \E i \in 1 .. n + 1 : p = sg[i].path
    <3>1. CASE p = path
      BY <1>6, <3>1
    <3>2. CASE p \in DOMAIN d
      <4>1. PICK i \in 1 .. n : p = segs[i].path
        BY <2>1, <3>2
      <4> QED BY <1>5, <1>6, <4>1
    <3> QED BY <3>1, <3>2
  <2>3. ASSUME NEW i \in 1 .. n + 1 PROVE sg[i].path \in DOMAIN c
    BY <1>4, <1>5, <1>6
  <2> QED BY <2>2, <2>3
<1>9. ASSUME NEW i \in 1 .. n + 1 PROVE Describes(sg[i], c[sg[i].path], s)
  <2>1. CASE i \in 1 .. n
    <3>1. Describes(segs[i], d[segs[i].path], h) /\ segs[i].first \in Int
      BY <1>5, <2>1
    <3>2. Describes(segs[i], d[segs[i].path], s)
      <4>1. segs[i].first <= h
        BY <3>1 DEF Describes
      <4>2. segs[i].first <= s
        BY <1>1, <3>1, <4>1
      <4> QED BY <3>1, <4>2 DEF Describes
    <3> QED BY <1>5, <2>1, <3>2
  <2>2. CASE i = n + 1
    <3>1. Describes(x, <<>>, s)
      BY <1>1, <1>2, <1>7 DEF Describes
    <3> QED BY <1>3, <1>6, <2>2, <3>1
  <2> QED BY <1>4, <2>1, <2>2
<1>10. ASSUME NEW i \in 1 .. n + 1, NEW j \in 1 .. n + 1
       PROVE  /\ i < j => sg[i].path.stem < sg[j].path.stem
              /\ i <= j => \A k \in 1 .. Len(c[sg[j].path]) :
                             sg[i].first <= c[sg[j].path][k].group.seq
  <2>1. CASE i \in 1 .. n /\ j \in 1 .. n
    <3>1. /\ i < j => segs[i].path.stem < segs[j].path.stem
          /\ i <= j => \A k \in 1 .. Len(d[segs[j].path]) :
                         segs[i].first <= d[segs[j].path][k].group.seq
      BY <2>1 DEF SegmentsOK, n
    <3> QED BY SMTT(40), <1>5, <2>1, <3>1
  <2>2. CASE j = n + 1
    <3>1. \A k \in 1 .. Len(c[sg[j].path]) : FALSE
      BY <1>6, <1>7, <2>2
    <3>2. i < j => sg[i].path.stem < sg[j].path.stem
      <4>1. CASE i \in 1 .. n
        BY <1>1, <1>5, <1>6, <2>2, <4>1
      <4>2. CASE i = n + 1
        BY <1>1, <2>2, <4>2
      <4> QED BY <1>4, <4>1, <4>2
    <3> QED BY <3>1, <3>2
  <2>3. CASE i = n + 1 /\ j \in 1 .. n
    BY <1>1, <2>3
  <2> QED BY <1>4, <2>1, <2>2, <2>3
<1>11. Len(sg) = n + 1 /\ sg \in Seq(Segment)
  BY <1>3
<1>12. DOMAIN c = {sg[i].path : i \in 1 .. Len(sg)}
  BY <1>8, <1>11
<1>13. \A i \in 1 .. Len(sg) : Describes(sg[i], c[sg[i].path], s)
  BY <1>9, <1>11
<1>14. \A i, j \in 1 .. Len(sg) :
         /\ i < j => sg[i].path.stem < sg[j].path.stem
         /\ i <= j => \A k \in 1 .. Len(c[sg[j].path]) :
                        sg[i].first <= c[sg[j].path][k].group.seq
  BY <1>10, <1>11
<1> QED BY <1>11, <1>12, <1>13, <1>14 DEF SegmentsOK

(* The last segment after an append.                                       *)
GrownSegments(segs, g) ==
  [segs EXCEPT ![Len(segs)].bytes = @ + RecordBytes(g), ![Len(segs)].newest = g.ms]

(* What its fields are.                                                    *)
LEMMA GrownSegmentsAre ==
  ASSUME NEW segs \in Seq(Segment), segs # <<>>, NEW g \in Groups, NEW sg, sg = GrownSegments(segs, g)
  PROVE  /\ sg \in Seq(Segment) /\ Len(sg) = Len(segs)
         /\ \A i \in 1 .. Len(segs) :
              /\ sg[i].path = segs[i].path /\ sg[i].v2 = segs[i].v2 /\ sg[i].first = segs[i].first
              /\ i # Len(segs) => sg[i] = segs[i]
         /\ sg[Len(segs)].bytes = segs[Len(segs)].bytes + g.n + 1
         /\ sg[Len(segs)].newest = g.ms
<1> DEFINE n == Len(segs)
           x == [[segs[n] EXCEPT !.bytes = @ + RecordBytes(g)] EXCEPT !.newest = g.ms]
<1>1. n \in Nat /\ n \in 1 .. n /\ DOMAIN segs = 1 .. n
  BY EmptySeq
<1>2. RecordBytes(g) = g.n + 1 /\ g.n \in Nat /\ g.ms \in Nat
  BY EncodeIs, GroupIs DEF RecordBytes
<1>3. segs[n] \in Segment
  BY <1>1
<1>4. /\ segs[n].path \in Paths /\ segs[n].v2 \in BOOLEAN /\ segs[n].first \in Seqs
      /\ segs[n].bytes \in Nat
      /\ segs[n] = [path |-> segs[n].path, v2 |-> segs[n].v2, first |-> segs[n].first,
                    newest |-> segs[n].newest, bytes |-> segs[n].bytes]
  BY <1>3 DEF Segment
<1>5. x = [path |-> segs[n].path, v2 |-> segs[n].v2, first |-> segs[n].first,
           newest |-> g.ms, bytes |-> segs[n].bytes + RecordBytes(g)]
  <2> DEFINE y == [segs[n] EXCEPT !.bytes = @ + RecordBytes(g)]
  <2>1. segs[n].bytes + RecordBytes(g) \in Nat
    BY <1>2, <1>4
  <2>2. /\ y \in Segment
        /\ y = [path |-> segs[n].path, v2 |-> segs[n].v2, first |-> segs[n].first,
                newest |-> segs[n].newest, bytes |-> segs[n].bytes + RecordBytes(g)]
    BY <1>3, <2>1 DEF Segment
  <2>3. x = [y EXCEPT !.newest = g.ms]
    OBVIOUS
  <2> HIDE DEF y, x
  <2>4. x = [path |-> y.path, v2 |-> y.v2, first |-> y.first, newest |-> g.ms, bytes |-> y.bytes]
    BY <1>2, <2>2, <2>3 DEF Segment
  <2>5. y.path = segs[n].path /\ y.v2 = segs[n].v2 /\ y.first = segs[n].first
        /\ y.bytes = segs[n].bytes + RecordBytes(g)
    BY <2>2
  <2> QED BY <2>4, <2>5
<1>6. x \in Segment
  <2>1. segs[n].bytes + RecordBytes(g) \in Nat
    BY <1>2, <1>4
  <2> HIDE DEF x
  <2> QED BY <1>2, <1>4, <1>5, <2>1 DEF Segment
<1>7. sg = [segs EXCEPT ![n] = x]
  <2>1. sg = [[segs EXCEPT ![n] = [segs[n] EXCEPT !.bytes = @ + RecordBytes(g)]]
                EXCEPT ![n] = [([segs EXCEPT ![n] = [segs[n] EXCEPT !.bytes = @ + RecordBytes(g)]])[n]
                                 EXCEPT !.newest = g.ms]]
    BY DEF GrownSegments
  <2> QED BY <1>1, <2>1
<1> HIDE DEF x
<1>8. sg \in Seq(Segment) /\ Len(sg) = n /\ sg[n] = x /\ \A i \in 1 .. n : i # n => sg[i] = segs[i]
  <2> DEFINE z == [segs EXCEPT ![n] = x]
  <2>1. z \in Seq(Segment) /\ Len(z) = n
    BY <1>1, <1>6, ExceptSeq
  <2>2. z[n] = x /\ \A i \in 1 .. n : i # n => z[i] = segs[i]
    BY <1>1
  <2> HIDE DEF z
  <2>3. sg = z
    BY <1>7 DEF z
  <2> QED BY <2>1, <2>2, <2>3
<1>9. sg[n].bytes = segs[n].bytes + g.n + 1 /\ sg[n].newest = g.ms
  BY <1>2, <1>4, <1>5, <1>8
<1>10. ASSUME NEW i \in 1 .. n
       PROVE  /\ sg[i].path = segs[i].path /\ sg[i].v2 = segs[i].v2 /\ sg[i].first = segs[i].first
              /\ i # n => sg[i] = segs[i]
  BY <1>5, <1>8
<1> QED BY <1>8, <1>9, <1>10

(* An append: file p of d becomes new, in c.                               *)
Replaces(d, p, new, c) ==
  DOMAIN c = DOMAIN d /\ c[p] = new /\ \A q \in DOMAIN d \ {p} : c[q] = d[q]

(* An append changes the last segment as it changes the last file.         *)
LEMMA SegGrow ==
  ASSUME NEW d, NEW h, NEW t, DiskOK(d, h, t), NEW segs, SegmentsOK(segs, d, h), segs # <<>>,
         NEW p, p = segs[Len(segs)].path,
         NEW g \in Groups, g.seq = h, g.ms = t,
         NEW new, Grown(d[p], g, g.n + 1, new), Laid(new), InOrder(new, p, h, t),
         NEW c, Replaces(d, p, new, c),
         NEW sg, sg = GrownSegments(segs, g)
  PROVE  SegmentsOK(sg, c, h)
<1> DEFINE n == Len(segs)
           L == Len(d[p])
<1>1. n \in 1 .. n /\ n \in Nat
  BY LastIsNewest
<1>2. /\ segs[n].path \in DOMAIN d /\ Describes(segs[n], d[p], h)
      /\ segs[n].first \in Int /\ segs[n].bytes \in Nat /\ segs \in Seq(Segment)
  BY <1>1, SegIs
<1>3. L \in Nat /\ h \in Int /\ t \in Nat /\ g.n \in Nat
  BY <1>2, FileIs, LaidIs, GroupIs
<1>4. sg \in Seq(Segment) /\ Len(sg) = n
  BY <1>2, GrownSegmentsAre
<1>a. ASSUME NEW i \in 1 .. n
      PROVE  /\ sg[i].path = segs[i].path /\ sg[i].v2 = segs[i].v2
             /\ sg[i].first = segs[i].first /\ (i # n => sg[i] = segs[i])
  BY <1>2, GrownSegmentsAre
<1>b. sg[n].bytes = segs[n].bytes + g.n + 1 /\ sg[n].newest = t
  BY <1>2, GrownSegmentsAre
<1>c. segs[n].path = p
  OBVIOUS
<1>5. /\ Len(new) = L + (g.n + 1)
      /\ \A i \in 1 .. L : new[i] = d[p][i]
      /\ \A j \in 1 .. g.n + 1 : new[L + j] = [group |-> g, at |-> j]
  BY DEF Grown
<1> HIDE DEF n, L
<1>6. ASSUME NEW i \in 1 .. n, i # n
      PROVE  sg[i] = segs[i] /\ segs[i].path # p /\ c[sg[i].path] = d[segs[i].path] /\ sg[n].path = p
  <2>1. segs[i].path # segs[n].path /\ segs[i].path \in DOMAIN d
    <3>1. i \in 1 .. Len(segs) /\ n \in 1 .. Len(segs)
      BY <1>1 DEF n
    <3> QED BY <1>6, <3>1, SegDistinct, SegIs
  <2>2. sg[i] = segs[i] /\ sg[n].path = p
    BY <1>1, <1>a, <1>c, <1>6
  <2> QED BY <1>c, <2>1, <2>2 DEF Replaces
<1>7. sg[n].path = p /\ c[sg[n].path] = new
  <2>1. sg[n].path = p
    BY <1>1, <1>a, <1>c
  <2> QED BY <2>1 DEF Replaces
<1>8. ASSUME NEW k \in 1 .. Len(new)
      PROVE  /\ \/ k \in 1 .. L /\ new[k] = d[p][k]
                \/ new[k].group = g
             /\ new[k].group.ms <= t
  <2>1. Laid(d[p])
    BY <1>2, FileIs DEF n
  <2>2. g.n + 1 \in 0 .. g.n + 1
    BY <1>3
  <2>3. (k \in 1 .. L /\ new[k] = d[p][k]) \/ new[k].group = g
    BY <2>1, <2>2, GrownCells DEF L
  <2>4. new[k].group.ms <= t
    BY DEF InOrder
  <2> QED BY <2>3, <2>4
<1>9. Describes(sg[n], new, h)
  <2>1. L + (g.n + 1) \in 1 .. L + (g.n + 1) /\ g.n + 1 \in 1 .. g.n + 1
    BY <1>3
  <2>2. new[L + (g.n + 1)].group = g
    <3> DEFINE j == g.n + 1
    <3>1. j \in 1 .. g.n + 1
      BY <2>1
    <3> HIDE DEF j
    <3>2. new[L + j] = [group |-> g, at |-> j]
      BY <1>5, <3>1
    <3>3. new[L + j].group = g
      BY <3>2
    <3> QED BY <3>3 DEF j
  <2>3. \E k \in 1 .. Len(new) : new[k].group.ms = sg[n].newest
    BY <1>5, <1>b, <2>1, <2>2
  <2>4. sg[n].bytes = Len(new)
    <3>1. segs[n].bytes = L
      BY <1>2 DEF Describes, L
    <3> QED BY <1>3, <1>5, <1>b, <3>1
  <2>5. sg[n].v2 = sg[n].path.v2 /\ sg[n].first <= h
    <3>1. segs[n].v2 = segs[n].path.v2 /\ segs[n].first <= h
      BY <1>2 DEF Describes
    <3> QED BY <1>1, <1>a, <3>1
  <2> QED BY <1>8, <1>b, <2>3, <2>4, <2>5 DEF Describes
<1>10. ASSUME NEW i \in 1 .. n PROVE Describes(sg[i], c[sg[i].path], h)
  <2>1. CASE i = n
    BY <1>7, <1>9, <2>1
  <2>2. CASE i # n
    BY <1>6, <2>2, SegIs DEF n
  <2> QED BY <2>1, <2>2
<1>11. ASSUME NEW i \in 1 .. n, NEW j \in 1 .. n
       PROVE  /\ i < j => sg[i].path.stem < sg[j].path.stem
              /\ i <= j => \A k \in 1 .. Len(c[sg[j].path]) :
                             sg[i].first <= c[sg[j].path][k].group.seq
  <2>1. /\ i < j => segs[i].path.stem < segs[j].path.stem
        /\ i <= j => \A k \in 1 .. Len(d[segs[j].path]) :
                       segs[i].first <= d[segs[j].path][k].group.seq
    BY DEF SegmentsOK, n
  <2>2. sg[i].path = segs[i].path /\ sg[j].path = segs[j].path /\ sg[i].first = segs[i].first
    BY <1>a
  <2>3. CASE j # n
    BY <1>6, <2>1, <2>2, <2>3
  <2>4. CASE j = n
    <3>1. ASSUME NEW k \in 1 .. Len(new), i <= n PROVE sg[i].first <= new[k].group.seq
      <4>1. CASE k \in 1 .. L /\ new[k] = d[p][k]
        BY <2>1, <2>2, <2>4, <3>1, <4>1 DEF n, L
      <4>2. CASE new[k].group = g
        <5>1. segs[i].first <= h
          BY SegIs DEF Describes, n
        <5> QED BY <2>2, <4>2, <5>1
      <4> QED BY <1>8, <4>1, <4>2
    <3> QED BY <1>7, <2>1, <2>2, <2>4, <3>1
  <2> QED BY <2>3, <2>4
<1>12. DOMAIN c = {sg[i].path : i \in 1 .. Len(sg)}
  <2>1. DOMAIN d = {segs[i].path : i \in 1 .. n}
    BY DEF SegmentsOK, n
  <2>2. {sg[i].path : i \in 1 .. n} = {segs[i].path : i \in 1 .. n}
    BY <1>a
  <2>3. DOMAIN c = DOMAIN d
    BY DEF Replaces
  <2> QED BY <1>4, <2>1, <2>2, <2>3
<1>13. \A i \in 1 .. Len(sg) : Describes(sg[i], c[sg[i].path], h)
  BY <1>4, <1>10
<1>14. \A i, j \in 1 .. Len(sg) :
         /\ i < j => sg[i].path.stem < sg[j].path.stem
         /\ i <= j => \A k \in 1 .. Len(c[sg[j].path]) :
                        sg[i].first <= c[sg[j].path][k].group.seq
  BY <1>4, <1>11
<1>15. sg \in Seq(Segment)
  BY <1>4
<1> QED BY <1>12, <1>13, <1>14, <1>15 DEF SegmentsOK

(* GC: c is d without the file p.                                          *)
IsRest(sg, segs) == sg = Tail(segs)

(* GC drops the oldest segment.                                            *)
LEMMA SegDrop ==
  ASSUME NEW segs, NEW d, NEW h, SegmentsOK(segs, d, h), Len(segs) > 1,
         NEW c, Drops(d, segs[1].path, c),
         NEW sg, IsRest(sg, segs)
  PROVE  /\ SegmentsOK(sg, c, h) /\ Len(sg) = Len(segs) - 1
         /\ \A i \in 1 .. Len(sg) : /\ i + 1 \in 2 .. Len(segs) /\ sg[i] = segs[i + 1]
                                    /\ c[sg[i].path] = d[segs[i + 1].path]
<1> DEFINE n == Len(segs)
           m == Len(sg)
<1>1. segs \in Seq(Segment) /\ n \in Nat
  BY DEF SegmentsOK
<1>2. /\ sg \in Seq(Segment) /\ m = n - 1 /\ m \in Nat
      /\ \A i \in 1 .. m : sg[i] = segs[i + 1]
  <2>1. segs # <<>>
    BY <1>1
  <2> QED BY <1>1, <2>1, HeadTailProperties DEF IsRest
<1> HIDE DEF n, m
<1>3. ASSUME NEW i \in 1 .. m
      PROVE  /\ i + 1 \in 2 .. n /\ i + 1 \in 1 .. n /\ sg[i] = segs[i + 1]
             /\ segs[i + 1].path \in DOMAIN c
             /\ c[sg[i].path] = d[segs[i + 1].path]
  <2>1. i + 1 \in 2 .. n /\ i + 1 \in 1 .. n /\ 1 \in 1 .. n /\ i + 1 # 1
    BY <1>1, <1>2
  <2>2. segs[i + 1].path # segs[1].path /\ segs[i + 1].path \in DOMAIN d
    BY <2>1, SegDistinct, SegIs DEF n
  <2> QED BY <1>2, <2>1, <2>2 DEF Drops
<1>4. DOMAIN c = {sg[i].path : i \in 1 .. m}
  <2>1. DOMAIN d = {segs[i].path : i \in 1 .. n}
    BY DEF SegmentsOK, n
  <2>2. ASSUME NEW p \in DOMAIN c PROVE \E i \in 1 .. m : p = sg[i].path
    <3>1. PICK j \in 1 .. n : p = segs[j].path /\ j # 1
      BY <2>1 DEF Drops
    <3>2. j - 1 \in 1 .. m /\ (j - 1) + 1 = j
      BY <1>1, <1>2, <3>1
    <3>3. sg[j - 1] = segs[j]
      BY <1>2, <3>2
    <3> QED BY <3>1, <3>2, <3>3
  <2>3. ASSUME NEW i \in 1 .. m PROVE sg[i].path \in DOMAIN c
    BY <1>3
  <2> QED BY <2>2, <2>3
<1>5. ASSUME NEW i \in 1 .. m PROVE Describes(sg[i], c[sg[i].path], h)
  BY <1>3, SegIs DEF n
<1>6. ASSUME NEW i \in 1 .. m, NEW j \in 1 .. m
      PROVE  /\ i < j => sg[i].path.stem < sg[j].path.stem
             /\ i <= j => \A k \in 1 .. Len(c[sg[j].path]) :
                            sg[i].first <= c[sg[j].path][k].group.seq
  <2> DEFINE a == i + 1
             b == j + 1
  <2>1. a \in 1 .. n /\ b \in 1 .. n /\ (i < j => a < b) /\ (i <= j => a <= b)
    BY <1>3
  <2>2. sg[i] = segs[a] /\ sg[j] = segs[b] /\ c[sg[j].path] = d[segs[b].path]
    BY <1>3
  <2> HIDE DEF a, b
  <2>3. /\ a < b => segs[a].path.stem < segs[b].path.stem
        /\ a <= b => \A k \in 1 .. Len(d[segs[b].path]) :
                       segs[a].first <= d[segs[b].path][k].group.seq
    BY <2>1 DEF SegmentsOK, n
  <2> QED BY <2>1, <2>2, <2>3
<1>7. SegmentsOK(sg, c, h)
  BY <1>2, <1>4, <1>5, <1>6 DEF SegmentsOK, m
<1> QED BY <1>2, <1>3, <1>7 DEF n, m

-----------------------------------------------------------------------------
(* The index after each step.                                              *)

(* The greater of two numbers.                                             *)
LEMMA MaxOfTwo ==
  ASSUME NEW a \in Int, NEW b \in Int
  PROVE  Max({a, b}) \in Int /\ a <= Max({a, b}) /\ b <= Max({a, b})
<1>1. \E x \in {a, b} : \A y \in {a, b} : x >= y
  BY a <= b \/ b <= a
<1>2. Max({a, b}) \in {a, b} /\ \A y \in {a, b} : Max({a, b}) >= y
  BY <1>1 DEF Max
<1> QED BY <1>2

(* A new, empty segment.                                                   *)
LEMMA IndexNew ==
  ASSUME NEW idx, NEW m, NEW segs, NEW d, IndexOK(idx, m, segs, d),
         NEW h \in Int, SegmentsOK(segs, d, h), NEW path, path \notin DOMAIN d,
         NEW s, NEW c, c[path] = <<>>, \A p \in DOMAIN d : c[p] = d[p],
         NEW sg, sg = WithNew(segs, path, s), NewSegment(path, s) \in Segment
  PROVE  IndexOK(idx, m, sg, c)
<1> DEFINE n == Len(segs)
<1>1. segs \in Seq(Segment) /\ n \in Nat
  BY DEF SegmentsOK
<1>2. /\ Len(sg) = n + 1 /\ sg[n + 1] = NewSegment(path, s)
      /\ \A i \in 1 .. n : sg[i] = segs[i]
  BY <1>1, AppendProperties DEF WithNew
<1> HIDE DEF n
<1>3. \A x \in DOMAIN idx : idx[x] \in [segment : 1 .. n, offset : Nat, ms : Nat]
  BY DEF IndexOK, n
<1>4. 1 .. n \subseteq 1 .. n + 1
  BY <1>1
<1>5. ASSUME NEW i \in 1 .. n + 1, NEW o \in Whole(c[sg[i].path])
      PROVE  LET x == GroupAt(c[sg[i].path], o).seq IN
             /\ x \in DOMAIN idx /\ idx[x].segment = i /\ idx[x].offset = o /\ x <= m
  <2>1. i \in 1 .. n
    <3> SUFFICES ASSUME i = n + 1 PROVE FALSE
      BY <1>1
    <3>1. c[sg[i].path] = <<>>
      BY <1>2 DEF NewSegment
    <3>2. Whole(<<>>) = {}
      BY DEF Whole
    <3> QED BY <3>1, <3>2
  <2>2. c[sg[i].path] = d[segs[i].path]
    BY <1>2, <2>1, SegIs DEF n
  <2>3. o \in Whole(d[segs[i].path]) /\ i \in 1 .. Len(segs)
    BY <2>1, <2>2 DEF n
  <2>4. LET x == GroupAt(d[segs[i].path], o).seq IN
        x \in DOMAIN idx /\ idx[x].segment = i /\ idx[x].offset = o /\ x <= m
    BY <2>3 DEF IndexOK
  <2> QED BY <2>2, <2>4
<1>6. m \in Int
  BY DEF IndexOK
<1>7. \A x \in DOMAIN idx : idx[x] \in [segment : 1 .. Len(sg), offset : Nat, ms : Nat]
  BY <1>2, <1>3, <1>4
<1>8. \A i \in 1 .. Len(sg) : \A o \in Whole(c[sg[i].path]) :
        LET x == GroupAt(c[sg[i].path], o).seq IN
        x \in DOMAIN idx /\ idx[x].segment = i /\ idx[x].offset = o /\ x <= m
  BY <1>2, <1>5
<1> QED BY <1>6, <1>7, <1>8 DEF IndexOK

(* An append adds one entry, at the logical end of the last segment.       *)
IndexWith(idx, segs, g) ==
  Put(idx, g.seq, [segment |-> Len(segs), offset |-> segs[Len(segs)].bytes, ms |-> g.ms])

LEMMA IndexGrow ==
  ASSUME NEW d, NEW h, NEW t, DiskOK(d, h, t), NEW segs, SegmentsOK(segs, d, h), segs # <<>>,
         NEW p, p = segs[Len(segs)].path, Uncut(d[p]),
         NEW g \in Groups, g.seq = h, Below(d, h),
         NEW new, Grown(d[p], g, g.n + 1, new),
         NEW c, Replaces(d, p, new, c), NEW sg, sg = GrownSegments(segs, g),
         NEW idx, NEW m, IndexOK(idx, m, segs, d), NEW ix, ix = IndexWith(idx, segs, g)
  PROVE  IndexOK(ix, Max({m, g.seq}), sg, c)
<1> DEFINE n == Len(segs)
           L == Len(d[p])
           x == [segment |-> n, offset |-> segs[n].bytes, ms |-> g.ms]
           z == Max({m, g.seq})
<1>1. n \in 1 .. n /\ n \in Nat
  BY LastIsNewest
<1>2. /\ p \in DOMAIN d /\ segs[n].bytes = L /\ segs[n].bytes \in Nat /\ segs \in Seq(Segment)
  BY <1>1, SegIs DEF Describes
<1>3. Laid(d[p]) /\ h \in Int /\ g.ms \in Nat /\ g.n + 1 \in 0 .. g.n + 1
  BY <1>2, FileIs, GroupIs
<1>4. Len(sg) = n
  BY <1>2, GrownSegmentsAre
<1>5. ASSUME NEW i \in 1 .. n PROVE sg[i].path = segs[i].path
  BY <1>2, GrownSegmentsAre
<1>6. m \in Int /\ z \in Int /\ m <= z /\ g.seq <= z
  <2>1. m \in Int /\ g.seq \in Int
    BY <1>3 DEF IndexOK
  <2> QED BY <2>1, MaxOfTwo
<1>7. /\ Whole(new) = Whole(d[p]) \cup {L} /\ GroupAt(new, L) = g
      /\ \A o \in Whole(d[p]) : GroupAt(new, o) = GroupAt(d[p], o)
  BY <1>3, GrownIs
<1>8. DOMAIN ix = DOMAIN idx \cup {h} /\ ix[h] = x /\ \A s \in DOMAIN idx : s # h => ix[s] = idx[s]
  BY DEF IndexWith, Put
<1>9. x \in [segment : 1 .. n, offset : Nat, ms : Nat]
  BY <1>1, <1>2, <1>3
<1>10. x.segment = n /\ x.offset = L
  BY <1>2
<1> HIDE DEF x, z, n, L
<1>11. \A s \in DOMAIN ix : ix[s] \in [segment : 1 .. Len(sg), offset : Nat, ms : Nat]
  <2>1. \A s \in DOMAIN idx : idx[s] \in [segment : 1 .. n, offset : Nat, ms : Nat]
    BY DEF IndexOK, n
  <2> QED BY <1>4, <1>8, <1>9, <2>1
<1>12. ASSUME NEW i \in 1 .. n, NEW o \in Whole(d[segs[i].path])
       PROVE  LET s == GroupAt(d[segs[i].path], o).seq IN
              s \in DOMAIN ix /\ ix[s].segment = i /\ ix[s].offset = o /\ s <= z
  <2> DEFINE f == d[segs[i].path]
             s == GroupAt(f, o).seq
  <2>1. segs[i].path \in DOMAIN d /\ Laid(f)
    BY SegIs, FileIs DEF n
  <2>2. o + 1 \in 1 .. Len(f) /\ s = f[o + 1].group.seq /\ s \in Int
    BY <2>1, WholeIs, GroupIs
  <2>3. s < h
    BY <2>1, <2>2 DEF Below
  <2>4. s \in DOMAIN idx /\ idx[s].segment = i /\ idx[s].offset = o /\ s <= m
    BY DEF IndexOK, n
  <2> HIDE DEF s
  <2>5. s # h /\ s <= z
    <3>1. m \in Int /\ z \in Int /\ m <= z /\ h \in Int
      BY <1>3, <1>6
    <3>2. s \in Int /\ s < h /\ s <= m
      BY <2>2, <2>3, <2>4
    <3> QED BY SMTT(40), <3>1, <3>2
  <2> QED BY <1>8, <2>4, <2>5 DEF s
<1>13. ASSUME NEW i \in 1 .. n, NEW o \in Whole(c[sg[i].path])
       PROVE  LET s == GroupAt(c[sg[i].path], o).seq IN
              s \in DOMAIN ix /\ ix[s].segment = i /\ ix[s].offset = o /\ s <= z
  <2>0. sg[i].path = segs[i].path /\ segs[i].path \in DOMAIN d
    BY <1>5, SegIs DEF n
  <2>1. CASE i # n
    <3>1. segs[i].path # p
      BY <1>1, <2>1, SegDistinct DEF n
    <3>2. c[sg[i].path] = d[segs[i].path]
      BY <2>0, <3>1 DEF Replaces
    <3> DEFINE f == d[segs[i].path]
    <3>3. c[sg[i].path] = f
      BY <3>2
    <3>4. o \in Whole(f)
      BY <3>3
    <3>5. LET s == GroupAt(f, o).seq IN
          s \in DOMAIN ix /\ ix[s].segment = i /\ ix[s].offset = o /\ s <= z
      BY <1>12, <3>4
    <3> HIDE DEF f
    <3> QED BY <3>3, <3>5, ZenonT(60)
  <2>2. CASE i = n
    <3>1. c[sg[i].path] = new /\ segs[i].path = p
      BY <2>0, <2>2 DEF Replaces, n
    <3>2. CASE o \in Whole(d[p])
      <4>1. GroupAt(new, o) = GroupAt(d[p], o)
        BY <1>7, <3>2
      <4>2. o \in Whole(d[segs[i].path])
        BY <3>1, <3>2
      <4>3. LET s == GroupAt(d[segs[i].path], o).seq IN
            s \in DOMAIN ix /\ ix[s].segment = i /\ ix[s].offset = o /\ s <= z
        BY <1>12, <4>2
      <4> QED BY <3>1, <4>1, <4>3
    <3>3. CASE o = L
      <4>1. GroupAt(c[sg[i].path], o).seq = h
        BY <1>7, <3>1, <3>3
      <4>2. h \in DOMAIN ix /\ ix[h].segment = i /\ ix[h].offset = o /\ h <= z
        BY <1>6, <1>8, <1>10, <2>2, <3>3
      <4> QED BY <4>1, <4>2
    <3> QED BY <1>7, <3>1, <3>2, <3>3
  <2> QED BY <2>1, <2>2
<1>14. \A i \in 1 .. Len(sg) : \A o \in Whole(c[sg[i].path]) :
         LET s == GroupAt(c[sg[i].path], o).seq IN
         s \in DOMAIN ix /\ ix[s].segment = i /\ ix[s].offset = o /\ s <= z
  BY <1>4, <1>13
<1>15. IndexOK(ix, z, sg, c)
  BY <1>6, <1>11, <1>14 DEF IndexOK
<1> QED BY <1>15 DEF z

(* GC keeps the entries of every segment but the first.                    *)
IndexWithout ==
  [s \in {x \in DOMAIN index : SurvivesDrop(x)} |->
     [index[s] EXCEPT !.segment = ShiftedSegment(index[s])]]

LEMMA IndexDrop ==
  ASSUME NEW h, NEW t, DiskOK(disk, h, t), SegmentsOK(segments, disk, h), Len(segments) > 1,
         NEW c, Drops(disk, segments[1].path, c), NEW sg, IsRest(sg, segments),
         IndexOK(index, maxSeq, segments, disk), NEW ix, ix = IndexWithout
  PROVE  IndexOK(ix, maxSeq, sg, c)
<1> DEFINE n == Len(segments)
           m == Len(sg)
<1>1. m = n - 1 /\ n \in Nat /\ n > 1 /\ 2 \in 1 .. n
  <2>1. m = n - 1
    BY SegDrop
  <2>2. n \in Nat
    BY DEF SegmentsOK
  <2> QED BY <2>1, <2>2
<1>2. ASSUME NEW i \in 1 .. m
      PROVE  /\ i + 1 \in 2 .. n /\ sg[i] = segments[i + 1]
             /\ c[sg[i].path] = disk[segments[i + 1].path]
  BY SMTT(40), SegDrop
<1> HIDE DEF n, m
<1>3. \A s \in DOMAIN index : index[s] \in [segment : 1 .. n, offset : Nat, ms : Nat]
  BY DEF IndexOK, n
<1>4. ASSUME NEW s \in DOMAIN ix
      PROVE  /\ s \in DOMAIN index /\ ix[s] \in [segment : 1 .. m, offset : Nat, ms : Nat]
             /\ ix[s].offset = index[s].offset
             /\ index[s].segment > 1 => ix[s].segment = index[s].segment - 1
  <2>1. s \in DOMAIN index /\ ix[s] = [index[s] EXCEPT !.segment = ShiftedSegment(index[s])]
    BY DEF IndexWithout
  <2>2. index[s] \in [segment : 1 .. n, offset : Nat, ms : Nat]
    BY <1>3, <2>1
  <2>3. ShiftedSegment(index[s]) \in 1 .. m
    BY <1>1, <2>2 DEF ShiftedSegment
  <2>4. index[s].segment > 1 => ShiftedSegment(index[s]) = index[s].segment - 1
    BY DEF ShiftedSegment
  <2>5. /\ ix[s] \in [segment : 1 .. m, offset : Nat, ms : Nat]
        /\ ix[s].offset = index[s].offset /\ ix[s].segment = ShiftedSegment(index[s])
    BY <2>1, <2>2, <2>3
  <2> QED BY <2>1, <2>4, <2>5
<1>5. ASSUME NEW i \in 1 .. m, NEW o \in Whole(c[sg[i].path])
      PROVE  LET s == GroupAt(c[sg[i].path], o).seq IN
             s \in DOMAIN ix /\ ix[s].segment = i /\ ix[s].offset = o /\ s <= maxSeq
  <2> DEFINE j == i + 1
             f == disk[segments[j].path]
             s == GroupAt(f, o).seq
  <2>1. j \in 2 .. n /\ j \in 1 .. n /\ c[sg[i].path] = f /\ j > 1 /\ i = j - 1
    <3>1. i + 1 \in 2 .. n /\ c[sg[i].path] = disk[segments[i + 1].path]
      BY <1>2
    <3> QED BY <1>1, <3>1
  <2> HIDE DEF j
  <2>2. segments[j].path \in DOMAIN disk /\ Laid(f)
    BY <2>1, SegIs, FileIs DEF n
  <2>3. o \in Whole(f)
    BY <2>1
  <2>4. o + 1 \in 1 .. Len(f) /\ s = f[o + 1].group.seq /\ s \in Int
    BY <2>2, <2>3, WholeIs, GroupIs
  <2>5. s \in DOMAIN index /\ index[s].segment = j /\ index[s].offset = o /\ s <= maxSeq
    BY <2>1, <2>3 DEF IndexOK, n
  <2>6. segments[2].first <= s
    <3>1. 2 <= j
      BY <2>1
    <3>2. segments[2].first <= f[o + 1].group.seq
      BY <1>1, <2>1, <2>4, <3>1 DEF SegmentsOK, n
    <3> QED BY <2>4, <3>2
  <2>7. segments[2].first \in Int
    BY <1>1, SegIs DEF n
  <2> HIDE DEF s, f
  <2>8. s \in DOMAIN ix
    <3>1. SurvivesDrop(s)
      BY <2>4, <2>6, <2>7 DEF SurvivesDrop, s
    <3> QED BY <2>5, <3>1 DEF IndexWithout
  <2>9. ix[s].segment = i /\ ix[s].offset = o
    BY <1>4, <2>1, <2>5, <2>8
  <2> QED BY <2>1, <2>5, <2>8, <2>9 DEF s
<1>6. maxSeq \in Int
  BY DEF IndexOK
<1> QED BY <1>4, <1>5, <1>6 DEF IndexOK, m

-----------------------------------------------------------------------------
(* Opening the store.                                                      *)

InStemOrder(q, n) == \A i, j \in 1 .. n : i < j => q[i].stem < q[j].stem

(* The files can be put in the order of their names, by counting for each  *)
(* of them the files up to it.                                             *)
LEMMA OrderExists ==
  ASSUME NEW d, NEW h, NEW t, DiskOK(d, h, t)
  PROVE  \E q \in [1 .. Cardinality(DOMAIN d) -> DOMAIN d] :
           InStemOrder(q, Cardinality(DOMAIN d))
<1> DEFINE D == DOMAIN d
           n == Cardinality(D)
           UpTo(p) == {q \in D : q.stem <= p.stem}
           rank == [p \in D |-> Cardinality(UpTo(p))]
<1>1. IsFiniteSet(D) /\ n \in Nat
  BY FS_CardinalityType DEF DiskOK
<1>2. \A p \in D : p.stem \in Int
  BY FileIs
<1>3. \A p, q \in D : p.stem = q.stem => p = q
  BY DEF DiskOK, Apart
<1> HIDE DEF D
<1>4. ASSUME NEW p \in D
      PROVE  /\ IsFiniteSet(UpTo(p)) /\ p \in UpTo(p)
             /\ Cardinality(UpTo(p)) \in Nat /\ Cardinality(UpTo(p)) <= n
             /\ Cardinality(UpTo(p)) # 0
  <2>1. UpTo(p) \in SUBSET D /\ p \in UpTo(p)
    BY <1>2
  <2> HIDE DEF UpTo
  <2>2. IsFiniteSet(UpTo(p)) /\ Cardinality(UpTo(p)) <= n
    BY <1>1, <2>1, FS_Subset
  <2> QED BY <2>1, <2>2, FS_CardinalityType, FS_EmptySet
<1>5. ASSUME NEW p \in D, NEW q \in D, p.stem < q.stem
      PROVE  rank[p] < rank[q]
  <2>1. UpTo(p) \in SUBSET UpTo(q) /\ q \notin UpTo(p) /\ q \in UpTo(q)
    BY <1>2, <1>5
  <2>2. rank[p] = Cardinality(UpTo(p)) /\ rank[q] = Cardinality(UpTo(q))
    OBVIOUS
  <2> HIDE DEF UpTo, rank
  <2>3. IsFiniteSet(UpTo(q)) /\ Cardinality(UpTo(p)) \in Nat /\ Cardinality(UpTo(q)) \in Nat
    BY <1>4
  <2>4. /\ Cardinality(UpTo(p)) <= Cardinality(UpTo(q))
        /\ Cardinality(UpTo(q)) = Cardinality(UpTo(p)) => UpTo(q) = UpTo(p)
    BY <2>1, <2>3, FS_Subset
  <2> QED BY <2>1, <2>2, <2>3, <2>4
<1>6. rank \in Injection(D, 1 .. n)
  <2>1. ASSUME NEW p \in D PROVE rank[p] \in 1 .. n
    <3>1. rank[p] = Cardinality(UpTo(p))
      OBVIOUS
    <3> HIDE DEF rank, UpTo
    <3> QED BY <1>1, <1>4, <3>1
  <2>2. ASSUME NEW p \in D, NEW q \in D, rank[p] = rank[q] PROVE p = q
    <3> HIDE DEF rank
    <3>1. ~(p.stem < q.stem) /\ ~(q.stem < p.stem)
      <4>1. rank[p] \in Int /\ rank[q] \in Int
        BY <1>1, <2>1
      <4> QED BY <1>5, <2>2, <4>1
    <3> QED BY <1>2, <1>3, <3>1
  <2>3. rank \in [D -> 1 .. n]
    BY <2>1
  <2> HIDE DEF rank
  <2> QED BY <2>2, <2>3 DEF Injection, IsInjective
<1> HIDE DEF rank
<1>7. rank \in Surjection(D, 1 .. n)
  <2>1. IsFiniteSet(1 .. n) /\ Cardinality(1 .. n) = n
    BY <1>1, FS_Interval
  <2> QED BY <1>6, <2>1, FS_Injection DEF n
<1> DEFINE q == [i \in 1 .. n |-> CHOOSE p \in D : rank[p] = i]
<1>8. ASSUME NEW i \in 1 .. n PROVE q[i] \in D /\ rank[q[i]] = i
  <2>1. \E p \in D : rank[p] = i
    BY <1>7 DEF Surjection
  <2> QED BY <2>1
<1>9. q \in [1 .. n -> D]
  BY <1>8
<1> HIDE DEF q
<1>10. InStemOrder(q, n)
  <2> SUFFICES ASSUME NEW i \in 1 .. n, NEW j \in 1 .. n, i < j PROVE q[i].stem < q[j].stem
    BY DEF InStemOrder
  <2>1. q[i] \in D /\ rank[q[i]] = i /\ q[j] \in D /\ rank[q[j]] = j
    BY <1>8
  <2>2. ~(q[j].stem < q[i].stem)
    <3> SUFFICES ASSUME q[j].stem < q[i].stem PROVE FALSE
      OBVIOUS
    <3>1. rank[q[j]] < rank[q[i]]
      BY <1>5, <2>1
    <3> QED BY <1>1, <2>1, <3>1
  <2>3. q[i].stem # q[j].stem
    <3> SUFFICES ASSUME q[i].stem = q[j].stem PROVE FALSE
      OBVIOUS
    <3>1. q[i] = q[j]
      BY <1>3, <2>1
    <3>2. i = j
      BY <2>1, <3>1
    <3> QED BY <1>1, <3>2
  <2> QED BY <1>2, <2>1, <2>2, <2>3
<1> QED BY <1>9, <1>10 DEF n, D

(* ByStem is such an order, and leaves no file out.                        *)
LEMMA ByStemIs ==
  ASSUME NEW h, NEW t, DiskOK(disk, h, t), NEW n, n = Cardinality(DOMAIN disk)
  PROVE  /\ n \in Nat /\ ByStem \in [1 .. n -> DOMAIN disk] /\ Len(ByStem) = n
         /\ InStemOrder(ByStem, n)
         /\ \A p \in DOMAIN disk : \E i \in 1 .. n : ByStem[i] = p
<1> DEFINE D == DOMAIN disk
           q == ByStem
<1>1. IsFiniteSet(D) /\ n \in Nat
  BY FS_CardinalityType DEF DiskOK
<1>2. \A p \in D : p.stem \in Int
  BY FileIs
<1>3. q \in [1 .. n -> D] /\ InStemOrder(q, n)
  <2>1. \E f \in [1 .. n -> D] : InStemOrder(f, n)
    BY OrderExists
  <2>2. q = CHOOSE f \in [1 .. n -> D] : InStemOrder(f, n)
    BY DEF ByStem, InStemOrder
  <2> HIDE DEF q, D
  <2> QED BY <2>1, <2>2
<1> HIDE DEF q
<1>4. q \in Injection(1 .. n, D)
  <2>1. ASSUME NEW i \in 1 .. n, NEW j \in 1 .. n, q[i] = q[j] PROVE i = j
    <3>1. q[i].stem \in Int /\ ~(q[i].stem < q[j].stem) /\ ~(q[j].stem < q[i].stem)
      BY <1>2, <1>3, <2>1
    <3>2. ~(i < j) /\ ~(j < i)
      BY <1>3, <3>1 DEF InStemOrder
    <3> QED BY <1>1, <3>2
  <2> QED BY <1>3, <2>1 DEF Injection, IsInjective
<1>5. q \in Surjection(1 .. n, D)
  <2>1. IsFiniteSet(1 .. n) /\ Cardinality(1 .. n) = n
    BY <1>1, FS_Interval
  <2> QED BY <1>1, <1>4, <2>1, FS_Injection
<1>6. \A p \in D : \E i \in 1 .. n : q[i] = p
  BY <1>5 DEF Surjection
<1>7. Len(q) = n
  <2>1. q \in Seq(D)
    BY <1>1, <1>3
  <2> QED BY <1>1, <1>3, <2>1, LenProperties
<1> QED BY <1>1, <1>3, <1>6, <1>7 DEF q

(* The index entries that scan() finds: segment numbers and offsets.       *)
Places(order) ==
  UNION {{[segment |-> i, offset |-> o] : o \in ScanOffsets(disk[order[i]], order[i].v2)} :
         i \in 1 .. Len(order)}

At(order, e) == GroupAt(disk[order[e.segment]], e.offset)

IsLast(order, s, e) ==
  /\ At(order, e).seq = s
  /\ \A x \in Places(order) : At(order, x).seq = s =>
       \/ x.segment < e.segment
       \/ x.segment = e.segment /\ x.offset <= e.offset

LastOf(order, s) == CHOOSE e \in Places(order) : IsLast(order, s, e)

(* What scan() builds, in those words.                                     *)
LEMMA ScanIndexIs ==
  ASSUME NEW order
  PROVE  ScanIndex(order) =
           [s \in {At(order, e).seq : e \in Places(order)} |->
              [segment |-> LastOf(order, s).segment, offset |-> LastOf(order, s).offset,
               ms |-> At(order, LastOf(order, s)).ms]]
  BY DEF ScanIndex, Places, At, IsLast, LastOf

(* The places are the whole records of the files.                          *)
LEMMA PlacesAre ==
  ASSUME NEW h, NEW t, DiskOK(disk, h, t), NEW n, n = Cardinality(DOMAIN disk)
  PROVE  /\ \A e \in Places(ByStem) :
              /\ e.segment \in 1 .. n /\ e.offset \in Whole(disk[ByStem[e.segment]])
              /\ e = [segment |-> e.segment, offset |-> e.offset]
         /\ \A i \in 1 .. n : \A o \in Whole(disk[ByStem[i]]) :
              [segment |-> i, offset |-> o] \in Places(ByStem)
<1> DEFINE q == ByStem
<1>1. q \in [1 .. n -> DOMAIN disk] /\ Len(q) = n
  BY ByStemIs
<1> HIDE DEF q
<1>2. ASSUME NEW i \in 1 .. n PROVE ScanOffsets(disk[q[i]], q[i].v2) = Whole(disk[q[i]])
  <2>1. Laid(disk[q[i]]) /\ InOrder(disk[q[i]], q[i], h, t)
    BY <1>1, FileIs
  <2> QED BY <2>1, ScanIs
<1>3. ASSUME NEW e \in Places(q)
      PROVE  /\ e.segment \in 1 .. n /\ e.offset \in Whole(disk[q[e.segment]])
             /\ e = [segment |-> e.segment, offset |-> e.offset]
  <2>1. PICK i \in 1 .. n : \E o \in ScanOffsets(disk[q[i]], q[i].v2) : e = [segment |-> i, offset |-> o]
    BY <1>1 DEF Places
  <2>2. PICK o \in Whole(disk[q[i]]) : e = [segment |-> i, offset |-> o]
    BY <1>2, <2>1
  <2> QED BY <2>2
<1>4. ASSUME NEW i \in 1 .. n, NEW o \in Whole(disk[q[i]])
      PROVE  [segment |-> i, offset |-> o] \in Places(q)
  <2>1. o \in ScanOffsets(disk[q[i]], q[i].v2)
    BY <1>2
  <2>2. i \in 1 .. Len(q)
    BY <1>1
  <2>3. [segment |-> i, offset |-> o] \in
          {[segment |-> i, offset |-> x] : x \in ScanOffsets(disk[q[i]], q[i].v2)}
    BY <2>1
  <2> QED BY <2>2, <2>3, Zenon DEF Places
<1> QED BY <1>3, <1>4 DEF q

(* No sequence has two records on disk.                                    *)
LEMMA PlaceUnique ==
  ASSUME NEW h, NEW t, DiskOK(disk, h, t),
         NEW e \in Places(ByStem), NEW x \in Places(ByStem),
         At(ByStem, e).seq = At(ByStem, x).seq
  PROVE  e = x
<1> DEFINE q == ByStem
           n == Cardinality(DOMAIN disk)
           i == e.segment
           j == x.segment
           a == e.offset
           b == x.offset
<1>1. /\ i \in 1 .. n /\ a \in Whole(disk[q[i]]) /\ e = [segment |-> i, offset |-> a]
      /\ j \in 1 .. n /\ b \in Whole(disk[q[j]]) /\ x = [segment |-> j, offset |-> b]
  BY PlacesAre
<1>2. q \in [1 .. n -> DOMAIN disk] /\ InStemOrder(q, n) /\ n \in Nat
  BY ByStemIs
<1>3. GroupAt(disk[q[i]], a).seq = GroupAt(disk[q[j]], b).seq
  BY DEF At
<1> HIDE DEF q, n, i, j, a, b
<1>4. q[i] \in DOMAIN disk /\ q[j] \in DOMAIN disk
  BY <1>1, <1>2
<1>5. Laid(disk[q[i]]) /\ InOrder(disk[q[i]], q[i], h, t) /\ Laid(disk[q[j]]) /\ InOrder(disk[q[j]], q[j], h, t)
  BY <1>4, FileIs
<1>6. /\ a \in Nat /\ a + 1 \in 1 .. Len(disk[q[i]]) /\ disk[q[i]][a + 1].at = 1
      /\ GroupAt(disk[q[i]], a) = disk[q[i]][a + 1].group
      /\ b \in Nat /\ b + 1 \in 1 .. Len(disk[q[j]]) /\ disk[q[j]][b + 1].at = 1
      /\ GroupAt(disk[q[j]], b) = disk[q[j]][b + 1].group
  BY <1>1, <1>5, WholeIs
<1>7. GroupAt(disk[q[i]], a).seq \in Int
  BY <1>1, <1>5, WholeIs, GroupIs
<1>8. /\ q[i].stem \in Int /\ q[j].stem \in Int
      /\ q[i].stem <= GroupAt(disk[q[i]], a).seq /\ q[j].stem <= GroupAt(disk[q[j]], b).seq
  <2>1. q[i].stem \in Int /\ q[j].stem \in Int
    BY <1>4, FileIs
  <2> QED BY <1>5, <1>6, <2>1 DEF InOrder
<1>9. ASSUME q[i].stem < q[j].stem PROVE FALSE
  <2>1. GroupAt(disk[q[i]], a).seq < q[j].stem
    BY <1>4, <1>6, <1>9 DEF DiskOK, Apart
  <2> QED BY <1>3, <1>7, <1>8, <2>1
<1>10. ASSUME q[j].stem < q[i].stem PROVE FALSE
  <2>1. GroupAt(disk[q[j]], b).seq < q[i].stem
    BY <1>4, <1>6, <1>10 DEF DiskOK, Apart
  <2> QED BY <1>3, <1>7, <1>8, <2>1
<1>11. i = j
  <2>1. ~(i < j) /\ ~(j < i)
    BY <1>1, <1>9, <1>10, <1>2 DEF InStemOrder
  <2> QED BY <1>1, <1>2, <2>1
<1>12. a = b
  <2> DEFINE f == disk[q[i]]
             u == a + 1
             v == b + 1
  <2>1. /\ u \in 1 .. Len(f) /\ v \in 1 .. Len(f) /\ u \in Int /\ v \in Int
        /\ f[u].at = 1 /\ f[v].at = 1 /\ f[u].group.seq = f[v].group.seq
    BY <1>3, <1>6, <1>11
  <2>2. InOrder(f, q[i], h, t)
    BY <1>5
  <2>3. u = v => a = b
    BY <1>6
  <2> HIDE DEF f, u, v
  <2>4. CASE u <= v
    <3>1. u - f[u].at = v - f[v].at
      BY <2>1, <2>2, <2>4 DEF InOrder
    <3> QED BY <2>1, <2>3, <3>1
  <2>5. CASE v <= u
    <3>1. v - f[v].at = u - f[u].at
      BY <2>1, <2>2, <2>5 DEF InOrder
    <3> QED BY <2>1, <2>3, <3>1
  <2> QED BY <2>1, <2>4, <2>5
<1> QED BY <1>1, <1>11, <1>12

(* The index that open builds has every whole record at its place.         *)
LEMMA ScanIndexFinds ==
  ASSUME NEW h, NEW t, DiskOK(disk, h, t), NEW n, n = Cardinality(DOMAIN disk),
         NEW ix, ix = ScanIndex(ByStem)
  PROVE  /\ DOMAIN ix \subseteq 0 .. MaxSeq
         /\ \A s \in DOMAIN ix : ix[s] \in [segment : 1 .. n, offset : Nat, ms : Nat]
         /\ \A i \in 1 .. n : \A o \in Whole(disk[ByStem[i]]) :
              LET s == GroupAt(disk[ByStem[i]], o).seq IN
              s \in DOMAIN ix /\ ix[s].segment = i /\ ix[s].offset = o
<1> DEFINE q == ByStem
           P == Places(q)
           last(s) == LastOf(q, s)
<1>0. q \in [1 .. n -> DOMAIN disk]
  BY ByStemIs
<1>1. /\ DOMAIN ix = {At(q, e).seq : e \in P}
      /\ \A s \in DOMAIN ix : ix[s] = [segment |-> last(s).segment, offset |-> last(s).offset,
                                       ms |-> At(q, last(s)).ms]
  BY ScanIndexIs
<1>2. ASSUME NEW e \in P
      PROVE  /\ e.segment \in 1 .. n /\ e.offset \in Whole(disk[q[e.segment]])
             /\ At(q, e) = GroupAt(disk[q[e.segment]], e.offset)
             /\ At(q, e) \in Groups /\ e.offset \in Nat
  <2>1. e.segment \in 1 .. n /\ e.offset \in Whole(disk[q[e.segment]])
    BY PlacesAre
  <2>2. Laid(disk[q[e.segment]])
    BY <1>0, <2>1, FileIs
  <2>3. e.offset \in Nat /\ GroupAt(disk[q[e.segment]], e.offset) \in Groups
    BY <2>1, <2>2, WholeIs
  <2> QED BY <2>1, <2>3 DEF At
<1>3. ASSUME NEW e \in P PROVE last(At(q, e).seq) = e
  <2> DEFINE s == At(q, e).seq
  <2>1. ASSUME NEW x \in P, At(q, x).seq = s PROVE x = e
    BY <2>1, PlaceUnique
  <2>2. e.segment = e.segment /\ e.offset <= e.offset
    BY <1>2
  <2>3. IsLast(q, s, e)
    BY <2>1, <2>2 DEF IsLast
  <2>4. last(s) \in P /\ IsLast(q, s, last(s))
    BY <2>3 DEF LastOf
  <2>5. At(q, last(s)).seq = s
    BY <2>4 DEF IsLast
  <2> QED BY <2>1, <2>4, <2>5
<1> HIDE DEF last
<1>4. ASSUME NEW e \in P
      PROVE  LET s == At(q, e).seq IN
             /\ s \in DOMAIN ix /\ ix[s].segment = e.segment /\ ix[s].offset = e.offset
             /\ ix[s] \in [segment : 1 .. n, offset : Nat, ms : Nat] /\ s \in 0 .. MaxSeq
  <2> DEFINE s == At(q, e).seq
  <2>1. s \in DOMAIN ix
    BY <1>1
  <2>2. ix[s] = [segment |-> e.segment, offset |-> e.offset, ms |-> At(q, e).ms]
    BY <1>1, <1>3, <2>1
  <2>3. At(q, e).ms \in Nat /\ s \in 0 .. MaxSeq
    BY <1>2, GroupIs
  <2> QED BY <1>2, <2>1, <2>2, <2>3
<1>5. ASSUME NEW s \in DOMAIN ix
      PROVE  s \in 0 .. MaxSeq /\ ix[s] \in [segment : 1 .. n, offset : Nat, ms : Nat]
  <2>1. PICK e \in P : s = At(q, e).seq
    BY <1>1
  <2> QED BY <1>4, <2>1
<1>6. ASSUME NEW i \in 1 .. n, NEW o \in Whole(disk[q[i]])
      PROVE  LET s == GroupAt(disk[q[i]], o).seq IN
             s \in DOMAIN ix /\ ix[s].segment = i /\ ix[s].offset = o
  <2> DEFINE e == [segment |-> i, offset |-> o]
  <2>1. e \in P /\ e.segment = i /\ e.offset = o
    BY PlacesAre
  <2>2. At(q, e) = GroupAt(disk[q[i]], o)
    BY <2>1 DEF At
  <2> HIDE DEF e
  <2> QED BY <1>4, <2>1, <2>2
<1> QED BY <1>5, <1>6

(* The segment a file becomes describes what is left of the file.          *)
LEMMA ScannedIs ==
  ASSUME NEW h, NEW t, DiskOK(disk, h, t), NEW c, c = Cut(disk), NEW p \in DOMAIN disk,
         NEW seg, seg = ScannedSegment(p)
  PROVE  /\ seg \in Segment /\ seg.path = p /\ Describes(seg, c[p], h)
         /\ \A k \in 1 .. Len(c[p]) : seg.first <= c[p][k].group.seq
         /\ \A q \in DOMAIN disk : p.stem < q.stem => seg.first <= q.stem
<1> DEFINE f == disk[p]
           g == c[p]
           e == ScanEnd(f, p.v2)
           M == Max(Whole(f))
<1>1. /\ Laid(f) /\ InOrder(f, p, h, t) /\ p \in Paths /\ p.stem \in Nat /\ p.stem <= h
      /\ h \in Int /\ p.v2 \in BOOLEAN
  BY FileIs
<1>2. Matches(f, p.v2) /\ ScanOffsets(f, p.v2) = Whole(f)
  BY <1>1, ScanIs
<1>3. /\ DiskOK(c, h, t) /\ AllUncut(c) /\ DOMAIN c = DOMAIN disk
      /\ Len(g) = e /\ Whole(g) = Whole(f)
      /\ \A o \in Whole(f) : GroupAt(g, o) = GroupAt(f, o)
  BY DiskCut
<1>4. \A k \in 1 .. Len(g) : g[k] = f[k] /\ k \in 1 .. Len(f)
  BY CutFile
<1>5. Laid(g) /\ Uncut(g) /\ InOrder(g, p, h, t)
  BY <1>3, FileIs DEF AllUncut
<1>6. seg = [path |-> p, v2 |-> p.v2,
             first |-> IF Whole(f) = {} THEN 0 ELSE GroupAt(f, 0).seq,
             newest |-> IF Whole(f) = {} THEN 0 ELSE GroupAt(f, M).ms,
             bytes |-> e]
  BY <1>2 DEF ScannedSegment
<1>7. e \in Nat /\ Len(f) \in Nat
  BY <1>1, <1>2, EndIs, LaidIs
<1>8. seg.path = p /\ seg.v2 = p.v2 /\ seg.bytes = e
  BY <1>6
<1>9. \A q \in DOMAIN disk : q.stem \in Nat
  BY FileIs
<1>10. CASE Whole(f) = {}
  <2>1. e = 0
    BY <1>2, <1>10 DEF ScanEnd
  <2>2. seg.first = 0 /\ seg.newest = 0
    BY <1>6, <1>10
  <2>3. seg \in Segment
    BY <1>1, <1>6, <1>7, <1>10, StoreAssumption DEF Segment, Seqs
  <2>4. \A k \in 1 .. Len(g) : FALSE
    BY <1>3, <2>1
  <2>5. 0 <= h
    BY <1>1
  <2>6. Describes(seg, g, h)
    BY <1>3, <1>8, <2>2, <2>4, <2>5 DEF Describes
  <2> QED BY <1>8, <1>9, <2>2, <2>3, <2>4, <2>6
<1>11. CASE Whole(f) # {}
  <2>1. M \in Whole(f) /\ \A o \in Whole(f) : o <= M
    BY <1>1, <1>2, <1>11, EndIs
  <2>2. /\ M \in Nat /\ M + 1 \in 1 .. Len(f) /\ GroupAt(f, M) = f[M + 1].group
        /\ GroupAt(f, M) \in Groups
    BY <1>1, <2>1, WholeIs
  <2>3. 1 \in 1 .. Len(f) /\ GroupAt(f, 0) = f[1].group
    BY <1>7, <2>2 DEF GroupAt
  <2>4. f[1].group \in Groups /\ f[1].group.seq \in Seqs /\ GroupAt(f, M).ms \in Nat
    BY <1>1, <2>2, <2>3, LaidIs, GroupIs DEF Seqs
  <2>5. seg.first = f[1].group.seq /\ seg.newest = GroupAt(f, M).ms
    BY <1>6, <1>11, <2>3
  <2>6. seg \in Segment
    BY <1>1, <1>6, <1>7, <1>11, <2>3, <2>4 DEF Segment
  <2> HIDE DEF f, g, e, M
  <2>7. ASSUME NEW k \in 1 .. Len(g) PROVE seg.first <= g[k].group.seq
    <3>1. g[k] = f[k] /\ k \in 1 .. Len(f) /\ 1 <= k
      BY <1>4
    <3>2. f[1].group.seq <= f[k].group.seq
      BY <1>1, <2>3, <3>1 DEF InOrder
    <3> QED BY <2>5, <3>1, <3>2
  <2>8. ASSUME NEW q \in DOMAIN disk, p.stem < q.stem PROVE seg.first <= q.stem
    <3>1. f[1].group.seq < q.stem
      BY <2>3, <2>8 DEF DiskOK, Apart, f
    <3>2. f[1].group.seq \in Int /\ q.stem \in Int
      BY <1>9, <2>4 DEF Seqs
    <3> QED BY <2>5, <3>1, <3>2
  <2>9. ASSUME NEW k \in 1 .. Len(g) PROVE g[k].group.ms <= seg.newest
    <3> DEFINE o == k - g[k].at
    <3>1. o \in Whole(g) /\ GroupAt(g, o) = g[k].group
      BY <1>5, UncutWhole
    <3> HIDE DEF o
    <3>2. o \in Whole(f) /\ GroupAt(f, o) = g[k].group /\ o <= M
      BY <1>3, <2>1, <3>1
    <3>3. o + 1 \in 1 .. Len(f) /\ GroupAt(f, o) = f[o + 1].group /\ o \in Nat
      BY <1>1, <3>2, WholeIs
    <3>4. o + 1 <= M + 1
      BY <2>2, <3>2, <3>3
    <3>5. f[o + 1].group.ms <= f[M + 1].group.ms
      BY <1>1, <2>2, <3>3, <3>4 DEF InOrder
    <3> QED BY <2>2, <2>5, <3>2, <3>3, <3>5
  <2>10. \E k \in 1 .. Len(g) : g[k].group.ms = seg.newest
    <3>1. M \in Whole(g) /\ GroupAt(g, M) = GroupAt(f, M)
      BY <1>3, <2>1
    <3>2. M + 1 \in 1 .. Len(g) /\ GroupAt(g, M) = g[M + 1].group
      BY <1>5, <3>1, WholeIs
    <3> QED BY <2>5, <3>1, <3>2
  <2>11. seg.first <= h
    BY <1>1, <2>3, <2>5 DEF InOrder
  <2>12. Describes(seg, g, h)
    BY <1>3, <1>8, <2>9, <2>10, <2>11 DEF Describes
  <2> QED BY <1>8, <2>6, <2>7, <2>8, <2>12 DEF g
<1> QED BY <1>10, <1>11

Scanned == [i \in 1 .. Len(ByStem) |-> ScannedSegment(ByStem[i])]

(* So do all of them, in the order of their names.                         *)
LEMMA SegOpen ==
  ASSUME NEW h, NEW t, DiskOK(disk, h, t), NEW c, c = Cut(disk), NEW sg, sg = Scanned
  PROVE  SegmentsOK(sg, c, h)
<1> DEFINE q == ByStem
           n == Cardinality(DOMAIN disk)
<1>1. /\ n \in Nat /\ q \in [1 .. n -> DOMAIN disk] /\ Len(q) = n /\ InStemOrder(q, n)
      /\ \A p \in DOMAIN disk : \E i \in 1 .. n : q[i] = p
  BY ByStemIs
<1>2. sg = [i \in 1 .. n |-> ScannedSegment(q[i])]
  BY <1>1 DEF Scanned
<1> HIDE DEF q, n
<1>3. ASSUME NEW i \in 1 .. n
      PROVE  /\ sg[i] \in Segment /\ sg[i].path = q[i] /\ Describes(sg[i], c[q[i]], h)
             /\ q[i] \in DOMAIN disk
  <2>1. sg[i] = ScannedSegment(q[i]) /\ q[i] \in DOMAIN disk
    BY <1>1, <1>2
  <2> QED BY <2>1, ScannedIs
<1>4. sg \in Seq(Segment) /\ Len(sg) = n
  <2>1. sg \in [1 .. n -> Segment]
    BY <1>2, <1>3
  <2>2. sg \in Seq(Segment)
    BY <1>1, <2>1
  <2> QED BY <1>1, <2>1, <2>2, LenProperties
<1>5. DiskOK(c, h, t) /\ DOMAIN c = DOMAIN disk
  BY DiskCut
<1>6. DOMAIN c = {sg[i].path : i \in 1 .. n}
  <2>1. ASSUME NEW p \in DOMAIN c PROVE \E i \in 1 .. n : p = sg[i].path
    <3>1. PICK i \in 1 .. n : q[i] = p
      BY <1>1, <1>5
    <3> QED BY <1>3, <3>1
  <2>2. ASSUME NEW i \in 1 .. n PROVE sg[i].path \in DOMAIN c
    BY <1>3, <1>5
  <2> QED BY <2>1, <2>2
<1>7. ASSUME NEW i \in 1 .. n, NEW j \in 1 .. n
      PROVE  /\ i < j => sg[i].path.stem < sg[j].path.stem
             /\ i <= j => \A k \in 1 .. Len(c[sg[j].path]) :
                            sg[i].first <= c[sg[j].path][k].group.seq
  <2>1. sg[i].path = q[i] /\ sg[j].path = q[j] /\ q[i] \in DOMAIN disk /\ q[j] \in DOMAIN disk
    BY <1>3
  <2>2. i < j => q[i].stem < q[j].stem
    BY <1>1 DEF InStemOrder
  <2>3. ASSUME i <= j, NEW k \in 1 .. Len(c[q[j]]) PROVE sg[i].first <= c[q[j]][k].group.seq
    <3>1. sg[i] = ScannedSegment(q[i])
      BY <1>2
    <3>2. CASE i = j
      BY <2>1, <2>3, <3>1, <3>2, ScannedIs
    <3>3. CASE i < j
      <4>1. sg[i].first <= q[j].stem
        BY <2>1, <2>2, <3>1, <3>3, ScannedIs
      <4>2. q[j].stem <= c[q[j]][k].group.seq
        BY <1>5, <2>1, FileIs DEF InOrder
      <4>3. sg[i].first \in Int /\ q[j].stem \in Int
        <5>1. sg[i] \in Segment
          BY <1>3
        <5>2. sg[i].first \in Seqs
          BY <5>1 DEF Segment
        <5> QED BY <2>1, <5>2, FileIs DEF Seqs
      <4>4. c[q[j]][k].group.seq \in Int
        BY <1>5, <2>1, FileIs, LaidIs, GroupIs
      <4> QED BY <4>1, <4>2, <4>3, <4>4
    <3> QED BY <1>1, <2>3, <3>2, <3>3
  <2> QED BY <2>1, <2>2, <2>3
<1>8. \A i \in 1 .. n : Describes(sg[i], c[sg[i].path], h)
  BY <1>3
<1> QED BY <1>4, <1>6, <1>7, <1>8 DEF SegmentsOK

(* A function with no arguments is the empty sequence.                     *)
LEMMA NoArguments ==
  ASSUME NEW f, f = [x \in DOMAIN f |-> f[x]], DOMAIN f = {}
  PROVE  f = <<>>
<1>1. f \in [1 .. 0 -> {}]
  OBVIOUS
<1>2. f \in Seq({})
  BY <1>1
<1>3. Len(f) = 0
  BY <1>2, LenProperties
<1> QED BY <1>2, <1>3, EmptySeq

(* The highest sequence in the index, or NoSeq.                            *)
LEMMA MaxSeqOpen ==
  ASSUME NEW h, NEW t, DiskOK(disk, h, t), NEW ix, ix = ScanIndex(ByStem),
         NEW m, m = IF ix = <<>> THEN NoSeq ELSE Max(DOMAIN ix)
  PROVE  m \in Int /\ \A s \in DOMAIN ix : s <= m
<1>1. DOMAIN ix \subseteq 0 .. MaxSeq /\ MaxSeq \in Nat
  BY ScanIndexFinds, StoreAssumption
<1>2. CASE ix = <<>>
  BY <1>2 DEF NoSeq
<1>3. CASE ix # <<>>
  <2>1. ix = [x \in DOMAIN ix |-> ix[x]]
    BY ScanIndexIs
  <2>2. DOMAIN ix # {}
    BY <1>3, <2>1, NoArguments
  <2>3. m = Max(DOMAIN ix)
    BY <1>3
  <2> DEFINE S == DOMAIN ix
  <2> HIDE DEF S
  <2>4. Max(S) \in S /\ \A s \in S : s <= Max(S)
    BY <1>1, <2>2, Greatest DEF S
  <2> QED BY <1>1, <2>3, <2>4 DEF S
<1> QED BY <1>2, <1>3

(* The index agrees with the truncated files.                              *)
LEMMA IndexOpen ==
  ASSUME NEW h, NEW t, DiskOK(disk, h, t), NEW c, c = Cut(disk), NEW sg, sg = Scanned,
         NEW ix, ix = ScanIndex(ByStem),
         NEW m, m = IF ix = <<>> THEN NoSeq ELSE Max(DOMAIN ix)
  PROVE  IndexOK(ix, m, sg, c)
<1> DEFINE q == ByStem
           n == Cardinality(DOMAIN disk)
<1>1. n \in Nat /\ q \in [1 .. n -> DOMAIN disk] /\ Len(q) = n
  BY ByStemIs
<1>2. m \in Int /\ \A s \in DOMAIN ix : s <= m
  BY MaxSeqOpen
<1>3. /\ \A s \in DOMAIN ix : ix[s] \in [segment : 1 .. n, offset : Nat, ms : Nat]
      /\ \A i \in 1 .. n : \A o \in Whole(disk[q[i]]) :
           LET s == GroupAt(disk[q[i]], o).seq IN
           s \in DOMAIN ix /\ ix[s].segment = i /\ ix[s].offset = o
  BY ScanIndexFinds
<1>4. SegmentsOK(sg, c, h)
  BY SegOpen
<1>5. sg = [i \in 1 .. n |-> ScannedSegment(q[i])]
  BY <1>1 DEF Scanned
<1> HIDE DEF q, n
<1>6. Len(sg) = n
  <2>1. sg \in Seq(Segment)
    BY <1>4 DEF SegmentsOK
  <2>2. DOMAIN sg = 1 .. n
    BY <1>5
  <2> QED BY <1>1, <2>1, <2>2, LenProperties
<1>7. ASSUME NEW i \in 1 .. n, NEW o \in Whole(c[sg[i].path])
      PROVE  LET s == GroupAt(c[sg[i].path], o).seq IN
             s \in DOMAIN ix /\ ix[s].segment = i /\ ix[s].offset = o /\ s <= m
  <2>1. sg[i].path = q[i] /\ q[i] \in DOMAIN disk
    <3>1. q[i] \in DOMAIN disk /\ sg[i] = ScannedSegment(q[i])
      BY <1>1, <1>5
    <3>2. ScannedSegment(q[i]).path = q[i]
      BY <3>1, ScannedIs
    <3> QED BY <3>1, <3>2
  <2>2. o \in Whole(disk[q[i]]) /\ GroupAt(c[q[i]], o) = GroupAt(disk[q[i]], o)
    BY <2>1, CutFile
  <2>3. LET s == GroupAt(disk[q[i]], o).seq IN
        s \in DOMAIN ix /\ ix[s].segment = i /\ ix[s].offset = o
    BY <1>3, <2>2
  <2> QED BY <1>2, <2>1, <2>2, <2>3
<1> QED BY <1>2, <1>3, <1>6, <1>7 DEF IndexOK

-----------------------------------------------------------------------------
(* The invariant holds initially: in an empty directory, and beside a      *)
(* legacy segment that is cut anywhere.                                    *)

(* The cells of the legacy segment.                                        *)
LegacyCell(i) == [group |-> Legacy[IF i <= 2 THEN 1 ELSE 2], at |-> IF i \in {1, 3} THEN 1 ELSE 2]

IsLegacyFile(file, k) == file = SubSeq(Encode(Legacy[1]) \o Encode(Legacy[2]), 1, k)

LEMMA LegacyCells ==
  ASSUME NEW k \in 0 .. 4, NEW file, IsLegacyFile(file, k)
  PROVE  /\ file \in Seq(Cell) /\ Len(file) = k
         /\ \A i \in 1 .. k : file[i] = LegacyCell(i)
         /\ \A i \in 1 .. 2 : /\ Legacy[i] = [seq |-> i - 1, ms |-> 0, n |-> 1, v2 |-> FALSE]
                              /\ Legacy[i] \in Groups
<1> DEFINE A == Encode(Legacy[1])
           B == Encode(Legacy[2])
<1>1. ASSUME NEW i \in 1 .. 2
      PROVE  Legacy[i] = [seq |-> i - 1, ms |-> 0, n |-> 1, v2 |-> FALSE] /\ Legacy[i] \in Groups
  <2>1. Legacy[i] = [seq |-> i - 1, ms |-> 0, n |-> 1, v2 |-> FALSE]
    BY DEF Legacy
  <2>2. i - 1 \in Seqs /\ 0 \in 0 .. MaxClock /\ 1 \in 1 .. MaxBody
    BY StoreAssumption DEF Seqs
  <2> QED BY <2>1, <2>2 DEF Groups
<1>2. Legacy[1] \in Groups /\ Legacy[2] \in Groups /\ Legacy[1].n = 1 /\ Legacy[2].n = 1
  <2>1. 1 \in 1 .. 2 /\ 2 \in 1 .. 2
    OBVIOUS
  <2> QED BY <1>1, <2>1
<1>3. /\ A \in Seq(Cell) /\ Len(A) = 2 /\ B \in Seq(Cell) /\ Len(B) = 2
      /\ \A j \in 1 .. 2 : A[j] = [group |-> Legacy[1], at |-> j] /\ B[j] = [group |-> Legacy[2], at |-> j]
  <2>1. ASSUME NEW g \in Groups, g.n = 1
        PROVE  /\ Encode(g) \in Seq(Cell) /\ Len(Encode(g)) = 2
               /\ \A j \in 1 .. 2 : Encode(g)[j] = [group |-> g, at |-> j]
    <3>1. g.n + 1 = 2
      BY <2>1
    <3>2. /\ Encode(g) \in Seq(Cell) /\ Len(Encode(g)) = g.n + 1
          /\ \A j \in 1 .. g.n + 1 : Encode(g)[j] = [group |-> g, at |-> j]
      BY EncodeIs
    <3> QED BY <3>1, <3>2, Zenon
  <2>2. /\ A \in Seq(Cell) /\ Len(A) = 2
        /\ \A j \in 1 .. 2 : A[j] = [group |-> Legacy[1], at |-> j]
    BY <1>2, <2>1, Zenon
  <2>3. /\ B \in Seq(Cell) /\ Len(B) = 2
        /\ \A j \in 1 .. 2 : B[j] = [group |-> Legacy[2], at |-> j]
    BY <1>2, <2>1, Zenon
  <2> HIDE DEF A, B
  <2> QED BY <2>2, <2>3
<1> HIDE DEF A, B
<1> DEFINE c == A \o B
<1>4. /\ c \in Seq(Cell) /\ Len(c) = 4
      /\ \A i \in 1 .. 4 : c[i] = IF i <= 2 THEN A[i] ELSE B[i - 2]
  <2>1. /\ c \in Seq(Cell) /\ Len(c) = Len(A) + Len(B)
        /\ \A i \in 1 .. Len(A) + Len(B) : c[i] = IF i <= Len(A) THEN A[i] ELSE B[i - Len(A)]
    <3>1. A \in Seq(Cell) /\ B \in Seq(Cell)
      BY <1>3
    <3> QED BY <3>1, ConcatProperties, SMTT(40)
  <2>2. Len(A) = 2 /\ Len(A) + Len(B) = 4
    BY <1>3
  <2> HIDE DEF c
  <2>3. c \in Seq(Cell) /\ Len(c) = 4 /\ \A i \in 1 .. 4 : c[i] = IF i <= 2 THEN A[i] ELSE B[i - 2]
    BY <2>1, <2>2
  <2> QED BY <2>3
<1> HIDE DEF c
<1>5. ASSUME NEW i \in 1 .. 4 PROVE c[i] = LegacyCell(i)
  <2>1. CASE i <= 2
    <3>1. c[i] = [group |-> Legacy[1], at |-> i]
      BY <1>3, <1>4, <2>1
    <3>2. i = IF i \in {1, 3} THEN 1 ELSE 2
      BY <2>1
    <3> QED BY <2>1, <3>1, <3>2 DEF LegacyCell
  <2>2. CASE ~(i <= 2)
    <3>1. i - 2 \in 1 .. 2 /\ c[i] = B[i - 2]
      BY <1>4, <2>2
    <3>2. c[i] = [group |-> Legacy[2], at |-> i - 2]
      BY <1>3, <3>1
    <3>3. i - 2 = IF i \in {1, 3} THEN 1 ELSE 2
      BY <2>2
    <3> QED BY <2>2, <3>2, <3>3 DEF LegacyCell
  <2> QED BY <2>1, <2>2
<1>6. file = SubSeq(c, 1, k)
  BY DEF A, B, c, IsLegacyFile
<1>7. file \in Seq(Cell) /\ Len(file) = k /\ \A i \in 1 .. k : file[i] = c[i]
  <2>1. c \in Seq(Cell) /\ k \in 0 .. Len(c) /\ file = SubSeq(c, 1, k)
    BY <1>4, <1>6
  <2>2. SubSeq(c, 1, k) \in Seq(Cell) /\ Len(SubSeq(c, 1, k)) = k
        /\ \A i \in 1 .. k : SubSeq(c, 1, k)[i] = c[i]
    BY <2>1, PrefixIs
  <2>3. file \in Seq(Cell) /\ Len(file) = k /\ \A i \in 1 .. k : file[i] = c[i]
    BY <2>1, <2>2
  <2> QED BY <2>3
<1> QED BY <1>1, <1>5, <1>7

IsLegacy(file, k) ==
  /\ file \in Seq(Cell) /\ Len(file) = k
  /\ \A i \in 1 .. k : file[i] = LegacyCell(i)

(* It is laid, in order, and has a whole record for every two cells.       *)
LEMMA LegacyOK ==
  ASSUME NEW k \in 0 .. 4, NEW file, IsLegacy(file, k),
         \A i \in 1 .. 2 : /\ Legacy[i] = [seq |-> i - 1, ms |-> 0, n |-> 1, v2 |-> FALSE]
                           /\ Legacy[i] \in Groups
  PROVE  /\ Laid(file) /\ InOrder(file, LegacyPath, 1, 0)
         /\ \A i \in 1 .. k \div 2 : Legacy[i] \in Records(file)
<1>1. Legacy[1].seq = 0 /\ Legacy[2].seq = 1
  <2>1. 1 \in 1 .. 2 /\ 2 \in 1 .. 2 /\ 1 - 1 = 0 /\ 2 - 1 = 1
    OBVIOUS
  <2> QED BY <2>1
<1>2. \A i \in {1, 2} : Legacy[i].ms = 0 /\ Legacy[i].n = 1 /\ Legacy[i].v2 = FALSE /\ Legacy[i] \in Groups
  <2>1. 1 \in 1 .. 2 /\ 2 \in 1 .. 2
    OBVIOUS
  <2> QED BY <2>1
<1>3. ASSUME NEW i \in 1 .. k
      PROVE  /\ file[i] = [group |-> file[i].group, at |-> file[i].at]
             /\ i \in {1, 2} => file[i].group = Legacy[1] /\ file[i].at = i
             /\ i \in {3, 4} => file[i].group = Legacy[2] /\ file[i].at = i - 2
             /\ i \in {1, 2, 3, 4}
  <2>1. file[i] = LegacyCell(i)
    BY DEF IsLegacy
  <2> QED BY <2>1 DEF LegacyCell
<1>4. Laid(file)
  <2>1. ASSUME NEW i \in 1 .. k
        PROVE  /\ file[i].at <= file[i].group.n + 1 /\ file[i].at <= i
               /\ \A j \in 1 .. file[i].group.n + 1 :
                    i - file[i].at + j <= k =>
                      file[i - file[i].at + j] = [group |-> file[i].group, at |-> j]
    <3>1. CASE i \in {1, 2}
      <4>1. file[i].group = Legacy[1] /\ file[i].at = i /\ Legacy[1].n = 1
        BY <1>2, <1>3, <3>1
      <4>2. ASSUME NEW j \in 1 .. 2, j <= k PROVE file[j] = [group |-> Legacy[1], at |-> j]
        <5>1. j \in 1 .. k /\ j \in {1, 2}
          BY <4>2
        <5> QED BY <1>3, <5>1
      <4>3. \A j \in 1 .. 2 : i - i + j = j
        BY <3>1
      <4> QED BY <3>1, <4>1, <4>2, <4>3
    <3>2. CASE i \in {3, 4}
      <4>1. file[i].group = Legacy[2] /\ file[i].at = i - 2 /\ Legacy[2].n = 1
        BY <1>2, <1>3, <3>2
      <4>2. ASSUME NEW j \in 1 .. 2, 2 + j <= k PROVE file[2 + j] = [group |-> Legacy[2], at |-> j]
        <5> DEFINE x == 2 + j
        <5>1. x \in 1 .. k /\ x \in {3, 4} /\ x - 2 = j
          BY <4>2
        <5> HIDE DEF x
        <5>2. file[x] = [group |-> Legacy[2], at |-> j]
          BY <1>3, <5>1
        <5> QED BY <5>2 DEF x
      <4>3. \A j \in 1 .. 2 : i - (i - 2) + j = 2 + j
        BY <3>2
      <4> QED BY <3>2, <4>1, <4>2, <4>3
    <3> QED BY <1>3, <3>1, <3>2
  <2> QED BY <2>1 DEF Laid, IsLegacy
<1>5. InOrder(file, LegacyPath, 1, 0)
  <2>1. ASSUME NEW i \in 1 .. k
        PROVE  /\ file[i].group.v2 = FALSE /\ file[i].group.ms = 0
               /\ i <= 2 => file[i].group.seq = 0 /\ i - file[i].at = 0
               /\ ~(i <= 2) => file[i].group.seq = 1 /\ i - file[i].at = 2
    <3>1. CASE i \in {1, 2}
      <4>0. i <= 2
        BY <3>1
      <4>1. file[i].group = Legacy[1] /\ file[i].at = i
        BY <1>3, <3>1
      <4>2. i - i = 0
        BY <3>1
      <4>3. file[i].group.seq = 0 /\ file[i].group.ms = 0 /\ file[i].group.v2 = FALSE
        BY <1>1, <1>2, <4>1
      <4> QED BY <4>0, <4>1, <4>2, <4>3
    <3>2. CASE i \in {3, 4}
      <4>0. ~(i <= 2)
        BY <3>2
      <4>1. file[i].group = Legacy[2] /\ file[i].at = i - 2
        BY <1>3, <3>2
      <4>2. i - (i - 2) = 2
        BY <3>2
      <4>3. file[i].group.seq = 1 /\ file[i].group.ms = 0 /\ file[i].group.v2 = FALSE
        BY <1>1, <1>2, <4>1
      <4> QED BY <4>0, <4>1, <4>2, <4>3
    <3> QED BY <1>3, <3>1, <3>2
  <2>2. LegacyPath.stem = 0 /\ LegacyPath.v2 = FALSE /\ Len(file) = k
    BY DEF LegacyPath, IsLegacy
  <2>3. ASSUME NEW i \in 1 .. k
        PROVE  /\ file[i].group.v2 = LegacyPath.v2
               /\ LegacyPath.stem <= file[i].group.seq /\ file[i].group.seq <= 1
               /\ file[i].group.ms <= 0
    <3>1. CASE i <= 2
      <4>1. file[i].group.v2 = FALSE /\ file[i].group.ms = 0 /\ file[i].group.seq = 0
        BY <2>1, <3>1
      <4>2. file[i].group.v2 = LegacyPath.v2
        BY <2>2, <4>1, Zenon
      <4>3. LegacyPath.stem <= file[i].group.seq /\ file[i].group.seq <= 1 /\ file[i].group.ms <= 0
        <5>1. file[i].group.ms = 0 /\ file[i].group.seq = 0 /\ LegacyPath.stem = 0
          BY <2>2, <4>1, Zenon
        <5> QED BY <5>1
      <4> QED BY <4>2, <4>3
    <3>2. CASE ~(i <= 2)
      <4>1. file[i].group.v2 = FALSE /\ file[i].group.ms = 0 /\ file[i].group.seq = 1
        BY <2>1, <3>2
      <4>2. file[i].group.v2 = LegacyPath.v2
        BY <2>2, <4>1, Zenon
      <4>3. LegacyPath.stem <= file[i].group.seq /\ file[i].group.seq <= 1 /\ file[i].group.ms <= 0
        <5>1. file[i].group.ms = 0 /\ file[i].group.seq = 1 /\ LegacyPath.stem = 0
          BY <2>2, <4>1, Zenon
        <5> QED BY <5>1
      <4> QED BY <4>2, <4>3
    <3> QED BY <3>1, <3>2
  <2>4. ASSUME NEW i \in 1 .. k, NEW j \in 1 .. k, i <= j
        PROVE  /\ file[i].group.seq <= file[j].group.seq
               /\ file[i].group.ms <= file[j].group.ms
               /\ file[i].group.seq = file[j].group.seq => i - file[i].at = j - file[j].at
    <3>1. CASE i <= 2 /\ j <= 2
      <4>1. file[i].group.ms = 0 /\ file[i].group.seq = 0 /\ i - file[i].at = 0
        BY <2>1, <3>1
      <4>2. file[j].group.ms = 0 /\ file[j].group.seq = 0 /\ j - file[j].at = 0
        BY <2>1, <3>1
      <4> QED BY <4>1, <4>2
    <3>2. CASE i <= 2 /\ ~(j <= 2)
      <4>1. file[i].group.ms = 0 /\ file[i].group.seq = 0 /\ i - file[i].at = 0
        BY <2>1, <3>2
      <4>2. file[j].group.ms = 0 /\ file[j].group.seq = 1 /\ j - file[j].at = 2
        BY <2>1, <3>2
      <4> QED BY <4>1, <4>2
    <3>3. CASE ~(i <= 2) /\ ~(j <= 2)
      <4>1. file[i].group.ms = 0 /\ file[i].group.seq = 1 /\ i - file[i].at = 2
        BY <2>1, <3>3
      <4>2. file[j].group.ms = 0 /\ file[j].group.seq = 1 /\ j - file[j].at = 2
        BY <2>1, <3>3
      <4> QED BY <4>1, <4>2
    <3> QED BY <2>4, <3>1, <3>2, <3>3
  <2> QED BY <2>2, <2>3, <2>4 DEF InOrder
<1>6. ASSUME NEW o \in {0, 2}, NEW i \in {1, 2}, (o = 0 /\ i = 1) \/ (o = 2 /\ i = 2), o + 2 <= k
      PROVE  Legacy[i] \in Records(file)
  <2> DEFINE x == o + 1
  <2>1. x \in 1 .. k /\ (i = 1 => x = 1) /\ (i = 2 => x = 3)
    <3>1. CASE o = 0 /\ i = 1
      BY <1>6, <3>1
    <3>2. CASE o = 2 /\ i = 2
      BY <1>6, <3>2
    <3> QED BY <1>6, <3>1, <3>2
  <2> HIDE DEF x
  <2>2. file[x].group = Legacy[i] /\ file[x].at = 1
    <3>1. CASE i = 1
      BY <1>3, <2>1, <3>1
    <3>2. CASE i = 2
      <4>1. x \in {3, 4} /\ x - 2 = 1
        BY <2>1, <3>2
      <4> QED BY <1>3, <2>1, <3>2, <4>1
    <3> QED BY <3>1, <3>2
  <2>3. Len(file) = k /\ o \in 0 .. Len(file) - 1
    BY <1>6 DEF IsLegacy
  <2>4. GroupAt(file, o) = Legacy[i] /\ file[o + 1].at = 1
    BY <2>2 DEF GroupAt, x
  <2>5. RecordEnd(file, o) = o + 1 + 1
    <3>1. RecordEnd(file, o) = o + GroupAt(file, o).n + 1
      BY <1>4, <2>3, <2>4, RecordIs
    <3> QED BY <1>2, <2>4, <3>1
  <2>6. RecordEnd(file, o) <= Len(file)
    BY <1>6, <2>3, <2>5
  <2> QED BY <2>3, <2>4, <2>6 DEF Records, Whole
<1>7. ASSUME NEW i \in 1 .. k \div 2 PROVE Legacy[i] \in Records(file)
  <2>1. (i = 1 /\ 0 + 2 <= k) \/ (i = 2 /\ 2 + 2 <= k)
    <3>1. k \in {0, 1, 2, 3, 4}
      OBVIOUS
    <3>2. 0 \div 2 = 0 /\ 1 \div 2 = 0 /\ 2 \div 2 = 1 /\ 3 \div 2 = 1 /\ 4 \div 2 = 2
      OBVIOUS
    <3> QED BY <3>1, <3>2
  <2> QED BY <1>6, <2>1
<1> QED BY <1>4, <1>5, <1>7

LEMMA InitIInv ==
  ASSUME Init
  PROVE  IInv
<1>1. /\ ~up /\ segments = <<>> /\ index = <<>> /\ pending = <<>> /\ op = Idle
      /\ located = [r \in Readers |-> None] /\ clock = 0
  BY DEF Init
<1>2. StoppedOK /\ LocatedOK
  BY <1>1 DEF StoppedOK, LocatedOK
<1>3. CASE disk = <<>> /\ hw = -1 /\ acked = {}
  <2>1. DOMAIN disk = {}
    BY <1>3
  <2>2. DiskOK(disk, hw, clock)
    <3>1. hw \in -1 .. MaxSeq /\ clock \in Nat
      BY <1>1, <1>3, StoreAssumption
    <3> QED BY <2>1, <3>1, FS_EmptySet DEF DiskOK, Apart
  <2>3. AckedOK
    BY <1>3 DEF AckedOK
  <2> QED BY <1>1, <1>2, <2>2, <2>3 DEF IInv
<1>4. CASE hw = 1 /\ \E k \in 0 .. 4 :
             /\ disk = [p \in {LegacyPath} |-> SubSeq(Encode(Legacy[1]) \o Encode(Legacy[2]), 1, k)]
             /\ acked = {[group |-> Legacy[i], path |-> LegacyPath] : i \in 1 .. k \div 2}
  <2>1. PICK k \in 0 .. 4 :
             /\ disk = [p \in {LegacyPath} |-> SubSeq(Encode(Legacy[1]) \o Encode(Legacy[2]), 1, k)]
             /\ acked = {[group |-> Legacy[i], path |-> LegacyPath] : i \in 1 .. k \div 2}
    BY <1>4
  <2> DEFINE file == disk[LegacyPath]
  <2>2. DOMAIN disk = {LegacyPath} /\ file = SubSeq(Encode(Legacy[1]) \o Encode(Legacy[2]), 1, k)
    BY <2>1
  <2> HIDE DEF file
  <2>3. /\ IsLegacy(file, k)
        /\ \A i \in 1 .. 2 : /\ Legacy[i] = [seq |-> i - 1, ms |-> 0, n |-> 1, v2 |-> FALSE]
                             /\ Legacy[i] \in Groups
    <3>1. IsLegacyFile(file, k)
      BY <2>2 DEF IsLegacyFile
    <3> QED BY <3>1, LegacyCells DEF IsLegacy
  <2>4. /\ Laid(file) /\ InOrder(file, LegacyPath, 1, 0)
        /\ \A i \in 1 .. k \div 2 : Legacy[i] \in Records(file)
    BY <2>3, LegacyOK
  <2>5. LegacyPath.stem = 0 /\ LegacyPath \in Paths /\ hw \in -1 .. MaxSeq /\ 0 \in Nat
    BY <1>4, StoreAssumption DEF LegacyPath, Paths, Seqs
  <2>6. IsFiniteSet(DOMAIN disk)
    BY <2>2, FS_Singleton
  <2>7. Apart(disk)
    BY <2>2, <2>5 DEF Apart
  <2>8. DiskOK(disk, hw, clock)
    BY <1>1, <1>4, <2>2, <2>4, <2>5, <2>6, <2>7 DEF DiskOK, file
  <2>9. AckedOK
    BY <2>1, <2>2, <2>4 DEF AckedOK, file
  <2> QED BY <1>1, <1>2, <2>8, <2>9 DEF IInv
<1> QED BY <1>3, <1>4 DEF Init

-----------------------------------------------------------------------------
(* Every step preserves the invariant.                                     *)

(* What the invariant says while the store is open, and while it is not.   *)
LEMMA Running ==
  ASSUME IInv, up
  PROVE  /\ DiskOK(disk, hw, clock) /\ AllUncut(disk) /\ SegmentsOK(segments, disk, hw)
         /\ IndexOK(index, maxSeq, segments, disk) /\ pending = <<>> /\ OpOK
         /\ hw \in Int /\ clock \in Nat
  BY DEF IInv, RunningOK, DiskOK

(* The acked groups stay where they are when their files keep their        *)
(* records.                                                                *)
LEMMA AckedStay ==
  ASSUME AckedOK, acked' = acked, DOMAIN disk \subseteq DOMAIN disk',
         \A p \in DOMAIN disk : Records(disk'[p]) = Records(disk[p])
  PROVE  AckedOK'
  BY DEF AckedOK

LEMMA OpenIInv ==
  ASSUME IInv, Open
  PROVE  IInv'
<1>1. DiskOK(disk, hw, clock) /\ AckedOK /\ StoppedOK /\ LocatedOK
  BY DEF IInv, Open
<1>2. /\ up' /\ pending' = pending /\ op' = op /\ located' = located /\ hw' = hw
      /\ clock' = clock /\ acked' = acked
  BY DEF Open, ghosts
<1>3. /\ disk' = Cut(disk) /\ segments' = Scanned /\ index' = ScanIndex(ByStem)
      /\ maxSeq' = IF index' = <<>> THEN NoSeq ELSE Max(DOMAIN index')
  BY DEF Open, Cut, Truncated, Scanned
<1>4. /\ DiskOK(disk', hw, clock) /\ AllUncut(disk') /\ DOMAIN disk' = DOMAIN disk
      /\ \A p \in DOMAIN disk : Records(disk'[p]) = Records(disk[p])
  BY <1>1, <1>3, DiskCut
<1>5. SegmentsOK(segments', disk', hw)
  BY <1>1, <1>3, SegOpen
<1>6. IndexOK(index', maxSeq', segments', disk')
  BY <1>1, <1>3, IndexOpen
<1>7. AckedOK'
  BY <1>1, <1>2, <1>4, AckedStay
<1>8. pending' = <<>> /\ OpOK'
  BY <1>1, <1>2 DEF StoppedOK, OpOK
<1>9. RunningOK'
  BY <1>2, <1>4, <1>5, <1>6, <1>8 DEF RunningOK
<1>10. LocatedOK'
  BY <1>1, <1>2 DEF LocatedOK
<1> QED BY <1>2, <1>4, <1>7, <1>9, <1>10 DEF IInv

(* What an append starts from.                                             *)
LEMMA BeginAppendIs ==
  ASSUME IInv, NEW g \in Groups, BeginAppend(g)
  PROVE  /\ up /\ up' /\ op' = [kind |-> "append", group |-> g] /\ op'.kind = "append"
         /\ op'.group = g /\ hw' = g.seq /\ clock' = g.ms
         /\ index' = index /\ maxSeq' = maxSeq /\ located' = located /\ acked' = acked
         /\ g.v2 /\ g.seq > hw /\ g.ms >= clock /\ g.seq \in Seqs /\ g.seq \in Int /\ g.ms \in Nat
<1>1. g.seq \in Seqs /\ g.seq \in Int /\ g.ms \in Nat
  BY GroupIs DEF Groups
<1> QED BY <1>1 DEF BeginAppend

(* Rotation adds an empty file, and leaves the others as they are.         *)
LEMMA RotateIs ==
  ASSUME IInv, NEW g \in Groups, BeginAppend(g), MustRotate
  PROVE  \E path \in Paths :
           /\ path.stem = g.seq /\ path.v2 = TRUE /\ path \notin DOMAIN disk
           /\ segments' = WithNew(segments, path, g.seq) /\ pending' = <<>>
           /\ DiskOK(disk', g.seq, g.ms) /\ Below(disk', g.seq)
           /\ DOMAIN disk' = DOMAIN disk \cup {path} /\ disk'[path] = <<>>
           /\ \A p \in DOMAIN disk : disk'[p] = disk[p] /\ p.stem < g.seq
<1> DEFINE path == [stem |-> g.seq, v2 |-> TRUE]
           flushed == IF segments = <<>> THEN disk
                      ELSE [disk EXCEPT ![Last(segments).path] = @ \o pending]
<1>1. /\ DiskOK(disk, hw, clock) /\ AllUncut(disk) /\ SegmentsOK(segments, disk, hw)
      /\ IndexOK(index, maxSeq, segments, disk) /\ pending = <<>> /\ hw \in Int /\ clock \in Nat
  BY Running, BeginAppendIs
<1>2. /\ up' /\ op'.kind = "append"
      /\ op'.group = g /\ hw' = g.seq /\ clock' = g.ms
      /\ index' = index /\ maxSeq' = maxSeq /\ located' = located /\ acked' = acked
      /\ g.v2 /\ g.seq > hw /\ g.ms >= clock /\ g.seq \in Seqs /\ g.seq \in Int /\ g.ms \in Nat
  BY BeginAppendIs
<1>3. disk' = Put(flushed, path, <<>>) /\ segments' = WithNew(segments, path, g.seq) /\ pending' = <<>>
  BY DEF BeginAppend, WithNew, NewSegment
<1>4. DOMAIN flushed = DOMAIN disk /\ \A p \in DOMAIN disk : flushed[p] = disk[p]
  <2>1. CASE segments = <<>>
    BY <2>1
  <2>2. CASE segments # <<>>
    <3> DEFINE q == Last(segments).path
    <3>1. flushed = [disk EXCEPT ![q] = disk[q] \o pending]
      BY <2>2
    <3>2. q \in DOMAIN disk
      <4>1. Len(segments) \in 1 .. Len(segments)
        BY <1>1, <2>2, LastIsNewest
      <4> QED BY <1>1, <4>1, SegIs DEF Last
    <3>3. disk[q] \o pending = disk[q]
      <4>1. Laid(disk[q])
        BY <1>1, <3>2, FileIs
      <4>2. disk[q] \in Seq(Cell)
        BY <4>1, LaidIs
      <4> QED BY <1>1, <4>2, ConcatEmptySeq
    <3> HIDE DEF q, flushed
    <3> QED BY <3>1, <3>2, <3>3
  <2> QED BY <2>1, <2>2
<1> HIDE DEF flushed
<1>5. disk' = Put(disk, path, <<>>)
  BY <1>3, <1>4 DEF Put
<1>6. path.stem = g.seq /\ path.v2 = TRUE /\ path \in Paths
  BY <1>2 DEF Paths
<1> HIDE DEF path
<1>7. path = [stem |-> g.seq, v2 |-> TRUE]
  BY DEF path
<1>8. /\ DiskOK(disk', g.seq, g.ms) /\ Below(disk', g.seq)
      /\ path \notin DOMAIN disk /\ DOMAIN disk' = DOMAIN disk \cup {path}
      /\ disk'[path] = <<>> /\ \A p \in DOMAIN disk : disk'[p] = disk[p] /\ p.stem < g.seq
  <2>1. DiskOK(disk, hw, clock) /\ g.seq \in Seqs /\ g.seq > hw /\ g.ms \in Nat /\ g.ms >= clock
    BY <1>1, <1>2
  <2>2. NewFile(disk, path, g.seq, disk')
    BY <1>5, <1>7 DEF NewFile
  <2> QED BY <2>1, <2>2, DiskNew
<1> QED BY <1>3, <1>6, <1>8

LEMMA RotateIInv ==
  ASSUME IInv, NEW g \in Groups, BeginAppend(g), MustRotate
  PROVE  IInv'
<1>1. /\ DiskOK(disk, hw, clock) /\ AllUncut(disk) /\ SegmentsOK(segments, disk, hw)
      /\ IndexOK(index, maxSeq, segments, disk) /\ pending = <<>> /\ hw \in Int /\ clock \in Nat
  BY Running, BeginAppendIs
<1>2. /\ up' /\ op'.kind = "append"
      /\ op'.group = g /\ hw' = g.seq /\ clock' = g.ms
      /\ index' = index /\ maxSeq' = maxSeq /\ located' = located /\ acked' = acked
      /\ g.v2 /\ g.seq > hw /\ g.ms >= clock /\ g.seq \in Seqs /\ g.seq \in Int /\ g.ms \in Nat
  BY BeginAppendIs
<1>3. PICK path \in Paths :
           /\ path.stem = g.seq /\ path.v2 = TRUE /\ path \notin DOMAIN disk
           /\ segments' = WithNew(segments, path, g.seq) /\ pending' = <<>>
           /\ DiskOK(disk', g.seq, g.ms) /\ Below(disk', g.seq)
           /\ DOMAIN disk' = DOMAIN disk \cup {path} /\ disk'[path] = <<>>
           /\ \A p \in DOMAIN disk : disk'[p] = disk[p] /\ p.stem < g.seq
  BY RotateIs
<1>4. SegmentsOK(segments', disk', g.seq)
  BY <1>1, <1>2, <1>3, SegNew
<1>5. IndexOK(index, maxSeq, segments', disk')
  <2>1. NewSegment(path, g.seq) \in Segment
    BY <1>2, <1>3 DEF NewSegment, Segment
  <2> QED BY <1>1, <1>3, <2>1, IndexNew
<1>6. AllUncut(disk')
  <2>1. ASSUME NEW p \in DOMAIN disk' PROVE Uncut(disk'[p])
    <3>1. CASE p \in DOMAIN disk
      BY <1>1, <1>3, <3>1 DEF AllUncut
    <3>2. CASE p = path
      BY <1>3, <3>2 DEF Uncut
    <3> QED BY <1>3, <3>1, <3>2
  <2> QED BY <2>1 DEF AllUncut
<1>7. segments' # <<>> /\ segments'[Len(segments')].path.v2
  <2> DEFINE x == NewSegment(path, g.seq)
  <2>1. segments \in Seq(Segment) /\ Len(segments) \in Nat
    BY <1>1 DEF SegmentsOK
  <2>2. segments' = Append(segments, x) /\ x.path = path
    BY <1>3 DEF WithNew, NewSegment
  <2> HIDE DEF x
  <2>3. Len(segments') = Len(segments) + 1 /\ segments'[Len(segments) + 1] = x
    BY <2>1, <2>2
  <2>4. segments' # <<>>
    BY <2>1, <2>3
  <2> QED BY <1>3, <2>2, <2>3, <2>4
<1>8. OpOK'
  BY <1>2, <1>3, <1>7 DEF OpOK
<1>9. AckedOK'
  <2>1. AckedOK
    BY DEF IInv
  <2> QED BY <1>2, <1>3, <2>1, AckedStay
<1>10. LocatedOK'
  BY <1>2 DEF IInv, LocatedOK
<1>11. RunningOK'
  BY <1>2, <1>3, <1>4, <1>5, <1>6, <1>8 DEF RunningOK
<1> QED BY <1>2, <1>3, <1>9, <1>10, <1>11 DEF IInv

LEMMA SameSegmentIInv ==
  ASSUME IInv, NEW g \in Groups, BeginAppend(g), ~MustRotate
  PROVE  IInv'
<1>1. /\ DiskOK(disk, hw, clock) /\ AllUncut(disk) /\ SegmentsOK(segments, disk, hw)
      /\ IndexOK(index, maxSeq, segments, disk) /\ pending = <<>> /\ hw \in Int /\ clock \in Nat
  BY Running, BeginAppendIs
<1>2. /\ up' /\ op'.kind = "append"
      /\ op'.group = g /\ hw' = g.seq /\ clock' = g.ms
      /\ index' = index /\ maxSeq' = maxSeq /\ located' = located /\ acked' = acked
      /\ g.v2 /\ g.seq > hw /\ g.ms >= clock /\ g.seq \in Seqs /\ g.seq \in Int /\ g.ms \in Nat
  BY BeginAppendIs
<1>3. disk' = disk /\ segments' = segments /\ pending' = pending
  BY DEF BeginAppend
<1>4. DiskOK(disk, g.seq, g.ms) /\ Below(disk, g.seq)
  BY <1>1, <1>2, DiskLater
<1>5. SegmentsOK(segments, disk, g.seq)
  <2>1. hw <= g.seq
    BY <1>1, <1>2
  <2> QED BY <1>1, <1>2, <2>1, SegLater
<1>6. segments # <<>> /\ segments[Len(segments)].path.v2
  <2>1. segments # <<>> /\ segments[Len(segments)].v2
    BY DEF MustRotate, Last
  <2>2. Len(segments) \in 1 .. Len(segments)
    BY <1>1, <2>1, LastIsNewest
  <2>3. Describes(segments[Len(segments)], disk[segments[Len(segments)].path], hw)
    BY <1>1, <2>2, SegIs
  <2> QED BY <2>1, <2>3 DEF Describes
<1>7. OpOK'
  BY <1>2, <1>3, <1>4, <1>6 DEF OpOK
<1>8. RunningOK'
  BY <1>1, <1>2, <1>3, <1>5, <1>7 DEF RunningOK
<1>9. AckedOK' /\ LocatedOK'
  BY <1>2, <1>3 DEF IInv, AckedOK, LocatedOK
<1> QED BY <1>2, <1>3, <1>4, <1>8, <1>9 DEF IInv

(* The file an append in progress writes to: everything about it that the  *)
(* end of the append, or a crash in it, relies on.                         *)
AppendFile == segments[Len(segments)].path

LEMMA AppendingIs ==
  ASSUME IInv, op.kind = "append"
  PROVE  /\ up /\ op.group \in Groups /\ op.group.v2 = AppendFile.v2
         /\ op.group.seq = hw /\ op.group.ms = clock
         /\ segments # <<>> /\ AppendFile \in DOMAIN disk /\ Below(disk, hw)
         /\ Len(segments) \in 1 .. Len(segments) /\ segments \in Seq(Segment)
         /\ Laid(disk[AppendFile]) /\ Uncut(disk[AppendFile])
         /\ \A q \in DOMAIN disk : q.stem <= AppendFile.stem
         /\ pending \o Encode(op.group) = Encode(op.group)
         /\ disk[AppendFile] \o pending = disk[AppendFile]
         /\ Len(Encode(op.group)) = op.group.n + 1 /\ op.group.n \in Nat
<1>1. up
  <2>1. ~up => op.kind = "idle"
    BY DEF IInv, StoppedOK, Idle
  <2> QED BY <2>1
<1>2. /\ DiskOK(disk, hw, clock) /\ AllUncut(disk) /\ SegmentsOK(segments, disk, hw)
      /\ pending = <<>> /\ OpOK
  BY <1>1, Running
<1>3. /\ op.group \in Groups /\ op.group.v2
      /\ op.group.seq = hw /\ op.group.ms = clock
      /\ segments # <<>> /\ AppendFile.v2
      /\ Below(disk, hw)
  BY <1>2 DEF OpOK, Idle, AppendFile
<1>4. /\ Len(segments) \in 1 .. Len(segments) /\ segments \in Seq(Segment)
      /\ \A q \in DOMAIN disk : q.stem <= AppendFile.stem
  BY <1>2, <1>3, LastIsNewest DEF AppendFile, SegmentsOK
<1>5. AppendFile \in DOMAIN disk
  BY <1>2, <1>4, SegIs DEF AppendFile
<1>6. Laid(disk[AppendFile]) /\ Uncut(disk[AppendFile]) /\ AppendFile.v2 \in BOOLEAN
  BY <1>2, <1>5, FileIs DEF AllUncut
<1>7. op.group.v2 = AppendFile.v2
  <2>1. op.group.v2 \in BOOLEAN
    BY <1>3, GroupIs
  <2> QED BY <1>3, <1>6, <2>1, Zenon
<1>8. pending \o Encode(op.group) = Encode(op.group) /\ disk[AppendFile] \o pending = disk[AppendFile]
  <2>1. Encode(op.group) \in Seq(Cell) /\ disk[AppendFile] \in Seq(Cell)
    BY <1>3, <1>6, EncodeIs, LaidIs
  <2> QED BY <1>2, <2>1, ConcatEmptySeq
<1>9. Len(Encode(op.group)) = op.group.n + 1 /\ op.group.n \in Nat
  BY <1>3, EncodeIs, GroupIs
<1> QED BY <1>1, <1>3, <1>4, <1>5, <1>6, <1>7, <1>8, <1>9

(* The files once the first k cells of the group are in.                   *)
Written(k, new, c) ==
  /\ new = disk[AppendFile] \o SubSeq(Encode(op.group), 1, k)
  /\ c = [disk EXCEPT ![AppendFile] = new]

LEMMA WrittenIs ==
  ASSUME IInv, op.kind = "append", NEW k \in 0 .. op.group.n + 1, NEW new, NEW c, Written(k, new, c)
  PROVE  /\ Grown(disk[AppendFile], op.group, k, new) /\ Laid(new)
         /\ k = op.group.n + 1 => Uncut(new)
         /\ DiskOK(c, hw, clock) /\ Replaces(disk, AppendFile, new, c)
         /\ Records(new) = Records(disk[AppendFile]) \cup
                             (IF k = op.group.n + 1 THEN {op.group} ELSE {})
         /\ \A a \in acked : a.path \in DOMAIN c /\ a.group \in Records(c[a.path])
<1> DEFINE p == AppendFile
           g == op.group
           old == disk[AppendFile]
<1>1. /\ up /\ g \in Groups /\ g.v2 = p.v2 /\ g.seq = hw /\ g.ms = clock
      /\ p \in DOMAIN disk /\ Below(disk, hw) /\ Laid(old) /\ Uncut(old)
      /\ \A q \in DOMAIN disk : q.stem <= p.stem
  BY AppendingIs
<1>2. new = old \o SubSeq(Encode(g), 1, k) /\ c = [disk EXCEPT ![p] = new]
  BY DEF Written
<1>3. k \in 0 .. g.n + 1 /\ DiskOK(disk, hw, clock) /\ old = disk[p]
  BY DEF IInv
<1>4. AckedOK
  BY DEF IInv
<1> HIDE DEF p, g, old
<1>5. Grown(old, g, k, new)
  BY <1>1, <1>2, <1>3, AppendIs
<1>6. /\ Laid(new) /\ (k \in {0, g.n + 1} => Uncut(new))
      /\ Whole(new) = Whole(old) \cup (IF k = g.n + 1 THEN {Len(old)} ELSE {})
      /\ \A o \in Whole(old) : GroupAt(new, o) = GroupAt(old, o)
      /\ k = g.n + 1 => GroupAt(new, Len(old)) = g
  BY <1>1, <1>3, <1>5, GrownIs
<1>7. DiskOK(c, hw, clock)
  BY <1>1, <1>2, <1>3, <1>5, DiskGrow
<1>8. DOMAIN c = DOMAIN disk /\ c[p] = new /\ \A q \in DOMAIN disk \ {p} : c[q] = disk[q]
  BY <1>1, <1>2
<1>9. Records(new) = Records(old) \cup (IF k = g.n + 1 THEN {g} ELSE {})
  <2>1. CASE k = g.n + 1
    <3>1. Whole(new) = Whole(old) \cup {Len(old)} /\ GroupAt(new, Len(old)) = g
      BY <1>6, <2>1
    <3> QED BY <1>6, <2>1, <3>1 DEF Records
  <2>2. CASE k # g.n + 1
    BY <1>6, <2>2 DEF Records
  <2> QED BY <2>1, <2>2
<1>10. ASSUME NEW a \in acked PROVE a.path \in DOMAIN c /\ a.group \in Records(c[a.path])
  <2>1. a.path \in DOMAIN disk /\ a.group \in Records(disk[a.path])
    BY <1>4 DEF AckedOK
  <2>2. CASE a.path = p
    BY <1>3, <1>8, <1>9, <2>1, <2>2
  <2>3. CASE a.path # p
    BY <1>8, <2>1, <2>3
  <2> QED BY <2>2, <2>3
<1>11. Replaces(disk, p, new, c)
  BY <1>8 DEF Replaces
<1> QED BY <1>5, <1>6, <1>7, <1>9, <1>10, <1>11 DEF p, g, old

(* What the end of an append does.                                         *)
LEMMA EndAppendIs ==
  ASSUME IInv, EndAppend
  PROVE  /\ op.kind = "append"
         /\ disk' = [disk EXCEPT ![AppendFile] = disk[AppendFile] \o Encode(op.group)]
         /\ segments' = GrownSegments(segments, op.group)
         /\ index' = IndexWith(index, segments, op.group)
         /\ maxSeq' = Max({maxSeq, op.group.seq})
         /\ acked' = acked \cup {[group |-> op.group, path |-> AppendFile]}
         /\ pending' = <<>> /\ op' = Idle
         /\ up' = up /\ located' = located /\ hw' = hw /\ clock' = clock
<1>1. op.kind = "append"
  BY DEF EndAppend
<1>2. disk[AppendFile] \o pending = disk[AppendFile]
  BY <1>1, AppendingIs
<1>3. disk' = [disk EXCEPT ![AppendFile] = disk[AppendFile] \o pending \o Encode(op.group)]
  BY DEF EndAppend, AppendFile
<1>4. disk' = [disk EXCEPT ![AppendFile] = disk[AppendFile] \o Encode(op.group)]
  BY <1>2, <1>3
<1> QED BY <1>1, <1>4 DEF EndAppend, AppendFile, GrownSegments, IndexWith

LEMMA EndAppendWrites ==
  ASSUME IInv, EndAppend
  PROVE  Written(op.group.n + 1, disk[AppendFile] \o SubSeq(Encode(op.group), 1, op.group.n + 1), disk')
<1> DEFINE g == op.group
<1>1. g \in Groups /\ g.n \in Nat
  BY EndAppendIs, AppendingIs
<1>2. SubSeq(Encode(g), 1, g.n + 1) = Encode(g)
  <2>1. /\ Encode(g) \in Seq(Cell) /\ Len(Encode(g)) = g.n + 1
    BY <1>1, EncodeIs
  <2> DEFINE e == Encode(g)
             l == g.n + 1
  <2>2. e \in Seq(Cell) /\ l = Len(e) /\ l \in 0 .. Len(e)
    BY <1>1, <2>1
  <2> HIDE DEF e, l
  <2>3. /\ SubSeq(e, 1, l) \in Seq(Cell) /\ Len(SubSeq(e, 1, l)) = l
        /\ \A i \in 1 .. l : SubSeq(e, 1, l)[i] = e[i]
    BY <2>2, PrefixIs
  <2>4. SubSeq(e, 1, l) = e
    BY <2>2, <2>3, SeqEqual
  <2> QED BY <2>4 DEF e, l
<1>3. disk' = [disk EXCEPT ![AppendFile] = disk[AppendFile] \o Encode(g)]
  BY EndAppendIs
<1> QED BY <1>2, <1>3 DEF Written

LEMMA EndAppendIInv ==
  ASSUME IInv, EndAppend
  PROVE  IInv'
<1> DEFINE p == AppendFile
           g == op.group
           k == g.n + 1
           new == disk[AppendFile] \o SubSeq(Encode(op.group), 1, op.group.n + 1)
<1>1. /\ op.kind = "append" /\ segments' = GrownSegments(segments, g)
      /\ index' = IndexWith(index, segments, g) /\ maxSeq' = Max({maxSeq, g.seq})
      /\ acked' = acked \cup {[group |-> g, path |-> p]}
      /\ pending' = <<>> /\ op' = Idle
      /\ up' = up /\ located' = located /\ hw' = hw /\ clock' = clock
  BY EndAppendIs
<1>2. /\ up /\ g \in Groups /\ g.seq = hw /\ g.ms = clock /\ segments # <<>>
      /\ p \in DOMAIN disk /\ Below(disk, hw) /\ Uncut(disk[p]) /\ k \in 0 .. k
  BY <1>1, AppendingIs
<1>3. /\ DiskOK(disk, hw, clock) /\ AllUncut(disk) /\ SegmentsOK(segments, disk, hw)
      /\ IndexOK(index, maxSeq, segments, disk)
  BY <1>2, Running
<1>4. Written(k, new, disk')
  BY EndAppendWrites
<1> HIDE DEF new
<1>5. /\ Grown(disk[p], g, k, new) /\ Laid(new) /\ Uncut(new)
      /\ DiskOK(disk', hw, clock) /\ Replaces(disk, p, new, disk')
      /\ Records(new) = Records(disk[p]) \cup {g}
      /\ \A a \in acked : a.path \in DOMAIN disk' /\ a.group \in Records(disk'[a.path])
  BY <1>1, <1>2, <1>4, WrittenIs
<1>6. p = segments[Len(segments)].path
  BY DEF AppendFile
<1>7. InOrder(new, p, hw, clock)
  <2>1. p \in DOMAIN disk' /\ disk'[p] = new
    BY <1>2, <1>5 DEF Replaces
  <2>2. InOrder(disk'[p], p, hw, clock)
    BY <1>5, <2>1, FileIs
  <2> QED BY <2>1, <2>2
<1> HIDE DEF p, g, k
<1>8. Grown(disk[p], g, g.n + 1, new)
  BY <1>5 DEF k
<1>9. SegmentsOK(segments', disk', hw)
  BY <1>1, <1>2, <1>3, <1>5, <1>6, <1>7, <1>8, SegGrow
<1>10. IndexOK(index', maxSeq', segments', disk')
  BY <1>1, <1>2, <1>3, <1>5, <1>6, <1>8, IndexGrow
<1>11. AllUncut(disk')
  <2>1. ASSUME NEW q \in DOMAIN disk' PROVE Uncut(disk'[q])
    BY <1>3, <1>5 DEF AllUncut, Replaces
  <2> QED BY <2>1 DEF AllUncut
<1>12. AckedOK'
  <2>1. ASSUME NEW a \in acked' PROVE a.path \in DOMAIN disk' /\ a.group \in Records(disk'[a.path])
    <3>1. CASE a \in acked
      BY <1>5, <3>1
    <3>2. CASE a = [group |-> g, path |-> p]
      <4>1. a.group = g /\ a.path = p
        BY <3>2
      <4>2. p \in DOMAIN disk' /\ disk'[p] = new
        BY <1>2, <1>5 DEF Replaces
      <4>3. g \in Records(new)
        BY <1>5
      <4> QED BY <4>1, <4>2, <4>3
    <3> QED BY <1>1, <3>1, <3>2
  <2> QED BY <2>1 DEF AckedOK
<1>13. RunningOK'
  BY <1>1, <1>9, <1>10, <1>11 DEF RunningOK, OpOK
<1>14. LocatedOK'
  BY <1>1 DEF IInv, LocatedOK
<1> QED BY <1>1, <1>2, <1>5, <1>12, <1>13, <1>14 DEF IInv

(* What a crash does.                                                      *)
LEMMA CrashIs ==
  ASSUME IInv, Crash
  PROVE  /\ up /\ ~up' /\ StoppedOK' /\ LocatedOK' /\ hw' = hw /\ clock' = clock /\ acked' = acked
         /\ op.kind # "append" => disk' = disk
         /\ op.kind = "append" =>
              \E k \in 0 .. op.group.n + 1 :
                Written(k, disk[AppendFile] \o SubSeq(Encode(op.group), 1, k), disk')
<1>1. /\ up /\ ~up' /\ hw' = hw /\ clock' = clock /\ acked' = acked
      /\ op.kind # "append" => disk' = disk
  BY DEF Crash
<1>2. StoppedOK' /\ LocatedOK'
  BY DEF Crash, StoppedOK, LocatedOK
<1>3. ASSUME op.kind = "append"
      PROVE  \E k \in 0 .. op.group.n + 1 :
                Written(k, disk[AppendFile] \o SubSeq(Encode(op.group), 1, k), disk')
  <2>1. pending \o Encode(op.group) = Encode(op.group) /\ Len(Encode(op.group)) = op.group.n + 1
    BY <1>3, AppendingIs
  <2>2. Last(segments).path = AppendFile
    BY DEF Last, AppendFile
  <2>3. \E k \in 0 .. Len(pending \o Encode(op.group)) :
          disk' = [disk EXCEPT ![Last(segments).path] =
                     @ \o SubSeq(pending \o Encode(op.group), 1, k)]
    BY <1>3 DEF Crash
  <2>4. PICK k \in 0 .. op.group.n + 1 :
          disk' = [disk EXCEPT ![AppendFile] = disk[AppendFile] \o SubSeq(Encode(op.group), 1, k)]
    BY <2>1, <2>2, <2>3
  <2> QED BY <2>4 DEF Written
<1> QED BY <1>1, <1>2, <1>3

LEMMA CrashIInv ==
  ASSUME IInv, Crash
  PROVE  IInv'
<1>1. /\ up /\ ~up' /\ StoppedOK' /\ LocatedOK' /\ hw' = hw /\ clock' = clock /\ acked' = acked
  BY CrashIs
<1>2. DiskOK(disk', hw, clock) /\ AckedOK'
  <2>1. CASE op.kind # "append"
    <3>1. disk' = disk
      BY <2>1, CrashIs
    <3> QED BY <1>1, <3>1 DEF IInv, AckedOK
  <2>2. CASE op.kind = "append"
    <3>1. PICK k \in 0 .. op.group.n + 1 :
            Written(k, disk[AppendFile] \o SubSeq(Encode(op.group), 1, k), disk')
      BY <2>2, CrashIs
    <3>2. /\ DiskOK(disk', hw, clock)
          /\ \A a \in acked : a.path \in DOMAIN disk' /\ a.group \in Records(disk'[a.path])
      BY <2>2, <3>1, WrittenIs
    <3> QED BY <1>1, <3>2 DEF AckedOK
  <2> QED BY <2>1, <2>2
<1> QED BY <1>1, <1>2 DEF IInv

(* What GC dropping the oldest segment does.                               *)
LEMMA DropIs ==
  ASSUME IInv, DropOldest
  PROVE  /\ up /\ up' /\ op.kind = "gc" /\ MayDropOldest /\ Len(segments) > 1
         /\ 1 \in 1 .. Len(segments) /\ segments \in Seq(Segment)
         /\ op' = op /\ pending' = pending /\ maxSeq' = maxSeq /\ located' = located
         /\ hw' = hw /\ clock' = clock
         /\ disk' = KeepOnly(disk, DOMAIN disk \ {segments[1].path})
         /\ Drops(disk, segments[1].path, disk') /\ IsRest(segments', segments)
         /\ index' = IndexWithout /\ acked' = {a \in acked : a.path # segments[1].path}
         /\ DiskOK(disk', hw, clock)
<1>1. op.kind = "gc" /\ MayDropOldest /\ Len(segments) > 1
  BY DEF DropOldest, MayDropOldest
<1>2. up
  <2>1. ~up => op.kind = "idle"
    BY DEF IInv, StoppedOK, Idle
  <2> QED BY <1>1, <2>1
<1>3. segments \in Seq(Segment) /\ Len(segments) \in Nat /\ DiskOK(disk, hw, clock)
  BY <1>2, Running DEF SegmentsOK
<1>4. 1 \in 1 .. Len(segments)
  BY <1>1, <1>3
<1>5. disk' = KeepOnly(disk, DOMAIN disk \ {segments[1].path})
  BY DEF DropOldest
<1>6. DiskOK(disk', hw, clock) /\ Drops(disk, segments[1].path, disk')
  <2>1. Without(disk, segments[1].path, disk')
    BY <1>5 DEF Without
  <2> QED BY <1>3, <2>1, DiskDrop
<1> QED BY <1>1, <1>2, <1>3, <1>4, <1>5, <1>6 DEF DropOldest, IsRest, IndexWithout

LEMMA DropOldestIInv ==
  ASSUME IInv, DropOldest
  PROVE  IInv'
<1>1. /\ up /\ up' /\ op.kind = "gc" /\ Len(segments) > 1 /\ op' = op /\ pending' = pending
      /\ maxSeq' = maxSeq /\ located' = located /\ hw' = hw /\ clock' = clock
      /\ Drops(disk, segments[1].path, disk') /\ IsRest(segments', segments)
      /\ index' = IndexWithout /\ acked' = {a \in acked : a.path # segments[1].path}
      /\ DiskOK(disk', hw, clock)
  BY DropIs
<1>2. /\ DiskOK(disk, hw, clock) /\ AllUncut(disk) /\ SegmentsOK(segments, disk, hw)
      /\ IndexOK(index, maxSeq, segments, disk) /\ pending = <<>> /\ OpOK
  BY <1>1, Running
<1>3. SegmentsOK(segments', disk', hw)
  BY <1>1, <1>2, SegDrop
<1>4. IndexOK(index', maxSeq, segments', disk')
  BY <1>1, <1>2, IndexDrop
<1>5. AllUncut(disk')
  BY <1>1, <1>2 DEF AllUncut, Drops
<1>6. OpOK'
  BY <1>1, <1>2 DEF OpOK, Idle
<1>7. AckedOK'
  <2>1. ASSUME NEW a \in acked' PROVE a.path \in DOMAIN disk' /\ a.group \in Records(disk'[a.path])
    <3>1. a \in acked /\ a.path # segments[1].path
      BY <1>1
    <3>2. a.path \in DOMAIN disk /\ a.group \in Records(disk[a.path])
      BY <3>1 DEF IInv, AckedOK
    <3> QED BY <1>1, <3>1, <3>2 DEF Drops
  <2> QED BY <2>1 DEF AckedOK
<1>8. RunningOK'
  BY <1>1, <1>2, <1>3, <1>4, <1>5, <1>6 DEF RunningOK
<1>9. LocatedOK'
  BY <1>1 DEF IInv, LocatedOK
<1> QED BY <1>1, <1>7, <1>8, <1>9 DEF IInv

(* A step that changes neither the files nor the memory of the store.      *)
LEMMA QuietIInv ==
  ASSUME IInv, up' = up, disk' = disk, memory' = memory, ghosts' = ghosts,
         OpOK', ~up => op' = Idle, LocatedOK'
  PROVE  IInv'
<1>1. /\ segments' = segments /\ index' = index /\ maxSeq' = maxSeq /\ pending' = pending
      /\ hw' = hw /\ clock' = clock /\ acked' = acked
  BY DEF memory, ghosts
<1>2. DiskOK(disk', hw', clock') /\ AckedOK'
  BY <1>1 DEF IInv, AckedOK
<1>3. up' => RunningOK'
  BY <1>1 DEF IInv, RunningOK
<1>4. ~up' => StoppedOK'
  BY <1>1 DEF IInv, StoppedOK
<1> QED BY <1>2, <1>3, <1>4 DEF IInv

LEMMA BeginGcIInv ==
  ASSUME IInv, NEW cutoff \in 0 .. clock + 1, NEW maxBytes \in Budgets, BeginGc(cutoff, maxBytes)
  PROVE  IInv'
<1>1. up /\ op' = [kind |-> "gc", cutoff |-> cutoff, maxBytes |-> maxBytes]
  BY DEF BeginGc
<1>2. cutoff \in Nat /\ maxBytes \in Nat
  <2>1. clock \in Nat
    BY <1>1, Running
  <2> QED BY <2>1, StoreAssumption
<1>3. OpOK'
  BY <1>1, <1>2 DEF OpOK
<1>4. LocatedOK'
  BY DEF BeginGc, IInv, LocatedOK
<1> QED BY <1>1, <1>3, <1>4, QuietIInv DEF BeginGc

LEMMA EndGcIInv ==
  ASSUME IInv, EndGc
  PROVE  IInv'
<1>1. op' = Idle /\ OpOK'
  BY DEF EndGc, OpOK
<1>2. LocatedOK'
  BY DEF EndGc, IInv, LocatedOK
<1> QED BY <1>1, <1>2, QuietIInv DEF EndGc

LEMMA LocateIInv ==
  ASSUME IInv, NEW r \in Readers, NEW seq \in Seqs, Locate(r, seq)
  PROVE  IInv'
<1>1. up /\ op = Idle /\ op' = op /\ OpOK'
  BY DEF Locate, OpOK
<1>2. IndexOK(index, maxSeq, segments, disk)
  BY <1>1, Running
<1>3. LocationOf(seq).offset \in Nat
  <2>1. index[seq].offset \in Nat
    BY <1>2 DEF Locate, IndexOK
  <2> QED BY <2>1 DEF LocationOf
<1>4. LocatedOK'
  <2> DEFINE x == [seq |-> seq, loc |-> LocationOf(seq)]
  <2>1. located' = [located EXCEPT ![r] = x] /\ x.loc.offset \in Nat
    BY <1>3 DEF Locate
  <2> HIDE DEF x
  <2> QED BY <2>1 DEF IInv, LocatedOK
<1> QED BY <1>1, <1>4, QuietIInv DEF Locate

LEMMA FetchIInv ==
  ASSUME IInv, NEW r \in Readers, Fetch(r)
  PROVE  IInv'
<1>1. up /\ op' = op
  BY DEF Fetch
<1>2. OpOK'
  <2>1. OpOK
    BY <1>1, Running
  <2> QED BY <2>1 DEF OpOK, Fetch, memory, ghosts
<1>3. LocatedOK'
  BY DEF Fetch, IInv, LocatedOK
<1> QED BY <1>1, <1>2, <1>3, QuietIInv DEF Fetch

LEMMA StutterIInv ==
  ASSUME IInv, UNCHANGED vars
  PROVE  IInv'
<1>1. /\ up' = up /\ disk' = disk /\ memory' = memory /\ ghosts' = ghosts /\ op' = op
      /\ located' = located
  BY DEF vars
<1>2. ~up => op' = Idle
  BY <1>1 DEF IInv, StoppedOK
<1>3. LocatedOK'
  BY <1>1 DEF IInv, LocatedOK
<1>4. CASE up
  <2>1. OpOK
    BY <1>4, Running
  <2>2. OpOK'
    BY <1>1, <2>1 DEF OpOK, memory, ghosts
  <2> QED BY <1>1, <1>2, <1>3, <2>2, QuietIInv
<1>5. CASE ~up
  <2>1. OpOK'
    BY <1>2, <1>5 DEF OpOK
  <2> QED BY <1>1, <1>2, <1>3, <2>1, QuietIInv
<1> QED BY <1>4, <1>5

(* The appends of these proofs succeed or the process dies in them.        *)
NoAppendFails == AppendMayFail = FALSE

LEMMA NextIInv ==
  ASSUME NoAppendFails, IInv, [Next]_vars
  PROVE  IInv'
<1>1. CASE Open
  BY <1>1, OpenIInv
<1>2. ASSUME NEW g \in Groups, BeginAppend(g) PROVE IInv'
  BY <1>2, RotateIInv, SameSegmentIInv
<1>3. CASE EndAppend
  BY <1>3, EndAppendIInv
<1>4. CASE FailAppend
  BY <1>4 DEF FailAppend, NoAppendFails
<1>5. ASSUME NEW cutoff \in 0 .. clock + 1, NEW maxBytes \in Budgets, BeginGc(cutoff, maxBytes)
      PROVE  IInv'
  BY <1>5, BeginGcIInv
<1>6. CASE DropOldest
  BY <1>6, DropOldestIInv
<1>7. CASE EndGc
  BY <1>7, EndGcIInv
<1>8. ASSUME NEW r \in Readers, NEW seq \in Seqs, Locate(r, seq) PROVE IInv'
  BY <1>8, LocateIInv
<1>9. ASSUME NEW r \in Readers, Fetch(r) PROVE IInv'
  BY <1>9, FetchIInv
<1>10. CASE Crash
  BY <1>10, CrashIInv
<1>11. CASE UNCHANGED vars
  BY <1>11, StutterIInv
<1> QED BY <1>1, <1>2, <1>3, <1>4, <1>5, <1>6, <1>7, <1>8, <1>9, <1>10, <1>11 DEF Next

-----------------------------------------------------------------------------
(* The files hold records in order, only the last of a file may be torn,   *)
(* and only after a crash; while the store is open its segments and index  *)
(* describe them exactly.                                                  *)
THEOREM StoreInvariant == NoAppendFails => (Spec => []IInv)
<1> SUFFICES ASSUME NoAppendFails PROVE Spec => []IInv
  OBVIOUS
<1>1. Init => IInv
  BY InitIInv
<1>2. IInv /\ [Next]_vars => IInv'
  BY NextIInv
<1> QED BY <1>1, <1>2, PTL DEF Spec

-----------------------------------------------------------------------------
(* What the invariant gives the readers and the publisher.                 *)

(* Where an indexed sequence is read.                                      *)
LEMMA ReadsAreSoundHere ==
  ASSUME IInv
  PROVE  ReadsAreSound
<1>1. \A p \in DOMAIN disk : Laid(disk[p])
  BY FileIs DEF IInv
<1>2. ASSUME NEW loc, NEW seq, loc.offset \in Nat
      PROVE  ReadGroupAt(loc, seq) = None \/
               (ReadGroupAt(loc, seq) \in Groups /\ ReadGroupAt(loc, seq).seq = seq)
  BY <1>1, <1>2, ReadSound
<1>3. ASSUME NEW s \in DOMAIN index PROVE LocationOf(s).offset \in Nat
  <2>1. up
    <3>1. ~up => index = <<>>
      BY DEF IInv, StoppedOK
    <3>2. DOMAIN <<>> = {}
      OBVIOUS
    <3> QED BY <3>1, <3>2
  <2>2. index[s].offset \in Nat
    BY <2>1, Running DEF IndexOK
  <2> QED BY <2>2 DEF LocationOf
<1>4. ASSUME NEW r \in Readers, located[r] # None PROVE located[r].loc.offset \in Nat
  BY <1>4 DEF IInv, LocatedOK
<1> QED BY <1>2, <1>3, <1>4 DEF ReadsAreSound

(* A whole record is found through the index.                              *)
LEMMA IndexedReadBack ==
  ASSUME IInv, up, NEW p \in DOMAIN disk, NEW g \in Records(disk[p])
  PROVE  /\ g.seq \in DOMAIN index /\ g.seq <= maxSeq
         /\ ReadGroupAt(LocationOf(g.seq), g.seq) = g
<1>1. /\ DiskOK(disk, hw, clock) /\ SegmentsOK(segments, disk, hw)
      /\ IndexOK(index, maxSeq, segments, disk)
  BY Running
<1>2. PICK i \in 1 .. Len(segments) : segments[i].path = p
  BY <1>1 DEF SegmentsOK
<1>3. PICK o \in Whole(disk[p]) : GroupAt(disk[p], o) = g
  BY DEF Records
<1>4. /\ g.seq \in DOMAIN index /\ index[g.seq].segment = i /\ index[g.seq].offset = o
      /\ g.seq <= maxSeq
  BY <1>1, <1>2, <1>3 DEF IndexOK
<1>5. segments[i].v2 = p.v2
  BY <1>1, <1>2 DEF SegmentsOK, Describes
<1> DEFINE loc == LocationOf(g.seq)
<1>6. loc.path = p /\ loc.offset = o /\ loc.v2 = p.v2
  BY <1>2, <1>4, <1>5 DEF LocationOf
<1> HIDE DEF loc
<1>7. Laid(disk[p]) /\ Matches(disk[p], p.v2)
  BY <1>1, FileIs, ScanIs
<1>8. ReadGroupAt(loc, g.seq) = GroupAt(disk[p], o)
  BY <1>3, <1>6, <1>7, ReadBack
<1> QED BY <1>3, <1>4, <1>8 DEF loc

LEMMA AckedRead ==
  ASSUME IInv
  PROVE  AckedGroupsReadBack /\ HighWaterCovers
<1>1. ASSUME up, NEW a \in acked
      PROVE  /\ a.group.seq \in DOMAIN index /\ a.group.seq <= maxSeq
             /\ ReadGroupAt(LocationOf(a.group.seq), a.group.seq) = a.group
  <2>1. a.path \in DOMAIN disk /\ a.group \in Records(disk[a.path])
    BY DEF IInv, AckedOK
  <2> QED BY <1>1, <2>1, IndexedReadBack
<1> QED BY <1>1 DEF AckedGroupsReadBack, HighWaterCovers

(* No read hands out the wrong content, whatever the index holds and       *)
(* whatever GC deleted since (ReadsAreSound).                              *)
THEOREM StoreReadsAreSound == NoAppendFails => (Spec => []ReadsAreSound)
<1> SUFFICES ASSUME NoAppendFails PROVE Spec => []ReadsAreSound
  OBVIOUS
<1>1. Spec => []IInv
  BY StoreInvariant
<1>2. IInv => ReadsAreSound
  BY ReadsAreSoundHere
<1> QED BY <1>1, <1>2, PTL

(* Every group whose append returned Ok reads back until GC drops its      *)
(* segment, across crashes, torn tails, rotation and the scan on open.     *)
THEOREM AckedGroupsAreKept == NoAppendFails => (Spec => []AckedGroupsReadBack)
<1> SUFFICES ASSUME NoAppendFails PROVE Spec => []AckedGroupsReadBack
  OBVIOUS
<1>1. Spec => []IInv
  BY StoreInvariant
<1>2. IInv => AckedGroupsReadBack
  BY AckedRead
<1> QED BY <1>1, <1>2, PTL

(* The sequence that seeds the next run covers every stored group.         *)
THEOREM HighWaterHolds == NoAppendFails => (Spec => []HighWaterCovers)
<1> SUFFICES ASSUME NoAppendFails PROVE Spec => []HighWaterCovers
  OBVIOUS
<1>1. Spec => []IInv
  BY StoreInvariant
<1>2. IInv => HighWaterCovers
  BY AckedRead
<1> QED BY <1>1, <1>2, PTL

-----------------------------------------------------------------------------
(* Garbage collection.                                                     *)

(* The steps that may fall while a collection is in progress.              *)
LEMMA GcSteps ==
  ASSUME NoAppendFails, IInv, [Next]_vars, op.kind = "gc"
  PROVE  /\ up
         /\ DropOldest \/ EndGc \/ (DOMAIN disk' = DOMAIN disk /\ (up' => op' = op))
<1>1. up
  <2>1. ~up => op.kind = "idle"
    BY DEF IInv, StoppedOK, Idle
  <2> QED BY <2>1
<1>2. op # Idle
  BY DEF Idle
<1>3. CASE Open
  BY <1>1, <1>3 DEF Open
<1>4. ASSUME NEW g \in Groups, BeginAppend(g) PROVE FALSE
  BY <1>2, <1>4 DEF BeginAppend
<1>5. CASE EndAppend
  BY <1>5 DEF EndAppend
<1>6. CASE FailAppend
  BY <1>6 DEF FailAppend, NoAppendFails
<1>7. ASSUME NEW cutoff \in 0 .. clock + 1, NEW maxBytes \in Budgets, BeginGc(cutoff, maxBytes)
      PROVE  FALSE
  BY <1>2, <1>7 DEF BeginGc
<1>8. ASSUME NEW r \in Readers, NEW seq \in Seqs, Locate(r, seq) PROVE FALSE
  BY <1>2, <1>8 DEF Locate
<1>9. ASSUME NEW r \in Readers, Fetch(r) PROVE disk' = disk /\ op' = op
  BY <1>9 DEF Fetch
<1>10. CASE Crash
  <2>1. (op.kind # "append" => disk' = disk) /\ ~up'
    BY <1>10, CrashIs
  <2>2. disk' = disk
    BY <2>1
  <2> QED BY <1>1, <2>1, <2>2
<1>11. CASE UNCHANGED vars
  BY <1>1, <1>11 DEF vars
<1> QED BY <1>1, <1>3, <1>4, <1>5, <1>6, <1>7, <1>8, <1>9, <1>10, <1>11 DEF Next

(* The groups of a file are cells of it.                                   *)
LEMMA RecordsAre ==
  ASSUME NEW file, Laid(file), NEW g \in Records(file)
  PROVE  \E i \in 1 .. Len(file) : file[i].group = g
<1>1. PICK o \in Whole(file) : GroupAt(file, o) = g
  BY DEF Records
<1>2. o + 1 \in 1 .. Len(file) /\ GroupAt(file, o) = file[o + 1].group
  BY WholeIs
<1> QED BY <1>1, <1>2

LEMMA DropIsAllowed ==
  ASSUME NoAppendFails, IInv, [Next]_vars,
         NEW i \in 1 .. Len(segments), op.kind = "gc", segments[i].path \notin DOMAIN disk'
  PROVE  /\ i < Len(segments)
         /\ \/ op.maxBytes > 0 /\ TotalBytes(segments) > op.maxBytes
            \/ \A a \in acked : a.path = segments[i].path => a.group.ms < op.cutoff
<1>1. up
  BY GcSteps
<1>2. DiskOK(disk, hw, clock) /\ SegmentsOK(segments, disk, hw) /\ OpOK
  BY <1>1, Running
<1>3. segments[i].path \in DOMAIN disk
  BY <1>2, SegIs
<1>4. DropOldest
  <2>1. EndGc => disk' = disk
    BY DEF EndGc
  <2> QED BY <1>3, <2>1, GcSteps
<1>5. Len(segments) > 1 /\ Drops(disk, segments[1].path, disk') /\ MayDropOldest /\ 1 \in 1 .. Len(segments)
  BY <1>4, DropIs
<1>6. i = 1
  <2>1. segments[i].path = segments[1].path
    BY <1>3, <1>5 DEF Drops
  <2> QED BY <1>2, <1>5, <2>1, SegDistinct
<1>7. ASSUME segments[1].newest < op.cutoff, NEW a \in acked, a.path = segments[1].path
      PROVE  a.group.ms < op.cutoff
  <2> DEFINE p == segments[1].path
  <2>1. p \in DOMAIN disk /\ a.group \in Records(disk[p])
    BY <1>7 DEF IInv, AckedOK
  <2>2. Laid(disk[p])
    BY <1>2, <2>1, FileIs
  <2>3. PICK c \in 1 .. Len(disk[p]) : disk[p][c].group = a.group
    BY <2>1, <2>2, RecordsAre
  <2>4. a.group.ms <= segments[1].newest
    BY <1>2, <1>5, <2>3 DEF SegmentsOK, Describes
  <2>5. a.group \in Groups
    BY <2>2, <2>3, LaidIs
  <2>6. a.group.ms \in Nat /\ segments[1].newest \in Nat /\ op.cutoff \in Nat
    <3>1. op.cutoff \in Nat
      BY <1>2, <1>4 DEF OpOK, DropOldest, Idle
    <3> QED BY <1>2, <1>5, <2>5, <3>1, GroupIs, SegIs
  <2> QED BY <1>7, <2>4, <2>6
<1> QED BY <1>5, <1>6, <1>7 DEF MayDropOldest

(* A dropped segment was not the write target and, unless the store was    *)
(* over its budget, held no group inside the window.                       *)
THEOREM GcDropsNoMore == NoAppendFails => (Spec => GcDropsOnlyWhatItMay)
<1> SUFFICES ASSUME NoAppendFails PROVE Spec => GcDropsOnlyWhatItMay
  OBVIOUS
<1> DEFINE A == \A i \in 1 .. Len(segments) :
                  op.kind = "gc" /\ segments[i].path \notin DOMAIN disk' =>
                    /\ i < Len(segments)
                    /\ \/ op.maxBytes > 0 /\ TotalBytes(segments) > op.maxBytes
                       \/ \A a \in acked : a.path = segments[i].path => a.group.ms < op.cutoff
<1>1. Spec => []IInv
  BY StoreInvariant
<1>2. IInv /\ [Next]_vars => A
  BY DropIsAllowed
<1>3. Spec => [][A]_vars
  BY <1>1, <1>2, PTL DEF Spec
<1> QED BY <1>3 DEF GcDropsOnlyWhatItMay

(* What a scan finds in a file.                                            *)
LEMMA GroupsInAre ==
  ASSUME IInv, NEW p \in DOMAIN disk
  PROVE  GroupsIn(p) = Records(disk[p])
<1>1. Laid(disk[p]) /\ InOrder(disk[p], p, hw, clock)
  BY FileIs DEF IInv
<1> QED BY <1>1, ScanIs DEF GroupsIn

LEMMA EndGcIsDone ==
  ASSUME NoAppendFails, IInv, [Next]_vars, op.kind = "gc", op' = Idle, up'
  PROVE  \/ Len(segments) <= 1
         \/ /\ op.maxBytes = 0 \/ ~(TotalBytes(segments) > op.maxBytes)
            /\ \/ op.cutoff = 0
               \/ \E g \in GroupsIn(segments[1].path) : g.ms >= op.cutoff
<1>1. up
  BY GcSteps
<1>2. /\ DiskOK(disk, hw, clock) /\ AllUncut(disk) /\ SegmentsOK(segments, disk, hw) /\ OpOK
  BY <1>1, Running
<1>3. EndGc
  <2>1. DropOldest => op' = op
    BY DEF DropOldest
  <2> QED BY <2>1, GcSteps DEF Idle
<1>4. op.cutoff \in Nat /\ op.maxBytes \in Nat
  BY <1>2 DEF OpOK, Idle
<1>5. Len(segments) \in Nat
  BY <1>2 DEF SegmentsOK
<1> SUFFICES ASSUME Len(segments) > 1
             PROVE  /\ op.maxBytes = 0 \/ ~(TotalBytes(segments) > op.maxBytes)
                    /\ \/ op.cutoff = 0
                       \/ \E g \in GroupsIn(segments[1].path) : g.ms >= op.cutoff
  BY <1>5
<1>6. ~(segments[1].newest < op.cutoff) /\ ~(op.maxBytes > 0 /\ TotalBytes(segments) > op.maxBytes)
  BY <1>3 DEF EndGc, MayDropOldest
<1> DEFINE p == segments[1].path
           f == disk[p]
<1>7. 1 \in 1 .. Len(segments)
  BY <1>5
<1>8. p \in DOMAIN disk /\ segments[1].newest \in Nat /\ Describes(segments[1], f, hw)
  BY <1>2, <1>7, SegIs
<1>9. segments[1].newest >= op.cutoff
  BY <1>4, <1>6, <1>8
<1>10. CASE segments[1].newest = 0
  BY <1>4, <1>6, <1>9, <1>10
<1>11. ASSUME NEW c \in 1 .. Len(f), f[c].group.ms = segments[1].newest
       PROVE  \E g \in GroupsIn(p) : g.ms >= op.cutoff
  <2>1. Laid(f) /\ Uncut(f)
    BY <1>2, <1>8, FileIs DEF AllUncut
  <2>2. f[c].group \in Records(f)
    BY <2>1, UncutWhole DEF Records
  <2>3. GroupsIn(p) = Records(f)
    BY <1>8, GroupsInAre
  <2> QED BY <1>9, <1>11, <2>2, <2>3
<1>12. segments[1].newest = 0 \/ \E c \in 1 .. Len(f) : f[c].group.ms = segments[1].newest
  BY <1>8 DEF Describes
<1>13. op.maxBytes = 0 \/ ~(TotalBytes(segments) > op.maxBytes)
  BY <1>4, <1>6
<1> QED BY <1>10, <1>11, <1>12, <1>13

(* When GC returns, one segment is left, or the store fits its budget and  *)
(* its oldest segment holds a group inside the window.                     *)
THEOREM GcDropsEnough == NoAppendFails => (Spec => GcReachesItsBounds)
<1> SUFFICES ASSUME NoAppendFails PROVE Spec => GcReachesItsBounds
  OBVIOUS
<1> DEFINE A == op.kind = "gc" /\ op' = Idle /\ up' =>
                  \/ Len(segments) <= 1
                  \/ /\ op.maxBytes = 0 \/ ~(TotalBytes(segments) > op.maxBytes)
                     /\ \/ op.cutoff = 0
                        \/ \E g \in GroupsIn(segments[1].path) : g.ms >= op.cutoff
<1>1. Spec => []IInv
  BY StoreInvariant
<1>2. IInv /\ [Next]_vars => A
  BY EndGcIsDone
<1>3. Spec => [][A]_vars
  BY <1>1, <1>2, PTL DEF Spec
<1> QED BY <1>3 DEF GcReachesItsBounds

-----------------------------------------------------------------------------
(* The store implements the log it promises.                               *)

(* The groups of the files d.                                              *)
Held(d) == UNION {Records(d[p]) : p \in DOMAIN d}

Confirmed == {a.group : a \in acked}

LEMMA HeldIs ==
  ASSUME NEW d, NEW h, NEW t, DiskOK(d, h, t)
  PROVE  UNION {{GroupAt(d[p], o) : o \in ScanOffsets(d[p], p.v2)} : p \in DOMAIN d} = Held(d)
<1>1. ASSUME NEW p \in DOMAIN d
      PROVE  {GroupAt(d[p], o) : o \in ScanOffsets(d[p], p.v2)} = Records(d[p])
  <2>1. Laid(d[p]) /\ InOrder(d[p], p, h, t)
    BY FileIs
  <2> QED BY <2>1, ScanIs
<1> QED BY <1>1 DEF Held

LEMMA OnDiskIs ==
  ASSUME IInv, IInv'
  PROVE  OnDisk = Held(disk) /\ OnDisk' = Held(disk')
<1>1. DiskOK(disk, hw, clock) /\ DiskOK(disk', hw', clock')
  BY DEF IInv
<1>2. OnDisk = UNION {{GroupAt(disk[p], o) : o \in ScanOffsets(disk[p], p.v2)} : p \in DOMAIN disk}
  BY DEF OnDisk, GroupsIn
<1>3. OnDisk' = UNION {{GroupAt(disk'[p], o) : o \in ScanOffsets(disk'[p], p.v2)} : p \in DOMAIN disk'}
  BY DEF OnDisk, GroupsIn
<1>4. OnDisk = Held(disk)
  BY <1>1, <1>2, HeldIs
<1>5. OnDisk' = Held(disk')
  BY <1>1, <1>3, HeldIs
<1> QED BY <1>4, <1>5

(* A group of a file agrees with the name of the file.                     *)
LEMMA HeldGroup ==
  ASSUME NEW d, NEW h, NEW t, DiskOK(d, h, t), NEW p \in DOMAIN d, NEW g \in Records(d[p])
  PROVE  /\ g \in Groups /\ g.seq \in Int /\ p.stem <= g.seq
         /\ \E i \in 1 .. Len(d[p]) : d[p][i].group = g
<1>1. Laid(d[p]) /\ InOrder(d[p], p, h, t)
  BY FileIs
<1>2. PICK i \in 1 .. Len(d[p]) : d[p][i].group = g
  BY <1>1, RecordsAre
<1>3. g \in Groups
  BY <1>1, <1>2, LaidIs
<1>4. g.seq \in Int
  BY <1>3, GroupIs
<1>5. p.stem <= g.seq
  BY <1>1, <1>2 DEF InOrder
<1> QED BY <1>2, <1>3, <1>4, <1>5

(* Files of the same names with the same records hold the same groups.     *)
LEMMA SameHeld ==
  ASSUME NEW d, NEW c, DOMAIN c = DOMAIN d, \A p \in DOMAIN d : Records(c[p]) = Records(d[p])
  PROVE  Held(c) = Held(d)
  BY DEF Held

(* A write of k cells stores the group when they are all of them.          *)
LEMMA WriteStores ==
  ASSUME IInv, op.kind = "append", NEW k \in 0 .. op.group.n + 1, NEW new, Written(k, new, disk')
  PROVE  /\ Held(disk') = Held(disk) \cup (IF k = op.group.n + 1 THEN {op.group} ELSE {})
         /\ op.group \in Groups
         /\ \A h \in Held(disk) : h.seq < op.group.seq
<1>1. /\ up /\ op.group \in Groups /\ op.group.seq = hw /\ AppendFile \in DOMAIN disk /\ Below(disk, hw)
  BY AppendingIs
<1>2. /\ Replaces(disk, AppendFile, new, disk')
      /\ Records(new) = Records(disk[AppendFile]) \cup (IF k = op.group.n + 1 THEN {op.group} ELSE {})
  BY WrittenIs
<1>3. DiskOK(disk, hw, clock)
  BY DEF IInv
<1>4. ASSUME NEW h \in Held(disk) PROVE h.seq < op.group.seq
  <2>1. PICK p \in DOMAIN disk : h \in Records(disk[p])
    BY DEF Held
  <2>2. PICK i \in 1 .. Len(disk[p]) : disk[p][i].group = h
    BY <1>3, <2>1, HeldGroup
  <2> QED BY <1>1, <2>2 DEF Below
<1> DEFINE more == IF k = op.group.n + 1 THEN {op.group} ELSE {}
           p == AppendFile
<1>5. p \in DOMAIN disk /\ Records(new) = Records(disk[p]) \cup more
  BY <1>1, <1>2
<1>6. DOMAIN disk' = DOMAIN disk /\ disk'[p] = new /\ \A q \in DOMAIN disk \ {p} : disk'[q] = disk[q]
  BY <1>2 DEF Replaces
<1> HIDE DEF more, p
<1>7. ASSUME NEW x PROVE x \in Held(disk') <=> x \in Held(disk) \/ x \in more
  <2>1. x \in Held(disk') <=> \E q \in DOMAIN disk' : x \in Records(disk'[q])
    BY DEF Held
  <2>2. x \in Held(disk) <=> \E q \in DOMAIN disk : x \in Records(disk[q])
    BY DEF Held
  <2>3. x \in Held(disk') => x \in Held(disk) \/ x \in more
    BY <1>5, <1>6, <2>1, <2>2
  <2>4. x \in Held(disk) => x \in Held(disk')
    BY <1>5, <1>6, <2>1, <2>2
  <2>5. x \in more => x \in Held(disk')
    BY <1>5, <1>6, <2>1
  <2> QED BY <2>3, <2>4, <2>5
<1>8. Held(disk') = Held(disk) \cup more
  BY <1>7
<1> QED BY <1>1, <1>4, <1>8 DEF more

(* What an abstract step does, spelled out.                                *)
IsStore(g) ==
  /\ g \in Groups /\ \A h \in OnDisk : h.seq < g.seq
  /\ OnDisk' = OnDisk \cup {g}
  /\ Confirmed' = Confirmed \/ Confirmed' = Confirmed \cup {g}

IsEvict(g) ==
  /\ g \in OnDisk
  /\ OnDisk' = {h \in OnDisk : h.seq > g.seq}
  /\ Confirmed' = {h \in Confirmed : h.seq > g.seq}

Hidden == OnDisk' = OnDisk /\ Confirmed' = Confirmed

(* A finished append stores its group and confirms it; a crash in an       *)
(* append stores it unconfirmed, or not at all.                            *)
LEMMA EndAppendStores ==
  ASSUME IInv, IInv', EndAppend
  PROVE  IsStore(op.group)
<1>1. /\ op.kind = "append"
      /\ acked' = acked \cup {[group |-> op.group, path |-> AppendFile]}
  BY EndAppendIs
<1>2. op.group.n + 1 \in 0 .. op.group.n + 1
  <2>1. op.group.n \in Nat
    BY <1>1, AppendingIs
  <2> QED BY <2>1
<1>3. /\ Held(disk') = Held(disk) \cup {op.group} /\ op.group \in Groups
      /\ \A h \in Held(disk) : h.seq < op.group.seq
  BY <1>1, <1>2, EndAppendWrites, WriteStores
<1>4. Confirmed' = Confirmed \cup {op.group}
  <2> DEFINE x == [group |-> op.group, path |-> AppendFile]
  <2>1. acked' = acked \cup {x} /\ x.group = op.group
    BY <1>1
  <2> HIDE DEF x
  <2> QED BY <2>1 DEF Confirmed
<1> QED BY <1>3, <1>4, OnDiskIs DEF IsStore

LEMMA CrashStores ==
  ASSUME IInv, IInv', Crash
  PROVE  Hidden \/ IsStore(op.group)
<1>1. Confirmed' = Confirmed
  BY CrashIs DEF Confirmed
<1>2. CASE op.kind # "append"
  <2>1. disk' = disk
    BY <1>2, CrashIs
  <2> QED BY <1>1, <2>1, OnDiskIs DEF Hidden
<1>3. CASE op.kind = "append"
  <2>1. PICK k \in 0 .. op.group.n + 1 :
          Written(k, disk[AppendFile] \o SubSeq(Encode(op.group), 1, k), disk')
    BY <1>3, CrashIs
  <2>2. /\ Held(disk') = Held(disk) \cup (IF k = op.group.n + 1 THEN {op.group} ELSE {})
        /\ op.group \in Groups
        /\ \A h \in Held(disk) : h.seq < op.group.seq
    BY <1>3, <2>1, WriteStores
  <2>3. CASE k = op.group.n + 1
    BY <1>1, <2>2, <2>3, OnDiskIs DEF IsStore
  <2>4. CASE k # op.group.n + 1
    BY <1>1, <2>2, <2>4, OnDiskIs DEF Hidden
  <2> QED BY <2>3, <2>4
<1> QED BY <1>2, <1>3

(* GC evicts the newest group of the dropped file with all before it.      *)
LEMMA DropEvicts ==
  ASSUME IInv, IInv', DropOldest
  PROVE  Hidden \/ \E g \in OnDisk : IsEvict(g)
<1> DEFINE p == segments[1].path
           f == disk[p]
<1>1. /\ up /\ Drops(disk, p, disk') /\ acked' = {a \in acked : a.path # p} /\ 1 \in 1 .. Len(segments)
  BY DropIs
<1>2. DiskOK(disk, hw, clock) /\ AllUncut(disk) /\ SegmentsOK(segments, disk, hw)
  BY <1>1, Running
<1>3. p \in DOMAIN disk
  BY <1>1, <1>2, SegIs
<1>4. Laid(f) /\ Uncut(f) /\ InOrder(f, p, hw, clock)
  BY <1>2, <1>3, FileIs DEF AllUncut
<1>5. OnDisk = Held(disk) /\ OnDisk' = Held(disk')
  BY OnDiskIs
<1>6. ASSUME NEW q \in DOMAIN disk, q # p PROVE p.stem < q.stem
  <2>1. PICK j \in 1 .. Len(segments) : segments[j].path = q
    BY <1>2 DEF SegmentsOK
  <2>2. j # 1 /\ Len(segments) \in Nat
    BY <1>2, <1>6, <2>1 DEF SegmentsOK
  <2>3. 1 < j
    BY <2>2
  <2> QED BY <1>1, <1>2, <2>1, <2>3 DEF SegmentsOK
<1>7. \A a \in acked : a.path \in DOMAIN disk /\ a.group \in Records(disk[a.path])
  BY DEF IInv, AckedOK
<1> HIDE DEF p, f
<1>8. f = disk[p]
  BY DEF f
<1>9. DOMAIN disk' = DOMAIN disk \ {p} /\ \A q \in DOMAIN disk \ {p} : disk'[q] = disk[q]
  BY <1>1 DEF Drops
<1>10. ASSUME NEW x
       PROVE  /\ x \in Held(disk) <=> \E q \in DOMAIN disk : x \in Records(disk[q])
              /\ x \in Held(disk') <=> \E q \in DOMAIN disk \ {p} : x \in Records(disk[q])
  BY <1>9 DEF Held
<1>11. CASE f = <<>>
  <2>1. Records(f) = {}
    <3>1. ASSUME NEW x \in Records(f) PROVE FALSE
      <4>1. PICK i \in 1 .. Len(f) : f[i].group = x
        BY <1>4, RecordsAre
      <4>2. Len(f) = 0
        BY <1>11
      <4> QED BY <4>1, <4>2
    <3> QED BY <3>1
  <2>2. ASSUME NEW x PROVE x \in Held(disk') <=> x \in Held(disk)
    BY <1>8, <1>10, <2>1
  <2>3. acked' = acked
    BY <1>1, <1>7, <1>8, <2>1
  <2> QED BY <1>5, <2>2, <2>3 DEF Hidden, Confirmed
<1>12. CASE f # <<>>
  <2> DEFINE n == Len(f)
             g == f[n].group
  <2>1. n \in 1 .. n /\ n \in Nat
    BY <1>4, <1>12, LaidIs
  <2>2. g \in Records(f) /\ g.seq \in Int
    <3>1. g \in Records(f)
      BY <1>4, <2>1, UncutWhole DEF Records
    <3>2. g \in Groups
      BY <1>4, <2>1, LaidIs
    <3> QED BY <3>1, <3>2, GroupIs
  <2> HIDE DEF n, g
  <2>3. ASSUME NEW x \in Records(f) PROVE ~(x.seq > g.seq)
    <3>1. PICK i \in 1 .. Len(f) : f[i].group = x
      BY <1>4, RecordsAre
    <3>2. f[i].group.seq <= f[n].group.seq
      BY <1>4, <2>1, <3>1 DEF InOrder, n
    <3>3. x.seq \in Int
      BY <1>2, <1>3, <1>8, HeldGroup
    <3> QED BY <2>2, <3>1, <3>2, <3>3 DEF g
  <2>4. ASSUME NEW q \in DOMAIN disk, q # p, NEW x \in Records(disk[q]) PROVE x.seq > g.seq
    <3>1. p.stem < q.stem
      BY <1>6, <2>4
    <3>2. g.seq < q.stem
      <4>1. \A i \in 1 .. Len(f) : f[i].group.seq < q.stem
        BY <1>2, <1>3, <1>8, <3>1 DEF DiskOK, Apart
      <4> QED BY <2>1, <4>1 DEF g, n
    <3>3. q.stem <= x.seq /\ x.seq \in Int
      BY <1>2, HeldGroup
    <3>4. q.stem \in Int
      BY <1>2, FileIs
    <3> QED BY <2>2, <3>2, <3>3, <3>4
  <2>5. Held(disk') = {h \in Held(disk) : h.seq > g.seq}
    <3>1. ASSUME NEW x PROVE x \in Held(disk') <=> x \in Held(disk) /\ x.seq > g.seq
      <4>1. ASSUME x \in Held(disk') PROVE x \in Held(disk) /\ x.seq > g.seq
        BY <1>10, <2>4, <4>1
      <4>2. ASSUME x \in Held(disk), x.seq > g.seq PROVE x \in Held(disk')
        BY <1>8, <1>10, <2>3, <4>2
      <4> QED BY <4>1, <4>2
    <3> QED BY <3>1
  <2>6. Confirmed' = {h \in Confirmed : h.seq > g.seq}
    <3>1. ASSUME NEW a \in acked PROVE a.path # p <=> a.group.seq > g.seq
      BY <1>7, <1>8, <2>3, <2>4
    <3>2. Confirmed' = {a.group : a \in {b \in acked : b.path # p}}
      BY <1>1 DEF Confirmed
    <3> QED BY <3>1, <3>2 DEF Confirmed
  <2>7. g \in OnDisk
    BY <1>3, <1>5, <1>8, <2>2 DEF Held
  <2> QED BY <1>5, <2>5, <2>6, <2>7 DEF IsEvict
<1> QED BY <1>11, <1>12

(* Every other step is hidden from the log.                                *)
LEMMA OpenHidden ==
  ASSUME IInv, IInv', Open
  PROVE  Hidden
<1>1. DiskOK(disk, hw, clock) /\ disk' = Cut(disk)
  BY DEF IInv, Open, Cut, Truncated
<1>2. /\ DiskOK(disk', hw, clock) /\ DOMAIN disk' = DOMAIN disk
      /\ \A p \in DOMAIN disk : Records(disk'[p]) = Records(disk[p])
  BY <1>1, DiskCut
<1>3. Held(disk') = Held(disk)
  BY <1>2, SameHeld
<1>4. Confirmed' = Confirmed
  BY DEF Open, ghosts, Confirmed
<1> QED BY <1>3, <1>4, OnDiskIs DEF Hidden

LEMMA BeginAppendHidden ==
  ASSUME IInv, IInv', NEW g \in Groups, BeginAppend(g)
  PROVE  Hidden
<1>1. Confirmed' = Confirmed
  BY BeginAppendIs DEF Confirmed
<1>2. CASE ~MustRotate
  <2>1. disk' = disk
    BY <1>2 DEF BeginAppend
  <2> QED BY <1>1, <2>1, OnDiskIs DEF Hidden
<1>3. CASE MustRotate
  <2>1. PICK path : /\ DOMAIN disk' = DOMAIN disk \cup {path} /\ disk'[path] = <<>>
                    /\ \A p \in DOMAIN disk : disk'[p] = disk[p]
    BY <1>3, RotateIs
  <2>2. Records(<<>>) = {}
    BY DEF Records, Whole
  <2>3. ASSUME NEW x
        PROVE  x \in Held(disk') <=> x \in Held(disk)
    <3>1. x \in Held(disk') <=> \E q \in DOMAIN disk' : x \in Records(disk'[q])
      BY DEF Held
    <3>2. x \in Held(disk) <=> \E q \in DOMAIN disk : x \in Records(disk[q])
      BY DEF Held
    <3> QED BY <2>1, <2>2, <3>1, <3>2
  <2> QED BY <1>1, <2>3, OnDiskIs DEF Hidden
<1> QED BY <1>2, <1>3

LEMMA StepImplements ==
  ASSUME NoAppendFails, IInv, IInv', [Next]_vars
  PROVE  Hidden \/ (\E g \in Groups : IsStore(g)) \/ (\E g \in OnDisk : IsEvict(g))
<1>1. CASE Open
  BY <1>1, OpenHidden
<1>2. ASSUME NEW g \in Groups, BeginAppend(g) PROVE Hidden
  BY <1>2, BeginAppendHidden
<1>3. CASE EndAppend
  BY <1>3, EndAppendStores DEF IsStore
<1>4. CASE FailAppend
  BY <1>4 DEF FailAppend, NoAppendFails
<1>5. ASSUME disk' = disk, acked' = acked PROVE Hidden
  BY <1>5, OnDiskIs DEF Hidden, Confirmed
<1>6. ASSUME NEW cutoff \in 0 .. clock + 1, NEW maxBytes \in Budgets, BeginGc(cutoff, maxBytes)
      PROVE  Hidden
  BY <1>5, <1>6 DEF BeginGc, ghosts
<1>7. CASE DropOldest
  BY <1>7, DropEvicts
<1>8. CASE EndGc
  BY <1>5, <1>8 DEF EndGc, ghosts
<1>9. ASSUME NEW r \in Readers, NEW seq \in Seqs, Locate(r, seq) PROVE Hidden
  BY <1>5, <1>9 DEF Locate, ghosts
<1>10. ASSUME NEW r \in Readers, Fetch(r) PROVE Hidden
  BY <1>5, <1>10 DEF Fetch, ghosts
<1>11. CASE Crash
  BY <1>11, CrashStores DEF IsStore
<1>12. CASE UNCHANGED vars
  BY <1>5, <1>12 DEF vars, ghosts
<1> QED BY <1>1, <1>2, <1>3, <1>4, <1>6, <1>7, <1>8, <1>9, <1>10, <1>11, <1>12 DEF Next

(* In the initial states every confirmed group is on disk.                 *)
LEMMA LogStarts ==
  ASSUME IInv
  PROVE  OnDisk \in SUBSET Groups /\ Confirmed \in SUBSET OnDisk
<1>1. DiskOK(disk, hw, clock)
  BY DEF IInv
<1>2. OnDisk = Held(disk)
  <2>1. OnDisk = UNION {{GroupAt(disk[p], o) : o \in ScanOffsets(disk[p], p.v2)} : p \in DOMAIN disk}
    BY DEF OnDisk, GroupsIn
  <2> QED BY <1>1, <2>1, HeldIs
<1>3. ASSUME NEW g \in Held(disk) PROVE g \in Groups
  <2>1. PICK p \in DOMAIN disk : g \in Records(disk[p])
    BY DEF Held
  <2> QED BY <1>1, <2>1, HeldGroup
<1>4. ASSUME NEW a \in acked PROVE a.group \in Held(disk)
  BY DEF IInv, AckedOK, Held
<1> QED BY <1>2, <1>3, <1>4 DEF Confirmed

(* The store implements the log of ReplayLog.tla: groups enter at the top, *)
(* one at a time, and leave from the bottom; no crash, no torn tail and no *)
(* scan loses or revives one.                                              *)
THEOREM StoreImplementsReplayLog == NoAppendFails => (Spec => ImplementsReplayLog)
<1> SUFFICES ASSUME NoAppendFails PROVE Spec => ImplementsReplayLog
  OBVIOUS
<1>1. Spec => []IInv
  BY StoreInvariant
<1>2. Init => Promise!LogInit
  <2> SUFFICES ASSUME Init PROVE Promise!LogInit
    OBVIOUS
  <2>1. OnDisk \in SUBSET Groups /\ Confirmed \in SUBSET OnDisk
    BY InitIInv, LogStarts
  <2> QED BY <2>1 DEF Promise!LogInit, Confirmed
<1>3. IInv /\ IInv' /\ [Next]_vars => [Promise!LogNext]_<<OnDisk, {a.group : a \in acked}>>
  <2> SUFFICES ASSUME IInv, IInv', [Next]_vars
               PROVE  [Promise!LogNext]_<<OnDisk, {a.group : a \in acked}>>
    OBVIOUS
  <2>1. CASE Hidden
    BY <2>1 DEF Hidden, Confirmed
  <2>2. ASSUME NEW g \in Groups, IsStore(g) PROVE Promise!LogNext
    <3>1. Promise!Store(g)
      BY <2>2 DEF IsStore, Confirmed, Promise!Store
    <3> QED BY <3>1 DEF Promise!LogNext
  <2>3. ASSUME NEW g \in OnDisk, IsEvict(g) PROVE Promise!LogNext
    <3>1. Promise!Evict(g)
      BY <2>3 DEF IsEvict, Confirmed, Promise!Evict, Promise!NewerThan
    <3> QED BY <3>1 DEF Promise!LogNext
  <2> QED BY <2>1, <2>2, <2>3, StepImplements
<1>4. Spec => Promise!LogSpec
  BY <1>1, <1>2, <1>3, PTL DEF Spec, Promise!LogSpec
<1> QED BY <1>4 DEF ImplementsReplayLog

-----------------------------------------------------------------------------
(* Reads while appends fail.  As long as the process lives, the torn       *)
(* records that failed appends leave behind, in the files and in the       *)
(* writer's buffer, are of groups no reader asks for: a sequence is handed *)
(* to append once.  Offsets may be misplaced; what they hit is a body, a   *)
(* header of another group or the one whole record of the group.           *)

(* Wherever a record of a sequence in W begins in the file, it is whole.   *)
WholeOf(file, W) ==
  \A i \in 1 .. Len(file) :
    file[i].at = 1 /\ file[i].group.seq \in W =>
      \A j \in 1 .. file[i].group.n + 1 :
        /\ i - 1 + j <= Len(file)
        /\ file[i - 1 + j] = [group |-> file[i].group, at |-> j]

(* Cells of no sequence above h, whose records of W are whole.             *)
FileSound(file, W, h) ==
  /\ file \in Seq(Cell)
  /\ \A i \in 1 .. Len(file) : file[i].group.seq <= h
  /\ WholeOf(file, W)

(* Cells of no sequence above h and of none in W.                          *)
Stray(cells, W, h) ==
  /\ cells \in Seq(Cell)
  /\ \A i \in 1 .. Len(cells) : cells[i].group.seq <= h /\ cells[i].group.seq \notin W

(* The sequences a reader finds in the index or is on its way to read.     *)
Wanted == DOMAIN index \cup {located[r].seq : r \in {x \in Readers : located[x] # None}}

(* No cell of a sequence above this one has been handed to the writer.     *)
Reached == IF op.kind = "append" THEN hw - 1 ELSE hw

(* The invariant of the running process, whatever appends fail.            *)
SoundInv ==
  /\ hw \in Int
  /\ Wanted \subseteq Int /\ \A s \in Wanted : s <= Reached
  /\ \A p \in DOMAIN disk : FileSound(disk[p], Wanted, Reached)
  /\ Stray(pending, Wanted, Reached)
  /\ segments \in Seq(Segment)
  /\ \A s \in DOMAIN index : index[s] \in [segment : Int, offset : Nat, ms : Nat]
  /\ op.kind = "append" => op.group \in Groups /\ op.group.seq = hw /\ segments # <<>>
  /\ LocatedOK

(* The bounds and sets of an earlier state serve in a later one in which   *)
(* no older sequence is wanted.                                            *)
LEMMA SoundLater ==
  ASSUME NEW file, NEW W, NEW h \in Int, FileSound(file, W, h),
         NEW V, NEW k \in Int, h <= k, \A s \in V : s \in W \/ h < s
  PROVE  FileSound(file, V, k)
<1>1. file \in Seq(Cell) /\ Len(file) \in Nat
  BY DEF FileSound
<1>2. ASSUME NEW i \in 1 .. Len(file)
      PROVE  /\ file[i].group.seq \in Int /\ file[i].group.seq <= h
             /\ file[i].group.seq <= k
             /\ file[i].group.seq \in V => file[i].group.seq \in W
  <2>1. file[i] \in Cell
    BY <1>1
  <2>2. file[i].group.seq \in Int
    BY <2>1, CellIs, GroupIs
  <2>3. file[i].group.seq <= h
    BY DEF FileSound
  <2> QED BY <2>2, <2>3
<1>3. WholeOf(file, V)
  BY <1>2 DEF FileSound, WholeOf
<1> QED BY <1>1, <1>2, <1>3 DEF FileSound

LEMMA StrayLater ==
  ASSUME NEW cells, NEW W, NEW h \in Int, Stray(cells, W, h),
         NEW V, NEW k \in Int, h <= k, \A s \in V : s \in W \/ h < s
  PROVE  Stray(cells, V, k)
<1>1. cells \in Seq(Cell) /\ Len(cells) \in Nat
  BY DEF Stray
<1>2. ASSUME NEW i \in 1 .. Len(cells)
      PROVE  cells[i].group.seq <= k /\ cells[i].group.seq \notin V
  <2>1. cells[i] \in Cell
    BY <1>1
  <2>2. cells[i].group.seq \in Int
    BY <2>1, CellIs, GroupIs
  <2>3. cells[i].group.seq <= h /\ cells[i].group.seq \notin W
    BY DEF Stray
  <2> QED BY <2>2, <2>3
<1> QED BY <1>1, <1>2 DEF Stray

(* Cells no reader asks for can do no harm in a file.                      *)
LEMMA StraySound ==
  ASSUME NEW cells, NEW W, NEW h, Stray(cells, W, h)
  PROVE  FileSound(cells, W, h)
  BY DEF Stray, FileSound, WholeOf

LEMMA EmptyStray ==
  ASSUME NEW W, NEW h
  PROVE  Stray(<<>>, W, h)
  BY DEF Stray

(* The record of a group.                                                  *)
LEMMA EncodedSound ==
  ASSUME NEW g \in Groups, NEW W, NEW h \in Int, g.seq <= h
  PROVE  /\ FileSound(Encode(g), W, h)
         /\ g.seq \notin W => Stray(Encode(g), W, h)
<1> DEFINE n == g.n
           c == Encode(g)
<1>1. n \in Nat /\ c \in Seq(Cell) /\ Len(c) = n + 1
  BY GroupIs, EncodeIs
<1>2. \A j \in 1 .. n + 1 : c[j] = [group |-> g, at |-> j]
  BY EncodeIs
<1> HIDE DEF c
<1>3. ASSUME NEW j \in 1 .. n + 1 PROVE c[j].group = g /\ c[j].at = j
  <2>1. c[j] = [group |-> g, at |-> j]
    BY <1>2
  <2> QED BY <2>1
<1>4. ASSUME NEW i \in 1 .. Len(c), c[i].at = 1, NEW j \in 1 .. c[i].group.n + 1
      PROVE  i - 1 + j <= Len(c) /\ c[i - 1 + j] = [group |-> c[i].group, at |-> j]
  <2>1. i = 1 /\ c[i].group = g
    BY <1>1, <1>3, <1>4
  <2>2. i - 1 + j = j /\ j \in 1 .. n + 1
    BY <1>1, <2>1
  <2> QED BY <1>1, <1>2, <2>1, <2>2
<1>5. WholeOf(c, W)
  BY <1>4 DEF WholeOf
<1>6. \A i \in 1 .. Len(c) : c[i].group.seq = g.seq
  BY <1>1, <1>3
<1> QED BY <1>1, <1>5, <1>6 DEF FileSound, Stray, c

(* One after the other.                                                    *)
LEMMA JoinSound ==
  ASSUME NEW a, NEW b, NEW W, NEW h, FileSound(a, W, h), FileSound(b, W, h)
  PROVE  FileSound(a \o b, W, h)
<1> DEFINE c == a \o b
           m == Len(a)
           n == Len(b)
<1>1. a \in Seq(Cell) /\ b \in Seq(Cell) /\ m \in Nat /\ n \in Nat
  BY DEF FileSound
<1>2. /\ c \in Seq(Cell) /\ Len(c) = m + n
      /\ \A i \in 1 .. m + n : c[i] = IF i <= m THEN a[i] ELSE b[i - m]
  BY <1>1, ConcatProperties
<1> HIDE DEF c
<1>3. ASSUME NEW i \in 1 .. Len(c), i <= m
      PROVE  /\ c[i].group.seq <= h
             /\ c[i].at = 1 /\ c[i].group.seq \in W =>
                  \A j \in 1 .. c[i].group.n + 1 :
                    i - 1 + j <= Len(c) /\ c[i - 1 + j] = [group |-> c[i].group, at |-> j]
  <2>1. i \in 1 .. m /\ c[i] = a[i]
    BY <1>1, <1>2, <1>3
  <2>2. a[i].group.seq <= h /\ a[i].group.n \in Nat
    <3>1. a[i] \in Cell
      BY <1>1, <2>1
    <3> QED BY <2>1, <3>1, CellIs, GroupIs DEF FileSound
  <2>3. ASSUME a[i].at = 1, a[i].group.seq \in W, NEW j \in 1 .. a[i].group.n + 1
        PROVE  i - 1 + j <= Len(c) /\ c[i - 1 + j] = [group |-> a[i].group, at |-> j]
    <3>1. i - 1 + j <= m /\ a[i - 1 + j] = [group |-> a[i].group, at |-> j]
      BY <2>1, <2>3 DEF FileSound, WholeOf
    <3>2. i - 1 + j \in 1 .. m + n
      BY <1>1, <2>1, <2>2, <2>3, <3>1
    <3>3. c[i - 1 + j] = a[i - 1 + j]
      BY <1>2, <3>1, <3>2
    <3> QED BY <1>1, <1>2, <3>1, <3>2, <3>3
  <2> QED BY <2>1, <2>2, <2>3
<1>4. ASSUME NEW i \in 1 .. Len(c), m < i
      PROVE  /\ c[i].group.seq <= h
             /\ c[i].at = 1 /\ c[i].group.seq \in W =>
                  \A j \in 1 .. c[i].group.n + 1 :
                    i - 1 + j <= Len(c) /\ c[i - 1 + j] = [group |-> c[i].group, at |-> j]
  <2> DEFINE x == i - m
  <2>1. x \in 1 .. n /\ i = m + x /\ c[i] = b[x]
    BY <1>1, <1>2, <1>4
  <2> HIDE DEF x
  <2>2. b[x].group.seq <= h /\ b[x].group.n \in Nat
    <3>1. b[x] \in Cell
      BY <1>1, <2>1
    <3> QED BY <2>1, <3>1, CellIs, GroupIs DEF FileSound
  <2>3. ASSUME b[x].at = 1, b[x].group.seq \in W, NEW j \in 1 .. b[x].group.n + 1
        PROVE  i - 1 + j <= Len(c) /\ c[i - 1 + j] = [group |-> b[x].group, at |-> j]
    <3>1. x - 1 + j <= n /\ b[x - 1 + j] = [group |-> b[x].group, at |-> j]
      BY <2>1, <2>3 DEF FileSound, WholeOf
    <3>2. j \in Nat \ {0} /\ m \in Nat /\ n \in Nat /\ x \in Nat \ {0} /\ i = m + x
      BY <1>1, <2>1, <2>2
    <3>3. i - 1 + j \in 1 .. m + n /\ ~(i - 1 + j <= m) /\ (i - 1 + j) - m = x - 1 + j
      <4> HIDE DEF m, n
      <4> QED BY <3>1, <3>2
    <3>4. c[i - 1 + j] = b[x - 1 + j]
      BY <1>2, <3>3
    <3> QED BY <1>2, <3>1, <3>3, <3>4
  <2> QED BY <2>1, <2>2, <2>3
<1>5. \A i \in 1 .. Len(c) : i <= m \/ m < i
  BY <1>1, <1>2
<1>6. WholeOf(c, W) /\ \A i \in 1 .. Len(c) : c[i].group.seq <= h
  BY <1>3, <1>4, <1>5 DEF WholeOf
<1> QED BY <1>2, <1>6 DEF FileSound, c

LEMMA JoinStray ==
  ASSUME NEW a, NEW b, NEW W, NEW h, Stray(a, W, h), Stray(b, W, h)
  PROVE  Stray(a \o b, W, h)
<1> DEFINE c == a \o b
           m == Len(a)
           n == Len(b)
<1>1. a \in Seq(Cell) /\ b \in Seq(Cell) /\ m \in Nat /\ n \in Nat
  BY DEF Stray
<1>2. /\ c \in Seq(Cell) /\ Len(c) = m + n
      /\ \A i \in 1 .. m + n : c[i] = IF i <= m THEN a[i] ELSE b[i - m]
  BY <1>1, ConcatProperties
<1> HIDE DEF c
<1>3. ASSUME NEW i \in 1 .. m + n
      PROVE  c[i].group.seq <= h /\ c[i].group.seq \notin W
  <2>1. CASE i <= m
    BY <1>1, <1>2, <2>1 DEF Stray
  <2>2. CASE ~(i <= m)
    <3>1. i - m \in 1 .. n /\ c[i] = b[i - m]
      BY <1>1, <1>2, <2>2
    <3> QED BY <3>1 DEF Stray
  <2> QED BY <2>1, <2>2
<1> QED BY <1>2, <1>3 DEF Stray, c

(* Any piece of them.                                                      *)
LEMMA PartStray ==
  ASSUME NEW cells, NEW W, NEW h, Stray(cells, W, h),
         NEW m \in Nat \ {0}, NEW n \in 0 .. Len(cells)
  PROVE  Stray(SubSeq(cells, m, n), W, h)
<1>1. cells \in Seq(Cell) /\ Len(cells) \in Nat /\ m \in Int /\ n \in Int
  BY DEF Stray
<1>2. \A i \in m .. n : i \in 1 .. Len(cells) /\ cells[i] \in Cell
  BY <1>1
<1> DEFINE c == SubSeq(cells, m, n)
<1>3. /\ c \in Seq(Cell)
      /\ Len(c) = IF m <= n THEN n - m + 1 ELSE 0
      /\ \A i \in 1 .. n - m + 1 : c[i] = cells[m + i - 1]
  BY <1>1, <1>2, SubSeqProperties
<1> HIDE DEF c
<1>4. ASSUME NEW i \in 1 .. Len(c)
      PROVE  c[i].group.seq <= h /\ c[i].group.seq \notin W
  <2>1. m <= n /\ i \in 1 .. n - m + 1 /\ m + i - 1 \in m .. n
    BY <1>1, <1>3
  <2>2. c[i] = cells[m + i - 1] /\ m + i - 1 \in 1 .. Len(cells)
    BY <1>2, <1>3, <2>1
  <2> QED BY <2>2 DEF Stray
<1> QED BY <1>3, <1>4 DEF Stray, c

(* A read that meets the header of a wanted group finds it whole.          *)
LEMMA WantedRead ==
  ASSUME NEW loc, NEW seq, NEW W, seq \in W, NEW h,
         \A p \in DOMAIN disk : FileSound(disk[p], W, h), loc.offset \in Nat
  PROVE  LET got == ReadGroupAt(loc, seq) IN
         got = None \/ (got \in Groups /\ got.seq = seq)
<1> DEFINE file == disk[loc.path]
           o == loc.offset
           g == GroupAt(file, o)
<1> SUFFICES ASSUME loc.path \in DOMAIN disk, HeaderAt(file, loc.v2, o), g.seq = seq
             PROVE  ReadGroupAt(loc, seq) = None \/
                      (ReadGroupAt(loc, seq) \in Groups /\ ReadGroupAt(loc, seq).seq = seq)
  BY DEF ReadGroupAt
<1>1. FileSound(file, W, h)
  OBVIOUS
<1>2. file \in Seq(Cell) /\ Len(file) \in Nat /\ WholeOf(file, W)
  BY <1>1 DEF FileSound
<1>3. o + 1 \in 1 .. Len(file) /\ file[o + 1].at = 1
  <2>1. o < Len(file) /\ file[o + 1].at = 1
    BY DEF HeaderAt
  <2> HIDE DEF file, o
  <2>2. o \in Nat
    BY DEF o
  <2> QED BY <1>2, <2>1, <2>2
<1>4. g = file[o + 1].group /\ g \in Groups
  <2>1. g = file[o + 1].group
    BY DEF GroupAt
  <2>2. file[o + 1] \in Cell
    BY <1>2, <1>3
  <2> QED BY <2>1, <2>2, CellIs
<1>5. \A j \in 1 .. g.n + 1 : o + j <= Len(file) /\ file[o + j] = [group |-> g, at |-> j]
  <2>1. \A j \in 1 .. g.n + 1 :
          (o + 1) - 1 + j <= Len(file) /\ file[(o + 1) - 1 + j] = [group |-> g, at |-> j]
    BY <1>2, <1>3, <1>4 DEF WholeOf
  <2>2. o \in Nat /\ g.n \in Nat
    BY <1>4, GroupIs
  <2> HIDE DEF file, o, g
  <2>3. \A j \in 1 .. g.n + 1 : (o + 1) - 1 + j = o + j
    BY <2>2
  <2> QED BY <2>1, <2>3
<1>6. SubSeq(file, o + 1, RecordEnd(file, o)) = Encode(g)
  BY <1>2, <1>4, <1>5, ReadCells DEF RecordEnd
<1> QED BY <1>4, <1>6 DEF ReadGroupAt

LEMMA SoundReads ==
  ASSUME SoundInv
  PROVE  ReadsAreSound
<1>1. ASSUME NEW loc, NEW seq \in Wanted, loc.offset \in Nat
      PROVE  ReadGroupAt(loc, seq) = None \/
               (ReadGroupAt(loc, seq) \in Groups /\ ReadGroupAt(loc, seq).seq = seq)
  BY <1>1, WantedRead DEF SoundInv
<1>2. ASSUME NEW s \in DOMAIN index PROVE s \in Wanted /\ LocationOf(s).offset \in Nat
  <2>1. index[s].offset \in Nat
    BY DEF SoundInv
  <2> QED BY <2>1 DEF LocationOf, Wanted
<1>3. ASSUME NEW r \in Readers, located[r] # None
      PROVE  located[r].seq \in Wanted /\ located[r].loc.offset \in Nat
  BY <1>3 DEF SoundInv, LocatedOK, Wanted
<1> QED BY <1>1, <1>2, <1>3 DEF ReadsAreSound

-----------------------------------------------------------------------------
(* Opening the store.                                                      *)

(* A file of whole records is sound for any readers.                       *)
LEMMA UncutSound ==
  ASSUME NEW file, NEW p, NEW h, NEW t, Laid(file), Uncut(file), InOrder(file, p, h, t), NEW W
  PROVE  FileSound(file, W, h)
<1>1. file \in Seq(Cell) /\ Len(file) \in Nat
  BY LaidIs
<1>2. ASSUME NEW i \in 1 .. Len(file), file[i].at = 1, NEW j \in 1 .. file[i].group.n + 1
      PROVE  i - 1 + j <= Len(file) /\ file[i - 1 + j] = [group |-> file[i].group, at |-> j]
  <2> DEFINE o == i - file[i].at
             n == file[i].group.n
  <2>1. o = i - 1 /\ n \in Nat /\ i \in Int
    BY <1>1, <1>2, LaidIs
  <2>2. o \in Whole(file) /\ GroupAt(file, o) = file[i].group
    BY UncutWhole
  <2>3. RecordEnd(file, o) = o + n + 1
    BY HeadOf
  <2> HIDE DEF o, n
  <2>4. RecordEnd(file, o) <= Len(file)
    BY <2>2, WholeIs
  <2>5. j \in 1 .. n + 1
    BY DEF n
  <2>6. i - 1 + j <= Len(file)
    BY <1>1, <2>1, <2>3, <2>4, <2>5
  <2>7. file[i - 1 + j] = [group |-> file[i].group, at |-> j]
    BY <1>2, <2>6 DEF Laid
  <2> QED BY <2>6, <2>7
<1>3. \A i \in 1 .. Len(file) : file[i].group.seq <= h
  BY DEF InOrder
<1> QED BY <1>1, <1>2, <1>3 DEF FileSound, WholeOf

(* The scan indexes only sequences it finds on disk.                       *)
LEMMA IndexedOnDisk ==
  ASSUME NEW h, NEW t, DiskOK(disk, h, t), NEW s \in DOMAIN ScanIndex(ByStem)
  PROVE  /\ \E p \in DOMAIN disk : \E o \in Whole(disk[p]) : GroupAt(disk[p], o).seq = s
         /\ s \in Int /\ s <= h
<1> DEFINE q == ByStem
           n == Cardinality(DOMAIN disk)
<1>1. q \in [1 .. n -> DOMAIN disk]
  BY ByStemIs
<1>2. PICK e \in Places(q) : At(q, e).seq = s
  BY ScanIndexIs
<1>3. e.segment \in 1 .. n /\ e.offset \in Whole(disk[q[e.segment]])
  BY <1>2, PlacesAre
<1> HIDE DEF q, n
<1> DEFINE p == q[e.segment]
           o == e.offset
<1>4. p \in DOMAIN disk /\ o \in Whole(disk[p]) /\ GroupAt(disk[p], o).seq = s
  BY <1>1, <1>2, <1>3 DEF At
<1> HIDE DEF p, o
<1>5. Laid(disk[p]) /\ InOrder(disk[p], p, h, t)
  BY <1>4, FileIs
<1>6. o + 1 \in 1 .. Len(disk[p]) /\ GroupAt(disk[p], o) = disk[p][o + 1].group
      /\ GroupAt(disk[p], o) \in Groups
  BY <1>4, <1>5, WholeIs
<1>7. disk[p][o + 1].group.seq <= h
  BY <1>5, <1>6 DEF InOrder
<1>8. s \in Int
  BY <1>4, <1>6, GroupIs
<1> QED BY <1>4, <1>6, <1>7, <1>8

LEMMA OpenSound ==
  ASSUME IInv, IInv', Open, \A r \in Readers : located[r] = None
  PROVE  SoundInv'
<1>1. /\ DiskOK(disk, hw, clock) /\ StoppedOK /\ index' = ScanIndex(ByStem) /\ op' = op
      /\ pending' = pending /\ hw' = hw /\ located' = located /\ up'
  BY DEF IInv, Open, ghosts
<1>2. /\ DiskOK(disk, hw, clock)' /\ AllUncut(disk)' /\ SegmentsOK(segments, disk, hw)'
      /\ IndexOK(index, maxSeq, segments, disk)' /\ LocatedOK'
  BY <1>1 DEF IInv, RunningOK
<1>3. op' = Idle /\ pending' = <<>> /\ Reached' = hw /\ hw \in Int
  BY <1>1 DEF StoppedOK, Reached, Idle, DiskOK
<1>4. Wanted' = DOMAIN index'
  BY <1>1 DEF Wanted
<1>5. ASSUME NEW s \in Wanted' PROVE s \in Int /\ s <= hw
  BY <1>1, <1>4, IndexedOnDisk
<1>6. ASSUME NEW p \in DOMAIN disk' PROVE FileSound(disk'[p], Wanted', hw)
  <2>1. Laid(disk'[p]) /\ InOrder(disk'[p], p, hw', clock')
    BY <1>2, FileIs
  <2>2. Uncut(disk'[p])
    BY <1>2 DEF AllUncut
  <2> QED BY <1>1, <2>1, <2>2, UncutSound
<1>7. Stray(pending', Wanted', hw)
  BY <1>3, EmptyStray
<1>8. segments' \in Seq(Segment)
  BY <1>2 DEF SegmentsOK
<1>9. ASSUME NEW s \in DOMAIN index' PROVE index'[s] \in [segment : Int, offset : Nat, ms : Nat]
  <2>1. index'[s] \in [segment : 1 .. Len(segments'), offset : Nat, ms : Nat]
    BY <1>2 DEF IndexOK
  <2>2. 1 .. Len(segments') \subseteq Int
    OBVIOUS
  <2> QED BY <2>1, <2>2
<1>10. op'.kind # "append"
  BY <1>3 DEF Idle
<1> QED BY <1>1, <1>2, <1>3, <1>5, <1>6, <1>7, <1>8, <1>9, <1>10 DEF SoundInv

-----------------------------------------------------------------------------
(* Every step of the running process preserves its invariant.              *)

(* One file takes more cells.                                              *)
GrowsBy(d, path, extra, c) == c = [d EXCEPT ![path] = @ \o extra]

LEMMA FilesGrow ==
  ASSUME NEW d, NEW W, NEW h, \A p \in DOMAIN d : FileSound(d[p], W, h),
         NEW path, NEW extra, FileSound(extra, W, h), NEW c, GrowsBy(d, path, extra, c)
  PROVE  DOMAIN c = DOMAIN d /\ \A p \in DOMAIN c : FileSound(c[p], W, h)
<1>1. DOMAIN c = DOMAIN d
  BY DEF GrowsBy
<1>2. ASSUME NEW p \in DOMAIN d PROVE FileSound(c[p], W, h)
  <2>1. CASE p = path
    <3>1. c[p] = d[p] \o extra
      BY <2>1 DEF GrowsBy
    <3> QED BY <3>1, JoinSound
  <2>2. CASE p # path
    <3>1. c[p] = d[p]
      BY <2>2 DEF GrowsBy
    <3> QED BY <3>1
  <2> QED BY <2>1, <2>2
<1> QED BY <1>1, <1>2

(* The files and the buffer of an earlier state serve in a later one.      *)
LEMMA FilesLater ==
  ASSUME SoundInv, NEW V, NEW k \in Int, Reached <= k,
         \A s \in V : s \in Wanted \/ Reached < s
  PROVE  /\ \A p \in DOMAIN disk : FileSound(disk[p], V, k)
         /\ Stray(pending, V, k)
<1>1. Reached \in Int
  BY DEF SoundInv, Reached
<1> QED BY <1>1, SoundLater, StrayLater DEF SoundInv

LEMMA BeginAppendSound ==
  ASSUME SoundInv, NEW g \in Groups, BeginAppend(g)
  PROVE  SoundInv'
<1>1. /\ op = Idle /\ op' = [kind |-> "append", group |-> g] /\ hw' = g.seq /\ g.seq > hw
      /\ index' = index /\ located' = located
  BY DEF BeginAppend
<1>2. /\ op.kind # "append" /\ op'.kind = "append" /\ op'.group = g
      /\ hw \in Int /\ g.seq \in Int /\ g.seq \in Seqs
  BY <1>1, GroupIs DEF Idle, SoundInv, Groups
<1>3. Reached = hw /\ Reached' = g.seq - 1 /\ Wanted' = Wanted
  BY <1>1, <1>2 DEF Reached, Wanted
<1>4. ASSUME NEW s \in Wanted' PROVE s \in Int /\ s <= Reached'
  <2>1. s \in Int /\ s <= hw
    BY <1>3 DEF SoundInv
  <2> QED BY <1>1, <1>2, <1>3, <2>1
<1>5. /\ \A p \in DOMAIN disk : FileSound(disk[p], Wanted', Reached')
      /\ Stray(pending, Wanted', Reached')
  <2>1. Reached' \in Int /\ Reached <= Reached'
    BY <1>1, <1>2, <1>3
  <2> QED BY <1>3, <2>1, FilesLater
<1>6. /\ \A p \in DOMAIN disk' : FileSound(disk'[p], Wanted', Reached')
      /\ Stray(pending', Wanted', Reached')
      /\ segments' \in Seq(Segment) /\ segments' # <<>>
  <2>1. CASE MustRotate
    <3> DEFINE path == [stem |-> g.seq, v2 |-> TRUE]
               flushed == IF segments = <<>> THEN disk
                          ELSE [disk EXCEPT ![Last(segments).path] = @ \o pending]
               new == [path |-> path, v2 |-> TRUE, first |-> g.seq, newest |-> 0, bytes |-> 0]
    <3>1. /\ disk' = Put(flushed, path, <<>>) /\ segments' = Append(segments, new)
          /\ pending' = <<>>
      BY <2>1 DEF BeginAppend
    <3>2. \A p \in DOMAIN flushed : FileSound(flushed[p], Wanted', Reached')
      <4>1. CASE segments = <<>>
        BY <1>5, <4>1
      <4>2. CASE segments # <<>>
        <5>1. GrowsBy(disk, Last(segments).path, pending, flushed)
          BY <4>2 DEF GrowsBy
        <5>2. FileSound(pending, Wanted', Reached')
          BY <1>5, StraySound
        <5> HIDE DEF flushed
        <5> QED BY <1>5, <5>1, <5>2, FilesGrow
      <4> QED BY <4>1, <4>2
    <3>3. FileSound(<<>>, Wanted', Reached') /\ Stray(<<>>, Wanted', Reached')
      BY EmptyStray, StraySound
    <3>4. new \in Segment /\ segments \in Seq(Segment)
      BY <1>2 DEF Segment, Paths, SoundInv
    <3> HIDE DEF flushed, path, new
    <3>5. \A p \in DOMAIN disk' : FileSound(disk'[p], Wanted', Reached')
      BY <3>1, <3>2, <3>3 DEF Put
    <3> QED BY <3>1, <3>3, <3>4, <3>5, AppendProperties
  <2>2. CASE ~MustRotate
    <3>1. disk' = disk /\ segments' = segments /\ pending' = pending /\ segments # <<>>
      BY <2>2 DEF BeginAppend, MustRotate
    <3> QED BY <1>5, <3>1 DEF SoundInv
  <2> QED BY <2>1, <2>2
<1>7. LocatedOK'
  BY <1>1 DEF SoundInv, LocatedOK
<1>8. \A s \in DOMAIN index' : index'[s] \in [segment : Int, offset : Nat, ms : Nat]
  BY <1>1 DEF SoundInv
<1> QED BY <1>1, <1>2, <1>4, <1>6, <1>7, <1>8 DEF SoundInv

LEMMA EndAppendSound ==
  ASSUME SoundInv, EndAppend
  PROVE  SoundInv'
<1> DEFINE g == op.group
           i == Len(segments)
           path == segments[i].path
           cells == pending \o Encode(g)
<1>1. /\ op.kind = "append" /\ op' = Idle /\ pending' = <<>> /\ hw' = hw /\ located' = located
      /\ g \in Groups /\ g.seq = hw /\ segments # <<>> /\ segments \in Seq(Segment) /\ hw \in Int
  BY DEF EndAppend, SoundInv
<1>2. op'.kind # "append" /\ Reached = hw - 1 /\ Reached' = hw
  BY <1>1 DEF Reached, Idle
<1>3. /\ disk' = [disk EXCEPT ![path] = @ \o pending \o Encode(g)]
      /\ segments' = [segments EXCEPT ![i].bytes = @ + RecordBytes(g), ![i].newest = g.ms]
      /\ index' = Put(index, g.seq, [segment |-> i, offset |-> segments[i].bytes, ms |-> g.ms])
  BY DEF EndAppend
<1>4. i \in 1 .. Len(segments) /\ i \in Nat /\ segments[i] \in Segment
  <2>1. i \in Nat /\ i # 0
    BY <1>1, EmptySeq
  <2> QED BY <1>1, <2>1
<1>5. g.ms \in Nat /\ RecordBytes(g) \in Nat /\ segments[i].bytes \in Nat
  <2>1. segments[i].bytes \in Nat
    BY <1>4 DEF Segment
  <2>2. Len(Encode(g)) = g.n + 1 /\ g.n \in Nat /\ g.ms \in Nat
    BY <1>1, EncodeIs, GroupIs
  <2> QED BY <2>1, <2>2 DEF RecordBytes
<1> HIDE DEF g, i
<1>6. Wanted' = Wanted \cup {hw}
  BY <1>1, <1>3 DEF Wanted, Put
<1>7. \A s \in Wanted' : s \in Int /\ s <= Reached'
  BY <1>1, <1>2, <1>6 DEF SoundInv
<1>8. /\ \A p \in DOMAIN disk : FileSound(disk[p], Wanted', hw)
      /\ Stray(pending, Wanted', hw)
  <2>1. Reached <= hw /\ Reached < hw
    BY <1>1, <1>2
  <2>2. \A s \in Wanted' : s \in Wanted \/ Reached < s
    BY <1>6, <2>1
  <2> QED BY <1>1, <2>1, <2>2, FilesLater
<1>9. \A p \in DOMAIN disk' : FileSound(disk'[p], Wanted', Reached')
  <2>1. FileSound(Encode(g), Wanted', hw) /\ FileSound(pending, Wanted', hw)
    BY <1>1, <1>8, EncodedSound, StraySound
  <2>2. FileSound(cells, Wanted', hw)
    BY <2>1, JoinSound
  <2>3. GrowsBy(disk, path, cells, disk')
    <3>1. ASSUME NEW p \in DOMAIN disk PROVE (disk[p] \o pending) \o Encode(g) = disk[p] \o cells
      <4>1. disk[p] \in Seq(Cell) /\ pending \in Seq(Cell) /\ Encode(g) \in Seq(Cell)
        BY <1>8, <2>1 DEF FileSound
      <4> QED BY <4>1, ConcatAssociative
    <3> HIDE DEF cells, path
    <3> QED BY <1>3, <3>1 DEF GrowsBy
  <2> HIDE DEF cells, path
  <2> QED BY <1>2, <1>8, <2>2, <2>3, FilesGrow
<1>10. Stray(pending', Wanted', Reached')
  BY <1>1, EmptyStray
<1>11. segments' \in Seq(Segment)
  <2>1. [segments[i] EXCEPT !.bytes = @ + RecordBytes(g), !.newest = g.ms] \in Segment
    <3>1. ASSUME NEW x \in Segment, NEW b \in Nat, NEW m \in Nat
          PROVE  [x EXCEPT !.bytes = b, !.newest = m] \in Segment
      BY DEF Segment
    <3>2. segments[i].bytes + RecordBytes(g) \in Nat
      BY <1>5
    <3> QED BY <1>4, <1>5, <3>1, <3>2
  <2>2. segments' = [segments EXCEPT ![i] =
                       [segments[i] EXCEPT !.bytes = @ + RecordBytes(g), !.newest = g.ms]]
    BY <1>3
  <2> QED BY <1>1, <1>4, <2>1, <2>2
<1>12. ASSUME NEW s \in DOMAIN index' PROVE index'[s] \in [segment : Int, offset : Nat, ms : Nat]
  <2>1. CASE s = g.seq
    <3>1. index'[s] = [segment |-> i, offset |-> segments[i].bytes, ms |-> g.ms]
      BY <1>3, <2>1 DEF Put
    <3> QED BY <1>4, <1>5, <3>1
  <2>2. CASE s # g.seq
    <3>1. s \in DOMAIN index /\ index'[s] = index[s]
      BY <1>3, <2>2 DEF Put
    <3> QED BY <3>1 DEF SoundInv
  <2> QED BY <2>1, <2>2
<1>13. LocatedOK'
  BY <1>1 DEF SoundInv, LocatedOK
<1> QED BY <1>1, <1>2, <1>7, <1>9, <1>10, <1>11, <1>12, <1>13 DEF SoundInv

(* What reached the file and what stays in the buffer belong to groups no  *)
(* reader asks for.                                                        *)
LEMMA FailAppendSound ==
  ASSUME SoundInv, FailAppend
  PROVE  SoundInv'
<1> DEFINE g == op.group
           cells == pending \o Encode(g)
           path == Last(segments).path
<1>1. /\ op.kind = "append" /\ op' = Idle /\ hw' = hw /\ located' = located
      /\ segments' = segments /\ index' = index
      /\ g \in Groups /\ g.seq = hw /\ hw \in Int
  BY DEF FailAppend, SoundInv, ghosts
<1>2. op'.kind # "append" /\ Reached = hw - 1 /\ Reached' = hw /\ Wanted' = Wanted
  BY <1>1 DEF Reached, Wanted, Idle
<1>3. PICK k \in 0 .. Len(cells) - 1 :
        /\ disk' = [disk EXCEPT ![path] = @ \o SubSeq(cells, 1, k)]
        /\ pending' \in {<<>>, SubSeq(cells, k + 1, Len(cells))}
  BY DEF FailAppend
<1> HIDE DEF g
<1>4. ASSUME NEW s \in Wanted' PROVE s \in Int /\ s < hw
  <2>1. s \in Int /\ s <= hw - 1
    BY <1>2 DEF SoundInv
  <2> QED BY <1>1, <2>1
<1>5. /\ \A p \in DOMAIN disk : FileSound(disk[p], Wanted', hw)
      /\ Stray(pending, Wanted', hw)
  <2>1. Reached <= hw
    BY <1>1, <1>2
  <2> QED BY <1>1, <1>2, <2>1, FilesLater
<1>6. Stray(cells, Wanted', hw) /\ Len(cells) \in Nat
  <2>1. Stray(Encode(g), Wanted', hw)
    BY <1>1, <1>4, EncodedSound
  <2>2. Stray(cells, Wanted', hw)
    BY <1>5, <2>1, JoinStray
  <2> QED BY <2>2 DEF Stray
<1> HIDE DEF cells, path
<1>7. \A p \in DOMAIN disk' : FileSound(disk'[p], Wanted', Reached')
  <2>1. 1 \in Nat \ {0} /\ k \in 0 .. Len(cells)
    BY <1>6
  <2>2. FileSound(SubSeq(cells, 1, k), Wanted', hw)
    BY <1>6, <2>1, PartStray, StraySound
  <2>3. GrowsBy(disk, path, SubSeq(cells, 1, k), disk')
    BY <1>3 DEF GrowsBy
  <2> QED BY <1>2, <1>5, <2>2, <2>3, FilesGrow
<1>8. Stray(pending', Wanted', Reached')
  <2>1. k + 1 \in Nat \ {0} /\ Len(cells) \in 0 .. Len(cells)
    BY <1>6
  <2> QED BY <1>2, <1>3, <1>6, <2>1, PartStray, EmptyStray
<1>9. LocatedOK'
  BY <1>1 DEF SoundInv, LocatedOK
<1>10. \A s \in Wanted' : s \in Int /\ s <= Reached'
  BY <1>1, <1>2, <1>4
<1>11. segments' \in Seq(Segment) /\ \A s \in DOMAIN index' : index'[s] \in [segment : Int, offset : Nat, ms : Nat]
  BY <1>1 DEF SoundInv
<1> QED BY <1>1, <1>2, <1>7, <1>8, <1>9, <1>10, <1>11 DEF SoundInv

(* A step that leaves the writer alone and wants no more of the files.     *)
LEMMA QuietSound ==
  ASSUME SoundInv, op.kind # "append", op'.kind # "append", hw' = hw, pending' = pending,
         Wanted' \subseteq Wanted, segments' \in Seq(Segment), LocatedOK',
         \A p \in DOMAIN disk' : p \in DOMAIN disk /\ disk'[p] = disk[p],
         \A s \in DOMAIN index' : index'[s] \in [segment : Int, offset : Nat, ms : Nat]
  PROVE  SoundInv'
<1>1. hw \in Int /\ Reached = hw /\ Reached' = hw
  BY DEF SoundInv, Reached
<1>2. \A s \in Wanted' : s \in Int /\ s <= hw
  BY <1>1 DEF SoundInv
<1>3. /\ \A p \in DOMAIN disk : FileSound(disk[p], Wanted', hw)
      /\ Stray(pending, Wanted', hw)
  <2>1. Reached <= hw /\ \A s \in Wanted' : s \in Wanted \/ Reached < s
    BY <1>1
  <2> QED BY <1>1, <2>1, FilesLater
<1> QED BY <1>1, <1>2, <1>3 DEF SoundInv

LEMMA DropOldestSound ==
  ASSUME SoundInv, DropOldest
  PROVE  SoundInv'
<1>1. /\ op.kind = "gc" /\ op' = op /\ hw' = hw /\ pending' = pending /\ located' = located
      /\ disk' = KeepOnly(disk, DOMAIN disk \ {segments[1].path})
      /\ segments' = Tail(segments) /\ Len(segments) > 1
      /\ index' = [s \in {x \in DOMAIN index : SurvivesDrop(x)} |->
                     [index[s] EXCEPT !.segment = ShiftedSegment(index[s])]]
  BY DEF DropOldest, MayDropOldest
<1>2. \A p \in DOMAIN disk' : p \in DOMAIN disk /\ disk'[p] = disk[p]
  BY <1>1 DEF KeepOnly
<1>3. Wanted' \subseteq Wanted
  BY <1>1 DEF Wanted
<1>4. segments' \in Seq(Segment)
  <2>1. segments \in Seq(Segment)
    BY DEF SoundInv
  <2>2. segments # <<>>
    BY <1>1
  <2> QED BY <1>1, <2>1, <2>2, HeadTailProperties
<1>5. ASSUME NEW s \in DOMAIN index' PROVE index'[s] \in [segment : Int, offset : Nat, ms : Nat]
  <2>1. index[s] \in [segment : Int, offset : Nat, ms : Nat]
    BY <1>1 DEF SoundInv
  <2>2. ShiftedSegment(index[s]) \in Int
    BY <2>1 DEF ShiftedSegment
  <2>3. index'[s] = [index[s] EXCEPT !.segment = ShiftedSegment(index[s])]
    BY <1>1
  <2> QED BY <2>1, <2>2, <2>3
<1>6. LocatedOK'
  BY <1>1 DEF SoundInv, LocatedOK
<1> QED BY <1>1, <1>2, <1>3, <1>4, <1>5, <1>6, QuietSound

(* A reader wants what it found in the index, and less when it is done.    *)
LEMMA LocateSound ==
  ASSUME SoundInv, NEW r \in Readers, NEW seq \in Seqs, Locate(r, seq)
  PROVE  SoundInv'
<1> DEFINE x == [seq |-> seq, loc |-> LocationOf(seq)]
<1>1. /\ op' = op /\ op = Idle /\ hw' = hw /\ pending' = pending /\ disk' = disk
      /\ segments' = segments /\ index' = index /\ seq \in DOMAIN index
      /\ located' = [located EXCEPT ![r] = x]
  BY DEF Locate, memory, ghosts
<1>2. x.seq \in DOMAIN index /\ x.loc.offset \in Nat
  <2>1. index[seq].offset \in Nat
    BY <1>1 DEF SoundInv
  <2> QED BY <1>1, <2>1 DEF LocationOf
<1> HIDE DEF x
<1>3. LocatedOK'
  BY <1>1, <1>2 DEF SoundInv, LocatedOK
<1>4. Wanted' \subseteq Wanted
  <2>1. ASSUME NEW y \in Readers, located'[y] # None PROVE located'[y].seq \in Wanted
    <3>1. CASE y = r
      <4>1. located'[y] = x
        BY <1>1, <3>1 DEF SoundInv, LocatedOK
      <4> QED BY <1>2, <4>1 DEF Wanted
    <3>2. CASE y # r
      <4>1. located'[y] = located[y]
        BY <1>1, <3>2 DEF SoundInv, LocatedOK
      <4> QED BY <2>1, <4>1 DEF Wanted
    <3> QED BY <3>1, <3>2
  <2> QED BY <1>1, <2>1 DEF Wanted
<1> QED BY <1>1, <1>3, <1>4, QuietSound DEF SoundInv, Idle

LEMMA FetchSound ==
  ASSUME SoundInv, NEW r \in Readers, Fetch(r)
  PROVE  SoundInv'
<1>1. /\ op' = op /\ hw' = hw /\ pending' = pending /\ disk' = disk
      /\ segments' = segments /\ index' = index /\ located' = [located EXCEPT ![r] = None]
  BY DEF Fetch, memory, ghosts
<1>2. LocatedOK' /\ \A y \in Readers : located'[y] # None => located'[y] = located[y]
  BY <1>1 DEF SoundInv, LocatedOK
<1>3. Wanted' \subseteq Wanted
  BY <1>1, <1>2 DEF Wanted
<1>4. Reached' = Reached /\ Reached \in Int
  BY <1>1 DEF Reached, SoundInv
<1>5. /\ \A p \in DOMAIN disk' : FileSound(disk'[p], Wanted', Reached')
      /\ Stray(pending', Wanted', Reached')
  <2>1. \A s \in Wanted' : s \in Wanted \/ Reached < s
    BY <1>3
  <2>2. Reached <= Reached'
    BY <1>4
  <2> QED BY <1>1, <1>4, <2>1, <2>2, FilesLater
<1>6. \A s \in Wanted' : s \in Int /\ s <= Reached'
  BY <1>3, <1>4 DEF SoundInv
<1> QED BY <1>1, <1>2, <1>5, <1>6 DEF SoundInv

(* A step the writer and the readers do not notice.                        *)
LEMMA IdleSound ==
  ASSUME SoundInv, op.kind # "append", op'.kind # "append", hw' = hw, pending' = pending,
         disk' = disk, segments' = segments, index' = index, located' = located
  PROVE  SoundInv'
<1>1. Wanted' = Wanted /\ LocatedOK'
  BY DEF Wanted, SoundInv, LocatedOK
<1>2. /\ segments' \in Seq(Segment) /\ Wanted' \subseteq Wanted
      /\ \A s \in DOMAIN index' : index'[s] \in [segment : Int, offset : Nat, ms : Nat]
  BY <1>1 DEF SoundInv
<1>3. \A p \in DOMAIN disk' : p \in DOMAIN disk /\ disk'[p] = disk[p]
  OBVIOUS
<1> QED BY <1>1, <1>2, <1>3, QuietSound

-----------------------------------------------------------------------------
(* The index while appends fail.  Whatever the offsets, an entry names a   *)
(* segment that exists, the one whose range of sequences it is in; that    *)
(* range is what DropOldest goes by.                                       *)
Placed ==
  /\ \A i \in 1 .. Len(segments) : segments[i].first <= hw
  /\ \A i, j \in 1 .. Len(segments) : i < j => segments[i].first < segments[j].first
  /\ \A s \in DOMAIN index :
       /\ index[s].segment \in 1 .. Len(segments)
       /\ segments[index[s].segment].first <= s
       /\ \A j \in 1 .. Len(segments) : index[s].segment < j => s < segments[j].first

EntriesInRange == \A s \in DOMAIN index : index[s].segment \in 1 .. Len(segments)

(* Beside a legacy segment, or in an empty directory.                      *)
LEMMA OpenPlaced ==
  ASSUME IInv, IInv', Open, DOMAIN disk \subseteq {LegacyPath}
  PROVE  Placed'
<1>1. DiskOK(disk, hw, clock) /\ index' = ScanIndex(ByStem) /\ hw' = hw /\ disk' = Cut(disk) /\ up'
  BY DEF IInv, Open, ghosts, Cut, Truncated
<1>2. SegmentsOK(segments', disk', hw') /\ IndexOK(index', maxSeq', segments', disk')
  BY <1>1 DEF IInv, RunningOK
<1>3. ASSUME NEW i \in 1 .. Len(segments'), NEW j \in 1 .. Len(segments') PROVE i = j
  <2>1. segments'[i].path \in DOMAIN disk' /\ segments'[j].path \in DOMAIN disk'
    BY <1>2, SegIs
  <2>2. segments'[i].path = LegacyPath /\ segments'[j].path = LegacyPath
    BY <1>1, <2>1 DEF Cut
  <2> QED BY <1>2, <2>2, SegDistinct
<1>4. ASSUME NEW i \in 1 .. Len(segments') PROVE segments'[i].first <= hw'
  BY <1>2, SegIs DEF Describes
<1>5. ASSUME NEW s \in DOMAIN index'
      PROVE  /\ index'[s].segment \in 1 .. Len(segments')
             /\ segments'[index'[s].segment].first <= s
  <2> DEFINE k == index'[s].segment
  <2>1. k \in 1 .. Len(segments')
    BY <1>2 DEF IndexOK
  <2>2. PICK p \in DOMAIN disk : \E o \in Whole(disk[p]) : GroupAt(disk[p], o).seq = s
    BY <1>1, IndexedOnDisk
  <2>3. PICK o \in Whole(disk[p]) : GroupAt(disk[p], o).seq = s
    BY <2>2
  <2>4. /\ p \in DOMAIN disk' /\ Laid(disk'[p]) /\ o \in Whole(disk'[p])
        /\ GroupAt(disk'[p], o).seq = s
    <3>1. p \in DOMAIN disk'
      BY <1>1 DEF Cut
    <3>2. /\ Laid(disk'[p]) /\ Whole(disk'[p]) = Whole(disk[p])
          /\ GroupAt(disk'[p], o) = GroupAt(disk[p], o)
      BY <1>1, <2>3, CutFile
    <3> QED BY <2>3, <3>1, <3>2
  <2>5. o + 1 \in 1 .. Len(disk'[p]) /\ disk'[p][o + 1].group.seq = s
    BY <2>4, WholeIs
  <2>6. PICK i \in 1 .. Len(segments') : segments'[i].path = p
    BY <1>2, <2>4 DEF SegmentsOK
  <2>7. segments'[k].path = p
    BY <1>3, <2>1, <2>6
  <2>8. k <= k
    BY <2>1
  <2> HIDE DEF k
  <2>9. segments'[k].first <= disk'[p][o + 1].group.seq
    BY <1>2, <2>1, <2>5, <2>7, <2>8 DEF SegmentsOK
  <2> QED BY <2>1, <2>5, <2>9 DEF k
<1> QED BY <1>3, <1>4, <1>5 DEF Placed

(* What the ranges say of numbers.                                         *)
LEMMA PlacedIs ==
  ASSUME SoundInv, Placed
  PROVE  /\ Len(segments) \in Nat /\ hw \in Int
         /\ \A i \in 1 .. Len(segments) : segments[i].first \in Int
         /\ \A s \in DOMAIN index : s \in Int /\ s <= hw /\ index[s].segment \in 1 .. Len(segments)
         /\ op.kind = "append" => \A s \in DOMAIN index : s < hw
<1>1. segments \in Seq(Segment) /\ Len(segments) \in Nat /\ hw \in Int
  BY DEF SoundInv
<1>2. ASSUME NEW i \in 1 .. Len(segments) PROVE segments[i].first \in Int
  <2>1. segments[i] \in Segment
    BY <1>1
  <2> QED BY <2>1, StoreAssumption DEF Segment, Seqs
<1>3. ASSUME NEW s \in DOMAIN index
      PROVE  s \in Int /\ s <= hw /\ (op.kind = "append" => s < hw)
  <2>1. s \in Int /\ s <= Reached
    BY DEF SoundInv, Wanted
  <2> QED BY <1>1, <2>1 DEF Reached
<1> QED BY <1>1, <1>2, <1>3 DEF Placed

LEMMA SamePlaced ==
  ASSUME Placed, segments' = segments, index' = index, hw' = hw
  PROVE  Placed'
  BY DEF Placed

LEMMA BeginAppendPlaced ==
  ASSUME SoundInv, Placed, NEW g \in Groups, BeginAppend(g)
  PROVE  Placed'
<1> DEFINE n == Len(segments)
<1>1. hw' = g.seq /\ g.seq > hw /\ g.seq \in Int /\ index' = index
  BY GroupIs DEF BeginAppend
<1>2. /\ n \in Nat /\ hw \in Int /\ segments \in Seq(Segment)
      /\ \A i \in 1 .. n : segments[i].first \in Int
      /\ \A s \in DOMAIN index : s \in Int /\ s <= hw /\ index[s].segment \in 1 .. n
  BY PlacedIs DEF SoundInv
<1>3. \A i \in 1 .. n : segments[i].first < g.seq
  BY <1>1, <1>2 DEF Placed
<1>4. CASE segments' = segments
  BY <1>1, <1>2, <1>3, <1>4 DEF Placed
<1>5. CASE segments' # segments
  <2>1. PICK new : segments' = Append(segments, new) /\ new.first = g.seq
    BY <1>5 DEF BeginAppend
  <2>2. /\ Len(segments') = n + 1 /\ segments'[n + 1].first = g.seq
        /\ \A i \in 1 .. n : segments'[i] = segments[i]
    BY <1>2, <2>1
  <2> HIDE DEF n
  <2>3. \A i \in 1 .. n + 1 : i \in 1 .. n \/ i = n + 1
    BY <1>2
  <2>4. ASSUME NEW i \in 1 .. n + 1 PROVE segments'[i].first <= g.seq
    BY <1>1, <1>2, <1>3, <2>2, <2>3
  <2>5. ASSUME NEW i \in 1 .. n + 1, NEW j \in 1 .. n + 1, i < j
        PROVE  segments'[i].first < segments'[j].first
    <3>1. i \in 1 .. n
      BY <1>2, <2>5
    <3>2. CASE j = n + 1
      BY <1>3, <2>2, <3>1, <3>2
    <3>3. CASE j \in 1 .. n
      BY <2>2, <2>5, <3>1, <3>3 DEF Placed, n
    <3> QED BY <2>3, <3>2, <3>3
  <2>6. ASSUME NEW s \in DOMAIN index
        PROVE  /\ index[s].segment \in 1 .. n + 1
               /\ segments'[index[s].segment].first <= s
               /\ \A j \in 1 .. n + 1 : index[s].segment < j => s < segments'[j].first
    <3>1. /\ index[s].segment \in 1 .. n /\ segments[index[s].segment].first <= s
          /\ \A j \in 1 .. n : index[s].segment < j => s < segments[j].first
      BY DEF Placed, n
    <3>2. s < segments'[n + 1].first
      BY <1>1, <1>2, <2>2
    <3> QED BY <1>2, <2>2, <2>3, <3>1, <3>2
  <2> QED BY <1>1, <2>2, <2>4, <2>5, <2>6 DEF Placed
<1> QED BY <1>4, <1>5

LEMMA EndAppendPlaced ==
  ASSUME SoundInv, Placed, EndAppend
  PROVE  Placed'
<1> DEFINE n == Len(segments)
           g == op.group
<1>1. /\ op.kind = "append" /\ hw' = hw /\ g.seq = hw /\ segments # <<>>
      /\ segments' = [segments EXCEPT ![n].bytes = @ + RecordBytes(g), ![n].newest = g.ms]
      /\ index' = Put(index, g.seq, [segment |-> n, offset |-> segments[n].bytes, ms |-> g.ms])
  BY DEF EndAppend, SoundInv
<1>2. /\ n \in Nat /\ hw \in Int /\ segments \in Seq(Segment)
      /\ \A s \in DOMAIN index : s \in Int /\ s < hw /\ index[s].segment \in 1 .. n
  BY <1>1, PlacedIs DEF SoundInv
<1>3. n \in 1 .. n
  BY <1>1, <1>2, EmptySeq
<1> HIDE DEF g
<1>4. Len(segments') = n /\ \A i \in 1 .. n : segments'[i].first = segments[i].first
  <2>1. DOMAIN segments' = 1 .. n
    BY <1>1, <1>2
  <2>2. ASSUME NEW i \in 1 .. n PROVE segments'[i].first = segments[i].first
    <3>1. segments[i] \in Segment
      BY <1>2
    <3>2. CASE i = n
      <4> DEFINE x == [segments[n] EXCEPT !.bytes = @ + RecordBytes(g), !.newest = g.ms]
      <4>1. segments' = [segments EXCEPT ![n] = x]
        BY <1>1
      <4>2. x.first = segments[n].first
        BY <3>1, <3>2 DEF Segment
      <4> HIDE DEF x
      <4>3. segments'[n] = x
        BY <1>2, <1>3, <4>1
      <4> QED BY <3>2, <4>2, <4>3
    <3>3. CASE i # n
      <4>1. segments'[i] = segments[i]
        BY <1>1, <1>2, <3>3
      <4> QED BY <4>1
    <3> QED BY <3>2, <3>3
  <2>3. segments' \in Seq(Segment)
    BY EndAppendSound DEF SoundInv
  <2> QED BY <1>2, <2>1, <2>2, <2>3, LenProperties
<1> HIDE DEF n
<1>5. ASSUME NEW s \in DOMAIN index'
      PROVE  /\ index'[s].segment \in 1 .. n
             /\ segments[index'[s].segment].first <= s
             /\ \A j \in 1 .. n : index'[s].segment < j => s < segments[j].first
  <2>1. CASE s = hw
    <3>1. index'[s].segment = n
      BY <1>1, <2>1 DEF Put
    <3>2. segments[n].first <= hw
      BY <1>3 DEF Placed, n
    <3> QED BY <1>2, <1>3, <2>1, <3>1, <3>2
  <2>2. CASE s # hw
    <3>1. s \in DOMAIN index /\ index'[s] = index[s]
      BY <1>1, <2>2 DEF Put
    <3> QED BY <3>1 DEF Placed, n
  <2> QED BY <2>1, <2>2
<1>6. /\ \A i \in 1 .. n : segments[i].first <= hw
      /\ \A i, j \in 1 .. n : i < j => segments[i].first < segments[j].first
  BY DEF Placed, n
<1> QED BY <1>1, <1>4, <1>5, <1>6 DEF Placed

(* Comparing sequences with the first ones of two segments tells exactly   *)
(* the entries of the dropped segment from the others.                     *)
LEMMA DropOldestPlaced ==
  ASSUME SoundInv, Placed, DropOldest
  PROVE  Placed'
<1> DEFINE n == Len(segments)
<1>1. /\ hw' = hw /\ segments' = Tail(segments) /\ n > 1
      /\ index' = [s \in {x \in DOMAIN index : SurvivesDrop(x)} |->
                     [index[s] EXCEPT !.segment = ShiftedSegment(index[s])]]
  BY DEF DropOldest, MayDropOldest
<1>2. /\ n \in Nat /\ segments \in Seq(Segment)
      /\ \A i \in 1 .. n : segments[i].first \in Int
      /\ \A s \in DOMAIN index : s \in Int /\ index[s].segment \in 1 .. n
  BY PlacedIs DEF SoundInv
<1>3. Len(segments') = n - 1 /\ \A i \in 1 .. n - 1 : segments'[i] = segments[i + 1]
  <2>1. segments # <<>>
    BY <1>1
  <2> QED BY <1>1, <1>2, <2>1, HeadTailProperties
<1> HIDE DEF n
<1>4. ASSUME NEW s \in DOMAIN index'
      PROVE  \E i \in 1 .. n - 1 :
               /\ index'[s].segment = i /\ segments[i + 1].first <= s
               /\ \A j \in 1 .. n : i + 1 < j => s < segments[j].first
  <2> DEFINE k == index[s].segment
  <2>1. s \in DOMAIN index /\ SurvivesDrop(s) /\ index'[s] = [index[s] EXCEPT !.segment = ShiftedSegment(index[s])]
    BY <1>1
  <2>2. /\ k \in 1 .. n /\ segments[k].first <= s
        /\ \A j \in 1 .. n : k < j => s < segments[j].first
    BY <2>1 DEF Placed, n
  <2>3. k # 1
    <3> SUFFICES ASSUME k = 1 PROVE FALSE
      OBVIOUS
    <3>1. 1 \in 1 .. n /\ 2 \in 1 .. n
      BY <1>1, <1>2
    <3>2. s < segments[2].first /\ segments[1].first <= s
      BY <2>2, <3>1
    <3>3. s \in Int /\ segments[1].first \in Int /\ segments[2].first \in Int
      BY <1>2, <2>1, <3>1
    <3> QED BY <2>1, <3>2, <3>3 DEF SurvivesDrop
  <2>4. index'[s].segment = k - 1
    <3>1. index[s] \in [segment : Int, offset : Nat, ms : Nat]
      BY <2>1 DEF SoundInv
    <3>2. ShiftedSegment(index[s]) = k - 1
      BY <1>2, <2>2, <2>3 DEF ShiftedSegment
    <3> QED BY <2>1, <3>1, <3>2
  <2> HIDE DEF k
  <2>5. k - 1 \in 1 .. n - 1 /\ (k - 1) + 1 = k
    BY <1>2, <2>2, <2>3
  <2> QED BY <2>2, <2>4, <2>5
<1>5. ASSUME NEW i \in 1 .. n - 1 PROVE segments'[i].first <= hw'
  <2>1. i + 1 \in 1 .. n
    BY <1>2
  <2> QED BY <1>1, <1>3, <2>1 DEF Placed, n
<1>6. ASSUME NEW i \in 1 .. n - 1, NEW j \in 1 .. n - 1, i < j
      PROVE  segments'[i].first < segments'[j].first
  <2>1. i + 1 \in 1 .. n /\ j + 1 \in 1 .. n /\ i + 1 < j + 1
    BY <1>2, <1>6
  <2> QED BY <1>3, <2>1 DEF Placed, n
<1>7. ASSUME NEW s \in DOMAIN index'
      PROVE  /\ index'[s].segment \in 1 .. n - 1
             /\ segments'[index'[s].segment].first <= s
             /\ \A j \in 1 .. n - 1 : index'[s].segment < j => s < segments'[j].first
  <2>1. PICK i \in 1 .. n - 1 :
               /\ index'[s].segment = i /\ segments[i + 1].first <= s
               /\ \A j \in 1 .. n : i + 1 < j => s < segments[j].first
    BY <1>4
  <2>2. ASSUME NEW j \in 1 .. n - 1, i < j PROVE s < segments'[j].first
    <3>1. j + 1 \in 1 .. n /\ i + 1 < j + 1
      BY <1>2, <2>2
    <3> QED BY <1>3, <2>1, <3>1
  <2> QED BY <1>3, <2>1, <2>2
<1> QED BY <1>3, <1>5, <1>6, <1>7 DEF Placed

-----------------------------------------------------------------------------
(* One run of the process: before it opens the store there is at most the  *)
(* legacy segment, torn anywhere.                                          *)
OneRunInv ==
  /\ crashes = 0
  /\ ~up => /\ IInv /\ DOMAIN disk \subseteq {LegacyPath}
            /\ \A r \in Readers : located[r] = None
  /\ up => SoundInv /\ Placed

LEMMA RunningNext ==
  ASSUME MaxCrashes = 0, crashes = 0, up, SoundInv, Placed, [Next]_vars
  PROVE  up' /\ crashes' = 0 /\ SoundInv' /\ Placed'
<1>1. ~Open /\ ~Crash
  BY DEF Open, Crash
<1>2. up' /\ crashes' = 0
  BY <1>1 DEF Next, vars, ghosts, BeginAppend, EndAppend, FailAppend,
     BeginGc, DropOldest, EndGc, Locate, Fetch
<1>3. ASSUME NEW cutoff, NEW maxBytes, BeginGc(cutoff, maxBytes) PROVE SoundInv' /\ Placed'
  <2>1. /\ op = Idle /\ op' = [kind |-> "gc", cutoff |-> cutoff, maxBytes |-> maxBytes]
        /\ hw' = hw /\ pending' = pending /\ disk' = disk /\ segments' = segments
        /\ index' = index /\ located' = located
    BY <1>3 DEF BeginGc, memory, ghosts
  <2>2. op.kind # "append" /\ op'.kind # "append"
    BY <2>1 DEF Idle
  <2> QED BY <2>1, <2>2, IdleSound, SamePlaced
<1>4. ASSUME EndGc PROVE SoundInv' /\ Placed'
  <2>1. /\ op.kind = "gc" /\ op' = Idle
        /\ hw' = hw /\ pending' = pending /\ disk' = disk /\ segments' = segments
        /\ index' = index /\ located' = located
    BY <1>4 DEF EndGc, memory, ghosts
  <2>2. op.kind # "append" /\ op'.kind # "append"
    BY <2>1 DEF Idle
  <2> QED BY <2>1, <2>2, IdleSound, SamePlaced
<1>5. ASSUME FailAppend PROVE SoundInv' /\ Placed'
  <2>1. segments' = segments /\ index' = index /\ hw' = hw
    BY <1>5 DEF FailAppend, ghosts
  <2> QED BY <1>5, <2>1, FailAppendSound, SamePlaced
<1>6. ASSUME NEW r \in Readers, NEW seq \in Seqs, Locate(r, seq) PROVE SoundInv' /\ Placed'
  <2>1. segments' = segments /\ index' = index /\ hw' = hw
    BY <1>6 DEF Locate, memory, ghosts
  <2> QED BY <1>6, <2>1, LocateSound, SamePlaced
<1>7. ASSUME NEW r \in Readers, Fetch(r) PROVE SoundInv' /\ Placed'
  <2>1. segments' = segments /\ index' = index /\ hw' = hw
    BY <1>7 DEF Fetch, memory, ghosts
  <2> QED BY <1>7, <2>1, FetchSound, SamePlaced
<1>8. ASSUME UNCHANGED vars PROVE SoundInv' /\ Placed'
  <2>1. /\ op' = op /\ hw' = hw /\ pending' = pending /\ disk' = disk
        /\ segments' = segments /\ index' = index /\ located' = located
    BY <1>8 DEF vars, memory, ghosts
  <2>2. Wanted' = Wanted /\ Reached' = Reached /\ LocatedOK'
    BY <2>1 DEF Wanted, Reached, SoundInv, LocatedOK
  <2>3. /\ hw' \in Int /\ Wanted' \subseteq Int /\ \A s \in Wanted' : s <= Reached'
        /\ \A p \in DOMAIN disk' : FileSound(disk'[p], Wanted', Reached')
        /\ Stray(pending', Wanted', Reached') /\ segments' \in Seq(Segment)
        /\ \A s \in DOMAIN index' : index'[s] \in [segment : Int, offset : Nat, ms : Nat]
    BY <2>1, <2>2 DEF SoundInv
  <2>4. op'.kind = "append" => op'.group \in Groups /\ op'.group.seq = hw' /\ segments' # <<>>
    BY <2>1 DEF SoundInv
  <2>5. SoundInv'
    BY <2>2, <2>3, <2>4 DEF SoundInv
  <2> QED BY <2>1, <2>5, SamePlaced
<1>9. ASSUME NEW g \in Groups, BeginAppend(g) PROVE SoundInv' /\ Placed'
  BY <1>9, BeginAppendSound, BeginAppendPlaced
<1>10. EndAppend => SoundInv' /\ Placed'
  BY EndAppendSound, EndAppendPlaced
<1>11. DropOldest => SoundInv' /\ Placed'
  BY DropOldestSound, DropOldestPlaced
<1>12. SoundInv' /\ Placed'
  BY <1>1, <1>3, <1>4, <1>5, <1>6, <1>7, <1>8, <1>9, <1>10, <1>11 DEF Next
<1> QED BY <1>2, <1>12

LEMMA OneRunNext ==
  ASSUME MaxCrashes = 0, OneRunInv, [Next]_vars
  PROVE  OneRunInv'
<1>1. CASE up
  BY <1>1, RunningNext DEF OneRunInv
<1>2. CASE ~up
  <2>1. /\ IInv /\ StoppedOK /\ crashes = 0 /\ \A r \in Readers : located[r] = None
        /\ DOMAIN disk \subseteq {LegacyPath}
    BY <1>2 DEF OneRunInv, IInv
  <2>2. Open \/ UNCHANGED vars
    BY <1>2, <2>1 DEF Next, StoppedOK, Idle, BeginAppend, EndAppend, FailAppend, BeginGc,
         DropOldest, EndGc, Locate, Fetch, Crash
  <2>3. CASE Open
    <3>1. IInv' /\ up' /\ crashes' = 0
      BY <2>1, <2>3, OpenIInv DEF Open, ghosts
    <3> QED BY <2>1, <2>3, <3>1, OpenSound, OpenPlaced DEF OneRunInv
  <2>4. CASE UNCHANGED vars
    BY <1>2, <2>1, <2>4, StutterIInv DEF OneRunInv, vars, ghosts
  <2> QED BY <2>2, <2>3, <2>4
<1> QED BY <1>1, <1>2

LEMMA OneRunStarts ==
  ASSUME Init
  PROVE  OneRunInv
<1>1. crashes = 0 /\ ~up /\ \A r \in Readers : located[r] = None
  BY DEF Init
<1>2. DOMAIN disk \subseteq {LegacyPath}
  <2>1. DOMAIN <<>> = {}
    OBVIOUS
  <2>2. disk = <<>> \/ DOMAIN disk = {LegacyPath}
    BY DEF Init
  <2> QED BY <2>1, <2>2
<1> QED BY <1>1, <1>2, InitIInv DEF OneRunInv

(* As long as the process lives, no read returns another group's content   *)
(* or a torn one, whatever appends fail half-way (ReadsAreSound).          *)
THEOREM FailedAppendsDoNoHarm == MaxCrashes = 0 => (Spec => []ReadsAreSound)
<1> SUFFICES ASSUME MaxCrashes = 0 PROVE Spec => []ReadsAreSound
  OBVIOUS
<1>1. Init => OneRunInv
  BY OneRunStarts
<1>2. OneRunInv /\ [Next]_vars => OneRunInv'
  BY OneRunNext
<1>3. OneRunInv => ReadsAreSound
  BY SoundReads, ReadsAreSoundHere DEF OneRunInv
<1> QED BY <1>1, <1>2, <1>3, PTL DEF Spec

(* The segment number in an index entry is always that of a segment, as    *)
(* GC shifts them: locate never indexes out of bounds, neither when the    *)
(* process crashes at will nor when appends fail in one run of it.         *)
THEOREM IndexStaysInRange == NoAppendFails \/ MaxCrashes = 0 => (Spec => []EntriesInRange)
<1>1. ~up /\ IInv => EntriesInRange
  <2>1. DOMAIN <<>> = {}
    OBVIOUS
  <2> QED BY <2>1 DEF IInv, StoppedOK, EntriesInRange
<1>2. ASSUME NoAppendFails PROVE Spec => []EntriesInRange
  <2>1. Spec => []IInv
    BY <1>2, StoreInvariant
  <2>2. up /\ IInv => EntriesInRange
    BY DEF IInv, RunningOK, IndexOK, EntriesInRange
  <2> QED BY <1>1, <2>1, <2>2, PTL
<1>3. ASSUME MaxCrashes = 0 PROVE Spec => []EntriesInRange
  <2>1. Init => OneRunInv
    BY OneRunStarts
  <2>2. OneRunInv /\ [Next]_vars => OneRunInv'
    BY <1>3, OneRunNext
  <2>3. OneRunInv => EntriesInRange
    BY <1>1 DEF OneRunInv, Placed, EntriesInRange
  <2> QED BY <2>1, <2>2, <2>3, PTL DEF Spec
<1> QED BY <1>2, <1>3
=============================================================================
