---------------------------- MODULE ReaderProofs ----------------------------
(***************************************************************************)
(* Machine-checked proofs about Reader.tla, for every set of command lines *)
(* and scripts, group size, channel capacity and number of lives.          *)
(***************************************************************************)
EXTENDS Reader, TLAPS

Queued == [track : AllTracks, frame : Frames]

Typed ==
  /\ mode \in Scenarios
  /\ pub \in [AllTracks -> Seq(Seq(Frames))]
  /\ pos \in Nat \ {0}
  /\ sub \in [AllTracks -> [status : {"none", "live", "ended"}, from : Nat, until : Nat]]
  /\ \A t \in AllTracks : sub[t].until <= Len(pub[t])
  /\ pc \in [AllTracks -> {"wait", "groups", "frames", "send", "done"}]
  /\ born \in [AllTracks -> Nat]
  /\ group \in [AllTracks -> Nat]
  /\ \A t \in AllTracks : pc[t] \in {"frames", "send"} => group[t] \in 1 .. Len(pub[t])
  /\ read \in [AllTracks -> Nat]
  /\ lastSeq \in [AllTracks -> Int]
  /\ item \in [AllTracks -> Frames \cup {NoItem}]
  /\ \A t \in AllTracks : pc[t] = "send" => item[t] \in Frames
  /\ chan \in Seq(Queued)
  /\ printSeq \in Int
  /\ printed \in [AllTracks -> Seq(Nat)]

(* The events of a track between its reader and the console, and the mark  *)
(* below which a reader drops what it gets.                                *)
IsQueued(t, k) == k \in DOMAIN chan /\ chan[k].track = t /\ chan[k].frame > 0

(* With accounts each reader's dedup keeps its track in order: what is     *)
(* printed is below what is queued, which is below what the reader sends,  *)
(* and none of it is above last_seq.                                       *)
OrderedByReader(t) ==
  /\ \A i \in DOMAIN printed[t] : printed[t][i] <= lastSeq[t]
  /\ \A k \in DOMAIN chan : IsQueued(t, k) =>
       /\ chan[k].frame <= lastSeq[t]
       /\ \A i \in DOMAIN printed[t] : printed[t][i] < chan[k].frame
       /\ \A j \in DOMAIN chan : IsQueued(t, j) /\ j < k => chan[j].frame < chan[k].frame
  /\ pc[t] = "send" /\ item[t] > 0 =>
       /\ item[t] = lastSeq[t]
       /\ \A i \in DOMAIN printed[t] : printed[t][i] < item[t]
       /\ \A k \in DOMAIN chan : IsQueued(t, k) => chan[k].frame < item[t]

(* With one stream the printer's dedup does.                               *)
OrderedByPrinter(t) ==
  \A i \in DOMAIN printed[t] : printed[t][i] <= printSeq

InOrder ==
  /\ PrintedOnceInOrder
  /\ \A t \in AllTracks : IF mode.dids = {} THEN OrderedByPrinter(t) ELSE OrderedByReader(t)

-----------------------------------------------------------------------------
(* A sequence over a set is one over a larger set.                         *)
LEMMA SeqGrows ==
  ASSUME NEW S, NEW T, S \subseteq T, NEW s \in Seq(S)
  PROVE  s \in Seq(T)
<1>1. Len(s) \in Nat /\ s = [i \in 1 .. Len(s) |-> s[i]]
  OBVIOUS
<1>2. \A i \in 1 .. Len(s) : s[i] \in T
  OBVIOUS
<1>3. [i \in 1 .. Len(s) |-> s[i]] \in Seq(T)
  BY <1>1, <1>2
<1> QED
  BY <1>1, <1>3

(* An element of a sequence over a set is in the set.                      *)
LEMMA Element ==
  ASSUME NEW S, NEW s \in Seq(S), NEW i \in 1 .. Len(s)
  PROVE  s[i] \in S
  OBVIOUS

(* A scenario names tracks that exist, and accounts over moq-lite only.    *)
LEMMA Scenario ==
  ASSUME Typed
  PROVE  /\ Tracks \subseteq AllTracks
         /\ mode.dids # {} => Lite
         /\ mode.script \in Seq([track : AllTracks, frame : Frames])
<1>1. /\ [source |-> mode.source, dids |-> mode.dids, stop |-> mode.stop] \in CommandLines
      /\ mode.script \in Seq([track : IF mode.dids = {} THEN {Main} ELSE Dids,
                             frame : Frames])
  BY ReaderAssumption DEF Typed
<1>2. mode.dids \in {{}, Dids} /\ (mode.dids # {} => mode.source = "lite")
  BY <1>1 DEF CommandLines
<1> DEFINE S == [track : IF mode.dids = {} THEN {Main} ELSE Dids, frame : Frames]
           T == [track : AllTracks, frame : Frames]
<1>3. S \subseteq T
  BY <1>2 DEF AllTracks
<1>4. mode.script \in Seq(S)
  BY <1>1
<1> HIDE DEF S, T
<1>5. mode.script \in Seq(T)
  BY <1>3, <1>4, SeqGrows
<1>6. Tracks \subseteq AllTracks
  BY <1>2 DEF Tracks, AllTracks
<1>7. mode.dids # {} => Lite
  BY <1>2 DEF Lite
<1> QED
  BY <1>5, <1>6, <1>7 DEF T

(* The steps of Next, by track.                                            *)
LEMMA Steps ==
  ASSUME Typed, Next
  PROVE  \/ Publish \/ PublisherGone \/ PublisherReturns \/ PrintEvent \/ IdleTimeout
         \/ \E t \in AllTracks : t \in Tracks /\
              \/ Subscribe(t) \/ LoopEnds(t) \/ (\E g \in Given(t) : NextGroup(t, g))
              \/ TrackEnded(t) \/ ReadFrame(t) \/ GroupDone(t) \/ FrameError(t)
              \/ Send(t) \/ SendFails(t) \/ RelayEnds(t)
<1>1. CASE PublisherStep \/ PrinterStep
  BY <1>1 DEF PublisherStep, PrinterStep
<1>2. CASE \E t \in Tracks : ReaderStep(t) \/ Trouble(t)
  <2>1. PICK t \in Tracks : ReaderStep(t) \/ Trouble(t)
    BY <1>2
  <2>2. t \in AllTracks
    BY <2>1, Scenario
  <2>3. \/ Subscribe(t) \/ LoopEnds(t) \/ (\E g \in Given(t) : NextGroup(t, g))
        \/ TrackEnded(t) \/ ReadFrame(t) \/ GroupDone(t) \/ FrameError(t)
        \/ Send(t) \/ SendFails(t) \/ RelayEnds(t)
    BY <2>1 DEF ReaderStep, Trouble, NextInTurn
  <2> QED
    BY <2>1, <2>2, <2>3
<1> QED
  BY <1>1, <1>2 DEF Next

(* Groups are added, and none is taken away.                               *)
LEMMA PutTyped ==
  ASSUME Typed, NEW t \in AllTracks, NEW f \in Frames, Put(t, f)
  PROVE  /\ pub' \in [AllTracks -> Seq(Seq(Frames))]
         /\ \A u \in AllTracks : Len(pub[u]) <= Len(pub'[u])
<1>1. /\ pub \in [AllTracks -> Seq(Seq(Frames))] /\ pub[t] \in Seq(Seq(Frames))
      /\ Len(pub[t]) \in Nat /\ born[t] \in Nat
  BY DEF Typed
<1>2. CASE Written(t) > born[t] /\ Len(pub[t][Written(t)]) < GroupSize
  <2>1. Written(t) \in 1 .. Len(pub[t])
    BY <1>1, <1>2 DEF Written
  <2>2. pub[t][Written(t)] \in Seq(Frames)
    BY <1>1, <2>1
  <2> DEFINE g == Append(pub[t][Written(t)], f)
             ext == [pub[t] EXCEPT ![Written(t)] = g]
  <2>3. g \in Seq(Frames)
    BY <2>2
  <2>4. ext \in Seq(Seq(Frames)) /\ Len(ext) = Len(pub[t])
    <3> HIDE DEF g
    <3> QED
      BY <1>1, <2>1, <2>3
  <2>5. pub' = [pub EXCEPT ![t] = ext]
    BY <1>1, <1>2 DEF Put
  <2> HIDE DEF ext
  <2> QED
    BY <1>1, <2>4, <2>5 DEF Typed
<1>3. CASE ~(Written(t) > born[t] /\ Len(pub[t][Written(t)]) < GroupSize)
  <2> DEFINE ext == Append(pub[t], <<f>>)
  <2>1. ext \in Seq(Seq(Frames)) /\ Len(ext) = Len(pub[t]) + 1
    <3>1. <<f>> \in Seq(Frames)
      OBVIOUS
    <3> QED
      BY <1>1, <3>1
  <2>2. pub' = [pub EXCEPT ![t] = ext]
    BY <1>3 DEF Put
  <2> HIDE DEF ext
  <2>3. \A u \in AllTracks : Len(pub[u]) \in Nat
    BY DEF Typed
  <2> QED
    BY <1>1, <2>1, <2>2, <2>3
<1> QED
  BY <1>2, <1>3

(* Type correctness, action by action.                                     *)
LEMMA TypedNext == Typed /\ [Next]_vars => Typed'
<1> SUFFICES ASSUME Typed, [Next]_vars PROVE Typed'
  OBVIOUS
<1> USE DEF publisher, readers, printer
<1>1. CASE Publish
  <2>1. /\ pos \in 1 .. Len(mode.script) /\ pos' = pos + 1
        /\ Put(mode.script[pos].track, mode.script[pos].frame)
        /\ UNCHANGED <<mode, born, sub, pc, group, read, lastSeq, item, chan, printSeq,
                       printed>>
    <3>1. Len(mode.script) \in Nat
      BY Scenario
    <3>2. pos \in 1 .. Len(mode.script)
      BY <1>1, <3>1 DEF Publish, Typed
    <3> QED
      BY <1>1, <3>2 DEF Publish
  <2>2. mode.script[pos].track \in AllTracks /\ mode.script[pos].frame \in Frames
    <3>1. mode.script[pos] \in [track : AllTracks, frame : Frames]
      BY <2>1, Scenario, Element
    <3> QED
      BY <3>1
  <2>3. /\ pub' \in [AllTracks -> Seq(Seq(Frames))]
        /\ \A u \in AllTracks : Len(pub[u]) <= Len(pub'[u])
    BY <2>1, <2>2, PutTyped
  <2>4. \A u \in AllTracks : Len(pub[u]) \in Nat /\ Len(pub'[u]) \in Nat
    BY <2>3 DEF Typed
  <2> QED
    BY <2>1, <2>3, <2>4 DEF Typed
<1>2. CASE PublisherGone \/ \E t \in AllTracks : RelayEnds(t)
  <2>1. /\ UNCHANGED <<mode, pub, pos, born, pc, group, read, lastSeq, item, chan, printSeq,
                       printed>>
        /\ \/ sub' = [t \in AllTracks |-> Cut(t)]
           \/ \E t \in AllTracks : sub' = [sub EXCEPT ![t] = Cut(t)]
    BY <1>2 DEF PublisherGone, RelayEnds
  <2> DEFINE S == [status : {"none", "live", "ended"}, from : Nat, until : Nat]
  <2>2. ASSUME NEW t \in AllTracks
        PROVE  Cut(t) \in S /\ Cut(t).until <= Len(pub[t])
    <3>1. sub[t] \in S /\ sub[t].until <= Len(pub[t]) /\ Len(pub[t]) \in Nat
      BY DEF Typed
    <3>2. CASE Live(t)
      <4>1. Cut(t) = [status |-> "ended", from |-> sub[t].from, until |-> Len(pub[t])]
        BY <3>1, <3>2 DEF Cut, Written
      <4> QED
        BY <3>1, <4>1
    <3>3. CASE ~Live(t)
      BY <3>1, <3>3 DEF Cut
    <3> QED
      BY <3>2, <3>3
  <2>3. /\ sub' \in [AllTracks -> [status : {"none", "live", "ended"}, from : Nat, until : Nat]]
        /\ \A t \in AllTracks : sub'[t].until <= Len(pub[t])
    <3>1. sub \in [AllTracks -> S] /\ \A t \in AllTracks : sub[t].until <= Len(pub[t])
      BY DEF Typed
    <3>2. CASE sub' = [t \in AllTracks |-> Cut(t)]
      BY <2>2, <3>2
    <3>3. CASE \E t \in AllTracks : sub' = [sub EXCEPT ![t] = Cut(t)]
      <4>1. PICK t \in AllTracks : sub' = [sub EXCEPT ![t] = Cut(t)]
        BY <3>3
      <4>2. Cut(t) \in S /\ Cut(t).until <= Len(pub[t])
        BY <2>2
      <4> DEFINE c == Cut(t)
      <4>3. c \in S /\ c.until <= Len(pub[t]) /\ sub' = [sub EXCEPT ![t] = c]
        BY <4>1, <4>2
      <4> HIDE DEF S, c
      <4>4. sub' \in [AllTracks -> S]
        BY <3>1, <4>3
      <4>5. \A u \in AllTracks : sub'[u] = IF u = t THEN c ELSE sub[u]
        BY <3>1, <4>3
      <4> QED
        BY <3>1, <4>3, <4>4, <4>5 DEF S
    <3> QED
      BY <2>1, <3>2, <3>3
  <2> QED
    BY <2>1, <2>3 DEF Typed
<1>3. CASE PublisherReturns
  <2>1. /\ UNCHANGED <<mode, pub, sub, pc, group, read, lastSeq, item, chan, printSeq, printed>>
        /\ pos' \in 1 .. pos /\ born' = [t \in AllTracks |-> Len(pub[t])]
    BY <1>3 DEF PublisherReturns, Written
  <2>2. \A t \in AllTracks : Len(pub[t]) \in Nat
    BY DEF Typed
  <2> QED
    BY <2>1, <2>2 DEF Typed
<1>4. CASE PrintEvent
  <2>1. /\ chan # <<>> /\ chan' = Tail(chan) /\ Head(chan) \in Queued /\ Tail(chan) \in Seq(Queued)
        /\ UNCHANGED <<mode, pub, pos, born, sub, pc, group, read, lastSeq, item>>
    BY <1>4 DEF PrintEvent, Typed
  <2>2. Head(chan).frame \in Int /\ Head(chan).track \in AllTracks
    BY <2>1 DEF Queued, Frames, Garbage
  <2>3. printSeq' \in Int
    BY <1>4, <2>2 DEF PrintEvent, Typed
  <2>4. printed' \in [AllTracks -> Seq(Nat)]
    <3> DEFINE t == Head(chan).track
               f == Head(chan).frame
    <3>1. printed \in [AllTracks -> Seq(Nat)]
      BY DEF Typed
    <3>2. CASE printed' = printed
      BY <3>1, <3>2
    <3>3. CASE f > 0 /\ printed' = [printed EXCEPT ![t] = Append(@, f)]
      <4>1. f \in Nat /\ printed[t] \in Seq(Nat)
        BY <2>2, <3>1, <3>3
      <4>2. Append(printed[t], f) \in Seq(Nat)
        BY <4>1
      <4> QED
        BY <2>2, <3>1, <3>3, <4>2
    <3>4. printed' = printed \/ (f > 0 /\ printed' = [printed EXCEPT ![t] = Append(@, f)])
      <4>1. CASE ~Printable(f)
        BY <1>4, <4>1 DEF PrintEvent
      <4>2. CASE Printable(f)
        <5>1. printed' = [printed EXCEPT ![t] = IF f > 0 THEN Append(@, f) ELSE @]
          BY <1>4, <4>2 DEF PrintEvent
        <5>2. f > 0 \/ printed' = [printed EXCEPT ![t] = @]
          BY <5>1
        <5> QED
          BY <2>2, <3>1, <5>1, <5>2
      <4> QED
        BY <4>1, <4>2
    <3> QED
      BY <3>2, <3>3, <3>4
  <2> QED
    BY <2>1, <2>3, <2>4 DEF Typed
<1>5. CASE IdleTimeout \/ UNCHANGED vars
  BY <1>5 DEF IdleTimeout, vars, Typed
<1>6. ASSUME NEW t \in AllTracks,
             \/ Subscribe(t) \/ LoopEnds(t) \/ (\E g \in Given(t) : NextGroup(t, g))
             \/ TrackEnded(t) \/ ReadFrame(t) \/ GroupDone(t) \/ FrameError(t)
             \/ Send(t) \/ SendFails(t)
      PROVE  Typed'
  <2>1. CASE Subscribe(t)
    <3>1. Len(pub[t]) \in Nat /\ born[t] \in Nat
      BY DEF Typed
    <3>2. [status |-> "live", until |-> 0,
           from |-> IF Written(t) > born[t] THEN Written(t) ELSE born[t] + 1]
            \in [status : {"none", "live", "ended"}, from : Nat, until : Nat]
      BY <3>1 DEF Written
    <3>3. UNCHANGED <<mode, publisher, read, lastSeq, item, chan, printer>>
      BY <2>1 DEF Subscribe
    <3> QED
      BY SMTT(40), <2>1, <3>1, <3>2, <3>3 DEF Typed, Subscribe, Goto
  <2>2. CASE LoopEnds(t)
    BY <2>2 DEF Typed, LoopEnds, Goto
  <2>3. CASE \E g \in Given(t) : NextGroup(t, g)
    <3>1. PICK g \in Given(t) : NextGroup(t, g)
      BY <2>3
    <3>2. g \in 1 .. Len(pub[t])
      <4>1. /\ Len(pub[t]) \in Nat /\ group[t] \in Nat /\ sub[t].from \in Nat
            /\ sub[t].until \in Nat /\ sub[t].until <= Len(pub[t])
        BY DEF Typed
      <4> QED
        BY <4>1 DEF Given, Written
    <3>3. group' \in [AllTracks -> Nat] /\ group'[t] = g
          /\ \A u \in AllTracks : u # t => group'[u] = group[u] /\ pc'[u] = pc[u]
      BY <3>1, <3>2 DEF Typed, NextGroup, Goto
    <3>4. /\ pc' \in [AllTracks -> {"wait", "groups", "frames", "send", "done"}]
          /\ pc'[t] = "frames"
      BY <3>1 DEF Typed, NextGroup, Goto
    <3>5. UNCHANGED <<mode, publisher, sub, read, lastSeq, item, chan, printer>>
      BY <3>1 DEF NextGroup
    <3> QED
      BY <3>2, <3>3, <3>4, <3>5 DEF Typed
  <2>4. CASE TrackEnded(t)
    <3>1. Len(pub[t]) \in Nat
      BY DEF Typed
    <3> QED
      BY <2>4, <3>1 DEF Typed, TrackEnded, AfterTrack, Goto, NoSub
  <2>5. CASE ReadFrame(t)
    <3> DEFINE f == pub[t][group[t]][read[t] + 1]
    <3>1. f \in Frames
      <4>1. group[t] \in 1 .. Len(pub[t]) /\ pub[t] \in Seq(Seq(Frames)) /\ read[t] \in Nat
        BY <2>5 DEF Typed, ReadFrame
      <4>2. pub[t][group[t]] \in Seq(Frames)
        BY <4>1
      <4>3. read[t] + 1 \in 1 .. Len(pub[t][group[t]])
        BY <2>5, <4>1, <4>2 DEF ReadFrame, Behind
      <4> QED
        BY <4>2, <4>3
    <3>2. HighWater(t, f) \in Int
      BY <3>1 DEF HighWater, Typed, Frames, Garbage
    <3>3. /\ UNCHANGED <<mode, pub, pos, born, sub, group, chan, printSeq, printed>>
          /\ read' = [read EXCEPT ![t] = @ + 1]
          /\ \/ UNCHANGED <<pc, item, lastSeq>>
             \/ /\ item' = [item EXCEPT ![t] = f]
                /\ lastSeq' = [lastSeq EXCEPT ![t] = HighWater(t, f)]
                /\ pc' = [pc EXCEPT ![t] = "send"] /\ pc[t] = "frames"
      BY <2>5 DEF ReadFrame, Goto
    <3> HIDE DEF f
    <3>4. /\ read' \in [AllTracks -> Nat] /\ lastSeq' \in [AllTracks -> Int]
          /\ item' \in [AllTracks -> Frames \cup {NoItem}]
      <4>1. read' \in [AllTracks -> Nat]
        BY <3>3 DEF Typed
      <4>2. item' \in [AllTracks -> Frames \cup {NoItem}]
        BY ZenonT(60), <3>1, <3>3 DEF Typed
      <4> DEFINE h == HighWater(t, f)
      <4>3. h \in Int /\ (lastSeq' = lastSeq \/ lastSeq' = [lastSeq EXCEPT ![t] = h])
        BY <3>2, <3>3
      <4> HIDE DEF h
      <4>4. lastSeq' \in [AllTracks -> Int]
        BY <4>3 DEF Typed
      <4> QED
        BY <4>1, <4>2, <4>4
    <3>5. /\ pc' \in [AllTracks -> {"wait", "groups", "frames", "send", "done"}]
          /\ \A u \in AllTracks : pc'[u] \in {"frames", "send"} => pc[u] \in {"frames", "send"}
          /\ \A u \in AllTracks : pc'[u] = "send" => item'[u] \in Frames
      <4>1. CASE UNCHANGED <<pc, item, lastSeq>>
        BY <4>1 DEF Typed
      <4>2. CASE /\ item' = [item EXCEPT ![t] = f]
                 /\ pc' = [pc EXCEPT ![t] = "send"] /\ pc[t] = "frames"
        BY <3>1, <4>2 DEF Typed
      <4> QED
        BY <3>3, <4>1, <4>2
    <3> QED
      BY <3>3, <3>4, <3>5 DEF Typed
  <2>6. CASE GroupDone(t)
    BY <2>6 DEF Typed, GroupDone, Goto
  <2>7. CASE FrameError(t)
    <3>1. Len(pub[t]) \in Nat
      BY DEF Typed
    <3> QED
      BY SMTT(40), <2>7, <3>1 DEF Typed, FrameError, AfterFrameError, Goto, NoSub
  <2>8. CASE Send(t)
    <3>1. [track |-> t, frame |-> item[t]] \in Queued
      BY <2>8 DEF Typed, Send, Queued
    <3>2. chan' \in Seq(Queued)
      BY <2>8, <3>1 DEF Typed, Send
    <3> QED
      BY <2>8, <3>2 DEF Typed, Send, Goto
  <2>9. CASE SendFails(t)
    BY <2>9 DEF Typed, SendFails, Goto
  <2> QED
    BY <1>6, <2>1, <2>2, <2>3, <2>4, <2>5, <2>6, <2>7, <2>8, <2>9
<1>7. CASE Next
  BY <1>1, <1>2, <1>3, <1>4, <1>5, <1>6, <1>7, Steps
<1> QED
  BY <1>5, <1>7

-----------------------------------------------------------------------------
(* The numbers that are compared.                                          *)
LEMMA Compared ==
  ASSUME Typed
  PROVE  /\ printSeq \in Int
         /\ \A t \in AllTracks : /\ lastSeq[t] \in Int /\ item[t] \in Int
                                /\ printed[t] \in Seq(Nat)
                                /\ \A i \in DOMAIN printed[t] : printed[t][i] \in Int
         /\ \A k \in DOMAIN chan : /\ chan[k].frame \in Int
                                  /\ chan[k].track \in AllTracks
<1>1. Frames \cup {NoItem} \subseteq Int
  BY DEF Frames, Garbage, NoItem
<1>2. \A k \in DOMAIN chan : chan[k] \in Queued
  BY DEF Typed
<1>3. \A k \in DOMAIN chan : chan[k].frame \in Int /\ chan[k].track \in AllTracks
  BY <1>1, <1>2 DEF Queued
<1>4. \A t \in AllTracks : item[t] \in Int
  BY <1>1 DEF Typed
<1>5. \A t \in AllTracks : printed[t] \in Seq(Nat)
  BY DEF Typed
<1>6. \A t \in AllTracks : \A i \in DOMAIN printed[t] : printed[t][i] \in Int
  BY <1>5
<1>7. printSeq \in Int /\ \A t \in AllTracks : lastSeq[t] \in Int
  BY DEF Typed
<1> QED
  BY <1>3, <1>4, <1>5, <1>6, <1>7

(* The event a reader sends is above all it has sent before.               *)
LEMMA ReadFrameInOrder ==
  ASSUME Typed, Typed', InOrder, NEW t \in AllTracks, ReadFrame(t)
  PROVE  InOrder'
<1>1. /\ UNCHANGED <<mode, chan, printSeq, printed>>
      /\ \/ UNCHANGED <<pc, item, lastSeq>>
         \/ \E f :
              /\ ~Seen(t, f)
              /\ item' = [item EXCEPT ![t] = f]
              /\ lastSeq' = [lastSeq EXCEPT ![t] = HighWater(t, f)]
              /\ pc' = [pc EXCEPT ![t] = "send"]
  BY DEF ReadFrame, Goto, publisher, printer
<1>2. CASE UNCHANGED <<pc, item, lastSeq>>
  BY <1>1, <1>2 DEF InOrder, PrintedOnceInOrder, OrderedByPrinter, OrderedByReader, IsQueued
<1>3. ASSUME NEW f, ~Seen(t, f), item' = [item EXCEPT ![t] = f],
             lastSeq' = [lastSeq EXCEPT ![t] = HighWater(t, f)],
             pc' = [pc EXCEPT ![t] = "send"]
      PROVE  InOrder'
  <2>1. CASE mode.dids = {}
    BY <1>1, <2>1 DEF InOrder, PrintedOnceInOrder, OrderedByPrinter
  <2>2. CASE mode.dids # {}
    <3>1. /\ Lite /\ lastSeq[t] \in Int
          /\ item'[t] = f /\ lastSeq'[t] = IF f > 0 THEN f ELSE lastSeq[t]
          /\ f > 0 => ~(f <= lastSeq[t])
          /\ \A u \in AllTracks : u # t =>
               item'[u] = item[u] /\ lastSeq'[u] = lastSeq[u] /\ pc'[u] = pc[u]
      <4>1. Lite
        BY <2>2, Scenario
      <4> QED
        BY <1>3, <4>1 DEF Typed, Seen, HighWater
    <3>2. f \in Int /\ lastSeq[t] <= lastSeq'[t] /\ (f > 0 => lastSeq[t] < f)
      <4>1. f \in Frames \cup {NoItem}
        BY <3>1 DEF Typed
      <4>2. f \in Int
        BY <4>1 DEF Frames, Garbage, NoItem
      <4> QED
        BY <3>1, <4>2
    <3>3. ASSUME NEW u \in AllTracks PROVE OrderedByReader(u)'
      <4>1. OrderedByReader(u)
        BY <2>2 DEF InOrder
      <4>2. CASE u # t
        BY <1>1, <3>1, <4>1, <4>2 DEF OrderedByReader, IsQueued
      <4>3. CASE u = t
        <5>1. /\ \A i \in DOMAIN printed[t] : printed[t][i] \in Int
              /\ \A k \in DOMAIN chan : chan[k].frame \in Int
          BY Compared
        <5>2. /\ \A i \in DOMAIN printed[t] : printed[t][i] <= lastSeq[t]
              /\ \A k \in DOMAIN chan : IsQueued(t, k) => chan[k].frame <= lastSeq[t]
          BY <4>1, <4>3 DEF OrderedByReader
        <5>3. /\ \A i \in DOMAIN printed[t] : printed[t][i] <= lastSeq'[t]
              /\ \A k \in DOMAIN chan : IsQueued(t, k) => chan[k].frame <= lastSeq'[t]
          BY <3>1, <3>2, <5>1, <5>2
        <5>4. f > 0 => /\ f = lastSeq'[t]
                       /\ \A i \in DOMAIN printed[t] : printed[t][i] < f
                       /\ \A k \in DOMAIN chan : IsQueued(t, k) => chan[k].frame < f
          BY <3>1, <3>2, <5>1, <5>2
        <5> QED
          BY <1>1, <3>1, <4>1, <4>3, <5>3, <5>4 DEF OrderedByReader, IsQueued
      <4> QED
        BY <4>2, <4>3
    <3> QED
      BY <1>1, <2>2, <3>3 DEF InOrder, PrintedOnceInOrder
  <2> QED
    BY <2>1, <2>2
<1> QED
  BY <1>1, <1>2, <1>3

(* The channel keeps that order.                                           *)
LEMMA SendInOrder ==
  ASSUME Typed, InOrder, NEW t \in AllTracks, Send(t)
  PROVE  InOrder'
<1>1. /\ UNCHANGED <<mode, printSeq, printed, lastSeq>> /\ pc[t] = "send"
      /\ chan' = Append(chan, [track |-> t, frame |-> item[t]])
      /\ pc' = [pc EXCEPT ![t] = "frames"]
      /\ item' = [item EXCEPT ![t] = NoItem]
  BY DEF Send, Goto, publisher, printer
<1> DEFINE q == [track |-> t, frame |-> item[t]]
           n == Len(chan) + 1
<1>2. /\ Len(chan) \in Nat /\ DOMAIN chan = 1 .. Len(chan) /\ DOMAIN chan' = 1 .. n
      /\ \A k \in DOMAIN chan : chan'[k] = chan[k]
      /\ chan'[n] = q /\ q.track = t /\ q.frame = item[t]
  BY <1>1 DEF Typed
<1>3. CASE mode.dids = {}
  BY <1>1, <1>3 DEF InOrder, PrintedOnceInOrder, OrderedByPrinter
<1>4. CASE mode.dids # {}
  <2>1. ASSUME NEW u \in AllTracks PROVE OrderedByReader(u)'
    <3>1. OrderedByReader(u)
      BY <1>4 DEF InOrder
    <3>2. \A k \in DOMAIN chan' : IsQueued(u, k)' =>
            \/ IsQueued(u, k) /\ chan'[k] = chan[k] /\ k < n
            \/ k = n /\ u = t /\ item[t] > 0 /\ chan'[k].frame = item[t]
      BY <1>2 DEF IsQueued
    <3>3. ~(pc'[u] = "send" /\ item'[u] > 0) \/ (u # t /\ pc'[u] = pc[u] /\ item'[u] = item[u])
      BY <1>1 DEF Typed
    <3>4. ASSUME NEW k \in DOMAIN chan', IsQueued(u, k)'
          PROVE  /\ chan'[k].frame <= lastSeq[u]
                 /\ \A i \in DOMAIN printed[u] : printed[u][i] < chan'[k].frame
                 /\ \A j \in DOMAIN chan' : IsQueued(u, j)' /\ j < k =>
                      chan'[j].frame < chan'[k].frame
      <4>1. CASE IsQueued(u, k) /\ chan'[k] = chan[k] /\ k < n
        <5>1. k \in DOMAIN chan /\ k \in Nat
          BY <1>2, <4>1 DEF IsQueued
        <5>2. \A j \in DOMAIN chan' : IsQueued(u, j)' /\ j < k =>
                IsQueued(u, j) /\ chan'[j] = chan[j] /\ j \in DOMAIN chan
          BY <1>2, <3>2, <4>1, <5>1 DEF IsQueued
        <5> QED
          BY <3>1, <4>1, <5>1, <5>2 DEF OrderedByReader
      <4>2. CASE k = n /\ u = t /\ item[t] > 0 /\ chan'[k].frame = item[t]
        <5>1. /\ item[t] = lastSeq[t]
              /\ \A i \in DOMAIN printed[t] : printed[t][i] < item[t]
              /\ \A j \in DOMAIN chan : IsQueued(t, j) => chan[j].frame < item[t]
          BY <1>1, <3>1, <4>2 DEF OrderedByReader
        <5>2. item[t] \in Int /\ lastSeq[t] \in Int
          BY Compared
        <5>3. \A j \in DOMAIN chan' : IsQueued(t, j)' /\ j < n =>
                IsQueued(t, j) /\ chan'[j] = chan[j] /\ j \in DOMAIN chan
          BY <1>2, <3>2, <4>2 DEF IsQueued
        <5> QED
          BY <4>2, <5>1, <5>2, <5>3
      <4> QED
        BY <3>2, <3>4, <4>1, <4>2
    <3>5. /\ \A i \in DOMAIN printed[u] : printed[u][i] <= lastSeq[u]
          /\ pc'[u] = "send" /\ item'[u] > 0 =>
               /\ item'[u] = lastSeq[u]
               /\ \A i \in DOMAIN printed[u] : printed[u][i] < item'[u]
               /\ \A k \in DOMAIN chan' : IsQueued(u, k)' => chan'[k].frame < item'[u]
      <4>1. u # t => \A k \in DOMAIN chan' : IsQueued(u, k)' =>
                      IsQueued(u, k) /\ chan'[k] = chan[k] /\ k \in DOMAIN chan
        BY <3>2 DEF IsQueued
      <4> QED
        BY <3>1, <3>3, <4>1 DEF OrderedByReader
    <3> QED
      BY <1>1, <3>4, <3>5 DEF OrderedByReader
  <2> QED
    BY <1>1, <1>4, <2>1 DEF InOrder, PrintedOnceInOrder
<1> QED
  BY <1>3, <1>4

(* What is printed is above all that was printed of its track.             *)
LEMMA PrintInOrder ==
  ASSUME Typed, InOrder, PrintEvent
  PROVE  InOrder'
<1> SUFFICES ASSUME NEW t, NEW f, t = Head(chan).track, f = Head(chan).frame
             PROVE  InOrder'
  OBVIOUS
<1>1. /\ chan # <<>> /\ chan' = Tail(chan) /\ Head(chan) \in Queued /\ Head(chan) = chan[1]
      /\ UNCHANGED <<mode, pc, item, lastSeq>>
  BY DEF PrintEvent, Typed, readers
<1>2. f \in Int /\ t \in AllTracks /\ printSeq \in Int
  <2>1. 1 \in DOMAIN chan
    BY <1>1 DEF Typed
  <2> QED
    BY <1>1, <2>1, Compared
<1>3. /\ DOMAIN chan = 1 .. Len(chan) /\ Len(chan) \in Nat /\ 1 \in DOMAIN chan
      /\ \A k \in DOMAIN chan' : /\ k \in Nat /\ k > 0 /\ k + 1 \in DOMAIN chan
                                /\ chan'[k] = chan[k + 1]
  BY <1>1 DEF Typed
<1>4. \/ UNCHANGED <<printSeq, printed>>
      \/ /\ Dedups(f) => f > printSeq
         /\ printSeq' = IF Dedups(f) THEN f ELSE printSeq
         /\ f > 0
         /\ printed' = [printed EXCEPT ![t] = Append(@, f)]
      \/ ~(f > 0) /\ UNCHANGED <<printSeq, printed>>
  <2>1. CASE ~Printable(f)
    BY <2>1 DEF PrintEvent, printer
  <2>2. CASE Printable(f)
    <3>1. /\ Dedups(f) => f > printSeq
          /\ printSeq' = IF Dedups(f) THEN f ELSE printSeq
          /\ printed' = [printed EXCEPT ![t] = IF f > 0 THEN Append(@, f) ELSE @]
      BY <2>2 DEF PrintEvent, Printable
    <3>2. CASE f > 0
      BY <3>1, <3>2
    <3>3. CASE ~(f > 0)
      <4>1. printed' = [printed EXCEPT ![t] = @]
        BY <3>1, <3>3
      <4> QED
        BY <1>2, <3>1, <3>3, <4>1 DEF Dedups, Typed
    <3> QED
      BY <3>2, <3>3
  <2> QED
    BY <2>1, <2>2
<1>5. ASSUME NEW u \in AllTracks, NEW k \in DOMAIN chan', IsQueued(u, k)'
      PROVE  IsQueued(u, k + 1) /\ k + 1 \in DOMAIN chan /\ chan'[k] = chan[k + 1] /\ k + 1 > 1
             /\ k \in Nat
  BY <1>3, <1>5 DEF IsQueued
<1>6. CASE UNCHANGED <<printSeq, printed>>
  <2>1. CASE mode.dids = {}
    BY <1>1, <1>6, <2>1 DEF InOrder, PrintedOnceInOrder, OrderedByPrinter
  <2>2. ASSUME mode.dids # {}, NEW u \in AllTracks PROVE OrderedByReader(u)'
    <3>1. OrderedByReader(u)
      BY <2>2 DEF InOrder
    <3>2. ASSUME NEW k \in DOMAIN chan', IsQueued(u, k)',
                 NEW j \in DOMAIN chan', IsQueued(u, j)', j < k
          PROVE  chan'[j].frame < chan'[k].frame
      <4>1. j + 1 < k + 1
        BY <1>5, <3>2
      <4> QED
        BY <1>5, <3>1, <3>2, <4>1 DEF OrderedByReader
    <3> QED
      BY <1>1, <1>5, <1>6, <3>1, <3>2 DEF OrderedByReader
  <2> QED
    BY <1>1, <1>6, <2>1, <2>2 DEF InOrder, PrintedOnceInOrder
<1>7. CASE /\ Dedups(f) => f > printSeq
           /\ printSeq' = IF Dedups(f) THEN f ELSE printSeq
           /\ f > 0
           /\ printed' = [printed EXCEPT ![t] = Append(@, f)]
  <2>1. /\ printed \in [AllTracks -> Seq(Nat)] /\ printed[t] \in Seq(Nat)
        /\ \A u \in AllTracks : \A i \in DOMAIN printed[u] : printed[u][i] \in Int
    BY <1>2, Compared DEF Typed
  <2>2. /\ \A u \in AllTracks : u # t => printed'[u] = printed[u]
        /\ printed'[t] = Append(printed[t], f)
    BY <1>2, <1>7, <2>1
  <2>3. /\ Len(printed[t]) \in Nat /\ DOMAIN printed[t] = 1 .. Len(printed[t])
        /\ DOMAIN printed'[t] = 1 .. (Len(printed[t]) + 1)
        /\ \A i \in DOMAIN printed[t] : printed'[t][i] = printed[t][i]
        /\ printed'[t][Len(printed[t]) + 1] = f
    BY <2>1, <2>2
  <2>4. \A i \in DOMAIN printed[t] : printed[t][i] < f
    <3>1. CASE mode.dids = {}
      BY <1>2, <1>7, <2>1, <3>1 DEF InOrder, OrderedByPrinter, Dedups
    <3>2. CASE mode.dids # {}
      <4>1. OrderedByReader(t)
        BY <1>2, <3>2 DEF InOrder
      <4>2. IsQueued(t, 1) /\ chan[1].frame = f
        BY <1>1, <1>3, <1>7 DEF IsQueued
      <4> QED
        BY <1>3, <4>1, <4>2 DEF OrderedByReader
    <3> QED
      BY <3>1, <3>2
  <2>8. ASSUME NEW i \in DOMAIN printed'[t]
        PROVE  printed'[t][i] \in Int /\ printed'[t][i] <= f
    <3>1. CASE i = Len(printed[t]) + 1
      BY <1>2, <2>3, <3>1
    <3>2. CASE i # Len(printed[t]) + 1
      <4>1. i \in DOMAIN printed[t]
        BY <2>3, <3>2
      <4>2. printed[t][i] \in Int /\ printed[t][i] < f
        BY <1>2, <2>1, <2>4, <4>1
      <4> QED
        BY <1>2, <2>3, <4>1, <4>2
    <3> QED
      BY <3>1, <3>2
  <2>5. PrintedOnceInOrder'
    <3> SUFFICES ASSUME NEW u \in AllTracks,
                        NEW i \in DOMAIN printed'[u], NEW j \in DOMAIN printed'[u], i < j
                 PROVE  printed'[u][i] < printed'[u][j]
      BY DEF PrintedOnceInOrder
    <3>1. CASE u # t
      BY <2>2, <3>1 DEF InOrder, PrintedOnceInOrder
    <3>2. CASE u = t /\ j = Len(printed[t]) + 1
      BY <2>3, <2>4, <3>2
    <3>3. CASE u = t /\ j # Len(printed[t]) + 1
      <4>1. i \in DOMAIN printed[t] /\ j \in DOMAIN printed[t]
        BY <2>3, <3>3
      <4> QED
        BY <2>3, <3>3, <4>1 DEF InOrder, PrintedOnceInOrder
    <3> QED
      BY <3>1, <3>2, <3>3
  <2>6. CASE mode.dids = {}
    <3>1. printSeq' = f /\ f > printSeq
      BY <1>7, <2>6 DEF Dedups
    <3>2. ASSUME NEW u \in AllTracks, NEW i \in DOMAIN printed'[u]
          PROVE  printed'[u][i] <= f
      <4>1. CASE u # t
        <5>1. printed[u][i] <= printSeq /\ printed[u][i] \in Int
          BY <2>1, <2>2, <2>6, <4>1 DEF InOrder, OrderedByPrinter
        <5> QED
          BY <1>2, <2>2, <3>1, <4>1, <5>1
      <4>2. CASE u = t
        BY <2>8, <4>2
      <4> QED
        BY <4>1, <4>2
    <3> QED
      BY <1>1, <2>5, <2>6, <3>1, <3>2 DEF InOrder, OrderedByPrinter
  <2>7. CASE mode.dids # {}
    <3>1. ASSUME NEW u \in AllTracks PROVE OrderedByReader(u)'
      <4>1. OrderedByReader(u)
        BY <2>7 DEF InOrder
      <4>2. ASSUME NEW k \in DOMAIN chan', IsQueued(u, k)',
                   NEW j \in DOMAIN chan', IsQueued(u, j)', j < k
            PROVE  chan'[j].frame < chan'[k].frame
        <5>1. j + 1 < k + 1
          BY <1>5, <4>2
        <5> QED
          BY <1>5, <4>1, <4>2, <5>1 DEF OrderedByReader
      <4>3. CASE u # t
        BY <1>1, <1>5, <2>2, <4>1, <4>2, <4>3 DEF OrderedByReader
      <4>4. CASE u = t
        <5>1. IsQueued(t, 1) /\ chan[1].frame = f
          BY <1>1, <1>3, <1>7 DEF IsQueued
        <5>2. f <= lastSeq[t]
          BY <1>3, <4>1, <4>4, <5>1 DEF OrderedByReader
        <5>3. \A k \in DOMAIN chan' : IsQueued(t, k)' =>
                f < chan'[k].frame /\ chan'[k].frame <= lastSeq[t]
          BY <1>2, <1>3, <1>5, <4>1, <4>4, <5>1 DEF OrderedByReader
        <5>4. pc[t] = "send" /\ item[t] > 0 => f < item[t]
          BY <1>3, <4>1, <4>4, <5>1 DEF OrderedByReader
        <5>5. \A i \in DOMAIN printed'[t] : printed'[t][i] \in Int /\ printed'[t][i] <= f
          BY <2>8
        <5>6. /\ lastSeq[t] \in Int /\ item[t] \in Int
              /\ \A k \in DOMAIN chan' : IsQueued(t, k)' => chan'[k].frame \in Int
          <6>1. lastSeq[t] \in Int /\ item[t] \in Int
            BY <1>2, Compared
          <6>2. \A k \in DOMAIN chan : chan[k].frame \in Int
            BY Compared
          <6> QED
            BY <1>2, <1>5, <6>1, <6>2
        <5>7. /\ \A i \in DOMAIN printed'[t] : printed'[t][i] <= lastSeq[t]
              /\ \A k \in DOMAIN chan' : IsQueued(t, k)' =>
                   \A i \in DOMAIN printed'[t] : printed'[t][i] < chan'[k].frame
              /\ pc[t] = "send" /\ item[t] > 0 =>
                   \A i \in DOMAIN printed'[t] : printed'[t][i] < item[t]
          BY <1>2, <5>2, <5>3, <5>4, <5>5, <5>6
        <5>8. pc[t] = "send" /\ item[t] > 0 =>
                /\ item[t] = lastSeq[t]
                /\ \A k \in DOMAIN chan' : IsQueued(t, k)' => chan'[k].frame < item[t]
          BY <1>2, <1>5, <4>1, <4>4 DEF OrderedByReader
        <5> QED
          BY <1>1, <4>2, <4>4, <5>3, <5>7, <5>8 DEF OrderedByReader
      <4> QED
        BY <4>3, <4>4
    <3> QED
      BY <1>1, <2>5, <2>7, <3>1 DEF InOrder
  <2> QED
    BY <2>6, <2>7
<1> QED
  BY <1>4, <1>6, <1>7

(* All other steps leave what is printed and on its way alone.             *)
LEMMA InOrderNext == Typed /\ InOrder /\ [Next]_vars => InOrder'
<1> SUFFICES ASSUME Typed, InOrder, [Next]_vars PROVE InOrder'
  OBVIOUS
<1> USE DEF publisher, readers, printer
<1>1. ASSUME UNCHANGED <<mode, chan, printSeq, printed, lastSeq>>,
             \A u \in AllTracks : pc'[u] = "send" => pc[u] = "send" /\ item'[u] = item[u]
      PROVE  InOrder'
  BY <1>1 DEF InOrder, PrintedOnceInOrder, OrderedByPrinter, OrderedByReader, IsQueued
<1>2. CASE Publish \/ PublisherGone \/ PublisherReturns \/ IdleTimeout \/ UNCHANGED vars
  <2>1. UNCHANGED <<mode, chan, printSeq, printed, lastSeq, pc, item>>
    BY <1>2 DEF Publish, PublisherGone, PublisherReturns, IdleTimeout, vars
  <2> QED
    BY <1>1, <2>1
<1>3. ASSUME NEW t \in AllTracks,
             \/ Subscribe(t) \/ LoopEnds(t) \/ (\E g \in Given(t) : NextGroup(t, g))
             \/ TrackEnded(t) \/ GroupDone(t) \/ FrameError(t) \/ RelayEnds(t)
             \/ SendFails(t)
      PROVE  InOrder'
  <2>1. /\ UNCHANGED <<mode, chan, printSeq, printed, lastSeq>>
        /\ \/ UNCHANGED <<pc, item>>
           \/ \E l \in {"groups", "done", "frames", "wait"} :
                /\ pc' = [pc EXCEPT ![t] = l]
                /\ item' = item \/ item' = [item EXCEPT ![t] = NoItem]
    BY <1>3 DEF Subscribe, LoopEnds, NextGroup, TrackEnded, AfterTrack, GroupDone, FrameError,
       AfterFrameError, RelayEnds, SendFails, Goto
  <2>2. \A u \in AllTracks : pc'[u] = "send" => pc[u] = "send" /\ item'[u] = item[u]
    BY <2>1 DEF Typed
  <2> QED
    BY <1>1, <2>1, <2>2
<1>4. Typed'
  BY TypedNext
<1> QED
  BY <1>2, <1>3, <1>4, Steps, ReadFrameInOrder, SendInOrder, PrintInOrder

(* Events are printed once and in order, whatever the publisher writes     *)
(* again, however often a reader subscribes, and in whatever order groups  *)
(* arrive.                                                                 *)
THEOREM OnceInOrder == Spec => []PrintedOnceInOrder
<1>1. Init => Typed /\ InOrder
  <2> SUFFICES ASSUME Init PROVE Typed /\ InOrder
    OBVIOUS
  <2>1. Typed
    BY DEF Init, Typed, NoSub, NoItem, Oldest
  <2>2. InOrder
    BY DEF Init, InOrder, PrintedOnceInOrder, OrderedByPrinter, OrderedByReader, IsQueued
  <2> QED
    BY <2>1, <2>2
<1>2. InOrder => PrintedOnceInOrder
  BY DEF InOrder
<1> QED
  BY <1>1, <1>2, TypedNext, InOrderNext, PTL DEF Spec

-----------------------------------------------------------------------------
(* Where the events that are not printed went.                             *)

(* The events the script has for a track.                                  *)
Scripted(t) ==
  {s \in Nat \ {0} :
     \E p \in DOMAIN mode.script : mode.script[p].track = t /\ mode.script[p].frame = s}

(* A copy of s stands before the i-th frame of group g.                    *)
Before(t, s, g, i) ==
  \E h \in DOMAIN pub[t] : \E j \in DOMAIN pub[t][h] :
    pub[t][h][j] = s /\ (h < g \/ (h = g /\ j < i))

(* What the publisher has passed in its script it has written, so that     *)
(* every earlier event has a copy before each of a later one, in whichever *)
(* life that was written.                                                  *)
WrittenInOrder(t) ==
  /\ \A p \in DOMAIN mode.script :
       p < pos /\ mode.script[p].track = t /\ mode.script[p].frame > 0 =>
         \E g \in DOMAIN pub[t] : \E i \in DOMAIN pub[t][g] :
           pub[t][g][i] = mode.script[p].frame
  /\ \A g \in DOMAIN pub[t] : \A i \in DOMAIN pub[t][g] :
       pub[t][g][i] > 0 =>
         /\ pub[t][g][i] \in Scripted(t)
         /\ \A s \in Scripted(t) : s < pub[t][g][i] => Before(t, s, g, i)

(* The reader is given this group no more.                                 *)
Closed(t, h) ==
  /\ h < Len(pub[t])
  /\ pc[t] \in {"groups", "frames", "send"} => h < group[t] \/ h < sub[t].from

(* A copy of the event was in a group the reader has left behind without   *)
(* reading it to its end.                                                  *)
Skipped(t, s) ==
  \E h \in DOMAIN pub[t] :
    h \notin whole[t] /\ Closed(t, h) /\ \E i \in DOMAIN pub[t][h] : pub[t][h][i] = s

Settled(t, s) == Printed(t, s) \/ Skipped(t, s)

(* One of the first n frames in the channel is the event.                  *)
Ahead(t, s, n) == \E j \in DOMAIN chan : j <= n /\ chan[j].track = t /\ chan[j].frame = s

Sending(t, s) == pc[t] = "send" /\ item[t] = s

(* What became of an event that went through the reader.                   *)
Known(t, s) == Settled(t, s) \/ Ahead(t, s, Len(chan)) \/ Sending(t, s)

(* The reader has read the i-th frame of group g.                          *)
HasRead(t, g, i) ==
  \/ g \in whole[t]
  \/ (pc[t] \in {"frames", "send"} /\ g = group[t] /\ i <= read[t])

Base(t) ==
  /\ WrittenInOrder(t)
  /\ whole[t] \subseteq DOMAIN pub[t]
  /\ \A g \in DOMAIN pub[t] : Len(pub[t][g]) <= GroupSize
  /\ pc[t] \in {"frames", "send"} => sub[t].from <= group[t]

(* While the printer runs: an event below one that is queued is printed,   *)
(* skipped or queued before it, and so on up the reader.                   *)
Tracked(t) ==
  /\ \A k \in DOMAIN chan : chan[k].track = t =>
       /\ t \in Tracks /\ (chan[k].frame > 0 => chan[k].frame \in Scripted(t))
       /\ \A s \in Scripted(t) : s < chan[k].frame => Settled(t, s) \/ Ahead(t, s, k - 1)
  /\ pc[t] = "send" =>
       /\ t \in Tracks /\ (item[t] > 0 => item[t] \in Scripted(t))
       /\ \A s \in Scripted(t) : s < item[t] => Settled(t, s) \/ Ahead(t, s, Len(chan))
  /\ \A g \in DOMAIN pub[t] : \A i \in DOMAIN pub[t][g] :
       pub[t][g][i] > 0 /\ HasRead(t, g, i) => Known(t, pub[t][g][i])
  /\ Lite => \A s \in Scripted(t) : s <= lastSeq[t] => Known(t, s)
  /\ pc[t] \in {"wait", "groups"} => read[t] = 0
  /\ pc[t] \in {"frames", "send"} => read[t] <= Len(pub[t][group[t]])
  /\ \A g \in whole[t] : Len(pub[t][g]) = GroupSize

(* The printer's mark is the last event of its one track.                  *)
MarkPrinted ==
  mode.dids = {} /\ printSeq > 0 => Printed(Main, printSeq)

(* Nothing is printed above an event that is not accounted for.            *)
NoneBelow(t) ==
  \A i \in DOMAIN printed[t] : \A s \in Scripted(t) : s < printed[t][i] => Settled(t, s)

Accounted ==
  /\ whole \in [AllTracks -> SUBSET Nat]
  /\ MarkPrinted
  /\ \A t \in AllTracks : Base(t) /\ NoneBelow(t) /\ (printing => Tracked(t))

-----------------------------------------------------------------------------
(* The shapes of what the readers read.                                    *)
LEMMA Shapes ==
  ASSUME Typed, NEW t \in AllTracks
  PROVE  /\ pub[t] \in Seq(Seq(Frames)) /\ Len(pub[t]) \in Nat
         /\ DOMAIN pub[t] = 1 .. Len(pub[t])
         /\ \A g \in DOMAIN pub[t] :
              /\ pub[t][g] \in Seq(Frames) /\ Len(pub[t][g]) \in Nat
              /\ DOMAIN pub[t][g] = 1 .. Len(pub[t][g])
              /\ \A i \in DOMAIN pub[t][g] : pub[t][g][i] \in Frames /\ pub[t][g][i] \in Int
         /\ group[t] \in Nat /\ read[t] \in Nat /\ sub[t].from \in Nat /\ born[t] \in Nat
         /\ GroupSize \in Nat \ {0}
<1>1. pub[t] \in Seq(Seq(Frames)) /\ Len(pub[t]) \in Nat /\ DOMAIN pub[t] = 1 .. Len(pub[t])
  BY DEF Typed
<1>2. ASSUME NEW g \in DOMAIN pub[t]
      PROVE  /\ pub[t][g] \in Seq(Frames) /\ Len(pub[t][g]) \in Nat
             /\ DOMAIN pub[t][g] = 1 .. Len(pub[t][g])
             /\ \A i \in DOMAIN pub[t][g] : pub[t][g][i] \in Frames /\ pub[t][g][i] \in Int
  <2>1. pub[t][g] \in Seq(Frames)
    BY <1>1, <1>2, Element
  <2>2. Frames \subseteq Int
    BY DEF Frames, Garbage
  <2> QED
    BY <2>1, <2>2, Element
<1>3. group[t] \in Nat /\ read[t] \in Nat /\ sub[t].from \in Nat /\ born[t] \in Nat
  BY DEF Typed
<1> QED
  BY <1>1, <1>2, <1>3, ReaderAssumption

(* A script's events grow.                                                 *)
LEMMA ScriptGrows ==
  ASSUME Typed
  PROVE  /\ Len(mode.script) \in Nat /\ DOMAIN mode.script = 1 .. Len(mode.script)
         /\ \A p \in DOMAIN mode.script :
              mode.script[p].track \in AllTracks /\ mode.script[p].frame \in Frames
         /\ \A p, q \in DOMAIN mode.script :
              p < q /\ mode.script[q].frame > 0 => mode.script[p].frame < mode.script[q].frame
<1>1. mode.script \in Seq([track : AllTracks, frame : Frames])
  BY Scenario
<1>2. Increasing(mode.script)
  BY ReaderAssumption DEF Typed
<1> DEFINE S == [track : AllTracks, frame : Frames]
           m == mode.script
<1>3. Len(m) \in Nat /\ DOMAIN m = 1 .. Len(m) /\ \A p \in DOMAIN m : m[p] \in S
  <2>1. m \in Seq(S)
    BY <1>1
  <2> HIDE DEF S, m
  <2> QED
    BY <2>1, Element
<1>4. \A p \in DOMAIN m : m[p].track \in AllTracks /\ m[p].frame \in Frames
  BY <1>3
<1> QED
  BY <1>2, <1>3, <1>4 DEF Increasing

(* One frame is added, at the end.                                         *)
Placed(t, f, G, I) ==
  /\ pub'[t][G][I] = f /\ I <= GroupSize
  /\ G = Len(pub'[t]) /\ I = Len(pub'[t][G])
  /\ Len(pub[t]) <= G /\ G <= Len(pub[t]) + 1
  /\ G \in DOMAIN pub[t] => I = Len(pub[t][G]) + 1
  /\ \A h \in DOMAIN pub[t] : h # G => pub'[t][h] = pub[t][h]
  /\ \A h \in DOMAIN pub[t] : \A i \in DOMAIN pub[t][h] :
       i \in DOMAIN pub'[t][h] /\ pub'[t][h][i] = pub[t][h][i]
  /\ \A h \in DOMAIN pub'[t] : \A i \in DOMAIN pub'[t][h] :
       \/ h = G /\ i = I
       \/ h \in DOMAIN pub[t] /\ i \in DOMAIN pub[t][h]

LEMMA PutShape ==
  ASSUME Typed, Typed', NEW t \in AllTracks, NEW f \in Frames, Put(t, f),
         \A g \in DOMAIN pub[t] : Len(pub[t][g]) <= GroupSize
  PROVE  \E G \in DOMAIN pub'[t] : \E I \in DOMAIN pub'[t][G] :
           Placed(t, f, G, I)
<1> DEFINE n == Len(pub[t])
<1>1. /\ pub \in [AllTracks -> Seq(Seq(Frames))] /\ pub[t] \in Seq(Seq(Frames))
      /\ n \in Nat /\ DOMAIN pub[t] = 1 .. n /\ born[t] \in Nat /\ GroupSize \in Nat \ {0}
      /\ \A g \in DOMAIN pub[t] : /\ pub[t][g] \in Seq(Frames) /\ Len(pub[t][g]) \in Nat
                                 /\ DOMAIN pub[t][g] = 1 .. Len(pub[t][g])
  BY Shapes DEF Typed
<1>2. CASE Written(t) > born[t] /\ Len(pub[t][Written(t)]) < GroupSize
  <2>1. n \in DOMAIN pub[t] /\ Written(t) = n
    BY <1>1, <1>2 DEF Written
  <2> DEFINE new == Append(pub[t][n], f)
             ext == [pub[t] EXCEPT ![n] = new]
             I   == Len(pub[t][n]) + 1
  <2>2. /\ new \in Seq(Frames) /\ Len(new) = I /\ DOMAIN new = 1 .. I /\ new[I] = f
        /\ \A i \in 1 .. Len(pub[t][n]) : new[i] = pub[t][n][i]
    BY <1>1, <2>1
  <2>3. /\ DOMAIN ext = 1 .. n /\ ext[n] = new /\ Len(ext) = n
        /\ \A h \in 1 .. n : h # n => ext[h] = pub[t][h]
    <3> HIDE DEF new
    <3> QED
      BY <1>1, <2>1, <2>2
  <2>4. pub' = [pub EXCEPT ![t] = ext]
    BY <1>1, <1>2, <2>1 DEF Put
  <2> HIDE DEF ext, new
  <2>5. pub'[t] = ext
    BY <1>1, <2>4
  <2>6. Len(pub[t][n]) \in Nat /\ I \in 1 .. I /\ I <= GroupSize /\ I \in Nat
    BY <1>1, <1>2, <2>1
  <2>7. n \in DOMAIN pub'[t] /\ I \in DOMAIN pub'[t][n] /\ pub'[t][n][I] = f
        /\ n = Len(pub'[t]) /\ I = Len(pub'[t][n])
    BY <1>1, <2>1, <2>2, <2>3, <2>5, <2>6
  <2>12. /\ DOMAIN pub[t][n] = 1 .. Len(pub[t][n])
         /\ \A i \in DOMAIN new : i = I \/ i \in 1 .. Len(pub[t][n])
         /\ \A i \in 1 .. Len(pub[t][n]) : i \in DOMAIN new
    BY <1>1, <2>1, <2>2, <2>6
  <2>13. /\ \A h \in 1 .. n : h # n => pub'[t][h] = pub[t][h]
         /\ pub'[t][n] = new /\ DOMAIN pub'[t] = 1 .. n
    BY <2>3, <2>5
  <2>14. \A h \in DOMAIN pub[t] : h = n \/ pub'[t][h] = pub[t][h]
    BY <1>1, <2>13
  <2>8. ASSUME NEW h \in DOMAIN pub[t], NEW i \in DOMAIN pub[t][h]
        PROVE  i \in DOMAIN pub'[t][h] /\ pub'[t][h][i] = pub[t][h][i]
    BY <2>2, <2>8, <2>12, <2>13, <2>14
  <2>9. ASSUME NEW h \in DOMAIN pub'[t], NEW i \in DOMAIN pub'[t][h]
        PROVE  \/ h = n /\ i = I
               \/ h \in DOMAIN pub[t] /\ i \in DOMAIN pub[t][h]
    BY <1>1, <2>1, <2>9, <2>12, <2>13
  <2>10. \A h \in DOMAIN pub[t] : h # n => pub'[t][h] = pub[t][h]
    BY <1>1, <2>3, <2>5
  <2> HIDE DEF I
  <2>11. /\ n \in DOMAIN pub'[t] /\ I \in DOMAIN pub'[t][n] /\ pub'[t][n][I] = f
         /\ I <= GroupSize /\ n = Len(pub'[t]) /\ I = Len(pub'[t][n])
         /\ n <= n + 1 /\ n <= n /\ I = Len(pub[t][n]) + 1
    BY <1>1, <2>6, <2>7 DEF I
  <2> QED
    BY <2>8, <2>9, <2>10, <2>11 DEF Placed
<1>3. CASE ~(Written(t) > born[t] /\ Len(pub[t][Written(t)]) < GroupSize)
  <2> DEFINE ext == Append(pub[t], <<f>>)
  <2>1. /\ DOMAIN ext = 1 .. n + 1 /\ ext[n + 1] = <<f>> /\ Len(ext) = n + 1
        /\ \A h \in 1 .. n : ext[h] = pub[t][h]
    BY <1>1
  <2>2. pub' = [pub EXCEPT ![t] = ext]
    BY <1>3 DEF Put
  <2> HIDE DEF ext
  <2>3. pub'[t] = ext
    BY <1>1, <2>2
  <2>4. Len(<<f>>) = 1 /\ DOMAIN <<f>> = {1} /\ <<f>>[1] = f
    OBVIOUS
  <2>8. /\ 1 <= GroupSize /\ n <= n + 1 /\ n + 1 <= n + 1 /\ n + 1 \notin DOMAIN pub[t]
        /\ n + 1 \in DOMAIN pub'[t] /\ n + 1 = Len(pub'[t]) /\ pub'[t][n + 1] = <<f>>
    BY <1>1, <2>1, <2>3
  <2>5. /\ n + 1 \in DOMAIN pub'[t] /\ 1 \in DOMAIN pub'[t][n + 1] /\ pub'[t][n + 1][1] = f
        /\ 1 <= GroupSize /\ n + 1 = Len(pub'[t]) /\ 1 = Len(pub'[t][n + 1])
        /\ n <= n + 1 /\ n + 1 <= n + 1 /\ n + 1 \notin DOMAIN pub[t]
    BY <2>4, <2>8
  <2>6. \A h \in DOMAIN pub[t] : pub'[t][h] = pub[t][h]
    BY <1>1, <2>1, <2>3
  <2>7. \A h \in DOMAIN pub'[t] : \A i \in DOMAIN pub'[t][h] :
          \/ h = n + 1 /\ i = 1
          \/ h \in DOMAIN pub[t] /\ i \in DOMAIN pub[t][h]
    BY <1>1, <2>1, <2>3, <2>4
  <2>9. Placed(t, f, n + 1, 1)
    <3>1. /\ pub'[t][n + 1][1] = f /\ 1 <= GroupSize
          /\ n + 1 = Len(pub'[t]) /\ 1 = Len(pub'[t][n + 1])
          /\ n <= n + 1 /\ n + 1 <= n + 1
          /\ n + 1 \in DOMAIN pub[t] => 1 = Len(pub[t][n + 1]) + 1
      BY <2>5
    <3>2. /\ \A h \in DOMAIN pub[t] : h # n + 1 => pub'[t][h] = pub[t][h]
          /\ \A h \in DOMAIN pub[t] : \A i \in DOMAIN pub[t][h] :
               i \in DOMAIN pub'[t][h] /\ pub'[t][h][i] = pub[t][h][i]
      BY <2>6
    <3> QED
      BY ZenonT(60), <2>7, <3>1, <3>2 DEF Placed
  <2> QED
    BY <2>5, <2>9
<1> QED
  BY <1>2, <1>3

(* What the publisher has written stays written.                           *)
Grown(t) ==
  /\ DOMAIN pub[t] \subseteq DOMAIN pub'[t]
  /\ \A h \in DOMAIN pub[t] : \A i \in DOMAIN pub[t][h] :
       i \in DOMAIN pub'[t][h] /\ pub'[t][h][i] = pub[t][h][i]

(* What was skipped is skipped for good.                                   *)
LEMMA SkippedStays ==
  ASSUME Typed, NEW t \in AllTracks, Base(t), Grown(t),
         \A h \in whole'[t] : h \in whole[t] \/ (h = group[t] /\ pc[t] = "frames"),
         \A h \in DOMAIN pub[t] : Closed(t, h) => Closed(t, h)',
         NEW s, Skipped(t, s)
  PROVE  Skipped(t, s)'
<1>1. PICK h \in DOMAIN pub[t] :
        /\ h \notin whole[t] /\ Closed(t, h)
        /\ \E i \in DOMAIN pub[t][h] : pub[t][h][i] = s
  BY DEF Skipped
<1>2. h \notin whole'[t]
  <2> SUFFICES ASSUME pc[t] = "frames" PROVE h # group[t]
    BY <1>1
  <2>1. h < group[t] \/ h < sub[t].from
    BY <1>1 DEF Closed
  <2>2. sub[t].from <= group[t]
    BY DEF Base
  <2>3. h \in Nat /\ group[t] \in Nat /\ sub[t].from \in Nat
    BY Shapes
  <2> QED
    BY <2>1, <2>2, <2>3
<1>3. h \in DOMAIN pub'[t] /\ \E i \in DOMAIN pub'[t][h] : pub'[t][h][i] = s
  BY <1>1 DEF Grown
<1> QED
  BY <1>1, <1>2, <1>3 DEF Skipped

(* Nothing that is accounted for is lost by a step that leaves the channel *)
(* and the console alone.                                                  *)
LEMMA AccountsStay ==
  ASSUME Typed, NEW t \in AllTracks, Base(t), Grown(t),
         \A h \in whole'[t] : h \in whole[t] \/ (h = group[t] /\ pc[t] = "frames"),
         \A h \in DOMAIN pub[t] : Closed(t, h) => Closed(t, h)',
         chan' = chan, printed' = printed, NEW s
  PROVE  /\ Settled(t, s) => Settled(t, s)'
         /\ \A n : Ahead(t, s, n) => Ahead(t, s, n)'
<1>1. Skipped(t, s) => Skipped(t, s)'
  BY SkippedStays
<1>2. Printed(t, s) => Printed(t, s)'
  BY DEF Printed
<1>3. \A n : Ahead(t, s, n) => Ahead(t, s, n)'
  BY DEF Ahead
<1> QED
  BY <1>1, <1>2, <1>3 DEF Settled

(* Where a reader may go without reading: on to another group, or out of   *)
(* its subscription.                                                       *)
Moves(t) ==
  /\ \/ /\ pc'[t] = pc[t] /\ group'[t] = group[t] /\ read'[t] = read[t]
        /\ item'[t] = item[t] /\ sub'[t].from = sub[t].from
     \/ pc'[t] = "done" /\ ~printing
     \/ pc'[t] = "wait" /\ (printing => read'[t] = 0)
     \/ /\ pc'[t] = "groups" /\ read'[t] = 0
        /\ \/ group'[t] = group[t] /\ sub'[t].from = sub[t].from /\ pc[t] \in {"groups", "frames"}
           \/ Len(pub[t]) <= sub'[t].from
     \/ /\ pc'[t] = "frames" /\ pc[t] = "groups" /\ read'[t] = read[t]
        /\ sub'[t].from = sub[t].from
        /\ group[t] < group'[t] /\ sub[t].from <= group'[t]
  /\ printing /\ pc[t] = "send" => pc'[t] = "send"

LEMMA MovesClose ==
  ASSUME Typed, Typed', NEW t \in AllTracks, Moves(t), pub' = pub,
         NEW h \in DOMAIN pub[t], Closed(t, h)
  PROVE  Closed(t, h)'
<1>1. /\ h \in Nat /\ Len(pub[t]) \in Nat /\ group[t] \in Nat /\ sub[t].from \in Nat
      /\ group'[t] \in Nat /\ sub'[t].from \in Nat /\ h < Len(pub[t])
  <2>1. /\ h \in Nat /\ Len(pub[t]) \in Nat /\ group[t] \in Nat /\ sub[t].from \in Nat
    BY Shapes
  <2>2. group'[t] \in Nat
    BY DEF Typed
  <2>3. sub'[t].from \in Nat
    BY DEF Typed
  <2> QED
    BY <2>1, <2>2, <2>3 DEF Closed
<1>2. CASE pc'[t] \notin {"groups", "frames", "send"}
  BY <1>1, <1>2 DEF Closed
<1>3. CASE pc'[t] \in {"groups", "frames", "send"}
  <2>1. h < group'[t] \/ h < sub'[t].from
    BY <1>1, <1>3 DEF Moves, Closed
  <2> QED
    BY <1>1, <2>1 DEF Closed
<1> QED
  BY <1>2, <1>3

(* Such steps keep the accounts.                                           *)
LEMMA MovesAccounted ==
  ASSUME Typed, Typed', Accounted, printing' => printing, pos' \in 1 .. pos,
         UNCHANGED <<mode, pub, lastSeq, chan, printSeq, printed, whole>>,
         \A t \in AllTracks : Moves(t)
  PROVE  Accounted'
<1>1. MarkPrinted'
  BY DEF Accounted, MarkPrinted, Printed
<1>2. ASSUME NEW t \in AllTracks
      PROVE  Base(t)' /\ NoneBelow(t)' /\ (printing' => Tracked(t)')
  <2>1. Base(t) /\ NoneBelow(t) /\ (printing => Tracked(t)) /\ Moves(t)
    BY DEF Accounted
  <2>2. Scripted(t)' = Scripted(t) /\ Tracks' = Tracks /\ (Lite' <=> Lite)
    BY DEF Scripted, Tracks, Lite
  <2>3. /\ \A s : Settled(t, s) => Settled(t, s)'
        /\ \A s, n : Ahead(t, s, n) => Ahead(t, s, n)'
    <3>1. \A h \in DOMAIN pub[t] : Closed(t, h) => Closed(t, h)'
      BY <2>1, MovesClose
    <3>2. Grown(t) /\ \A h \in whole'[t] : h \in whole[t]
      BY DEF Grown
    <3> QED
      BY <2>1, <3>1, <3>2, AccountsStay
  <2>4. Base(t)'
    <3>1. WrittenInOrder(t)'
      <4>1. \A s, g, i : Before(t, s, g, i) => Before(t, s, g, i)'
        BY DEF Before
      <4>2. \A p \in DOMAIN mode.script : p < pos' => p < pos
        <5>1. \A p \in DOMAIN mode.script : p \in Nat
          BY ScriptGrows
        <5>2. pos \in Nat /\ pos' \in Nat /\ pos' <= pos
          BY DEF Typed
        <5> QED
          BY <5>1, <5>2
      <4> QED
        BY <2>1, <2>2, <4>1, <4>2 DEF Base, WrittenInOrder
    <3>2. pc'[t] \in {"frames", "send"} => sub'[t].from <= group'[t]
      BY <2>1 DEF Base, Moves
    <3> QED
      BY <2>1, <3>1, <3>2 DEF Base
  <2>5. NoneBelow(t)'
    BY <2>1, <2>2, <2>3 DEF NoneBelow
  <2>6. ASSUME printing' PROVE Tracked(t)'
    <3>1. printing /\ Tracked(t)
      BY <2>1, <2>6
    <3>2. pc'[t] = "send" <=> pc[t] = "send"
      BY <2>1, <3>1 DEF Moves
    <3>3. pc[t] = "send" => item'[t] = item[t] /\ read'[t] = read[t] /\ group'[t] = group[t]
      BY <2>1, <3>1 DEF Moves
    <3>4. \A s : Known(t, s) => Known(t, s)'
      BY <2>3, <3>2, <3>3 DEF Known, Sending
    <3>5. \A g \in DOMAIN pub[t] : \A i \in DOMAIN pub[t][g] : HasRead(t, g, i)' => HasRead(t, g, i)
      <4> SUFFICES ASSUME NEW g \in DOMAIN pub[t], NEW i \in DOMAIN pub[t][g], HasRead(t, g, i)',
                          g \notin whole[t]
                   PROVE  HasRead(t, g, i)
        BY DEF HasRead
      <4>1. pc'[t] \in {"frames", "send"} /\ g = group'[t] /\ i <= read'[t]
        BY DEF HasRead
      <4>2. i \in Nat /\ i > 0
        BY Shapes
      <4>3. read'[t] # 0
        BY <4>1, <4>2
      <4>4. pc[t] = "groups" => read[t] = 0
        BY <3>1 DEF Tracked
      <4> QED
        BY <2>1, <3>1, <4>1, <4>3, <4>4 DEF Moves, HasRead
    <3>6. /\ pc'[t] \in {"wait", "groups"} => read'[t] = 0
          /\ pc'[t] \in {"frames", "send"} => read'[t] <= Len(pub[t][group'[t]])
      <4>1. /\ pc[t] \in {"wait", "groups"} => read[t] = 0
            /\ pc[t] \in {"frames", "send"} => read[t] <= Len(pub[t][group[t]])
        BY <3>1 DEF Tracked
      <4>2. pc'[t] = "frames" => Len(pub[t][group'[t]]) \in Nat
        <5>1. pc'[t] = "frames" => group'[t] \in DOMAIN pub[t]
          BY Shapes DEF Typed
        <5> QED
          BY <5>1, Shapes
      <4> QED
        BY <2>1, <3>1, <4>1, <4>2 DEF Moves
    <3> QED
      BY <2>2, <2>3, <3>1, <3>2, <3>3, <3>4, <3>5, <3>6 DEF Tracked
  <2> QED
    BY <2>4, <2>5, <2>6
<1> QED
  BY <1>1, <1>2 DEF Accounted

(* Which steps those are.                                                  *)
LEMMA QuietAccounted ==
  ASSUME Typed, Typed', Accounted,
         \/ PublisherGone \/ PublisherReturns \/ IdleTimeout \/ UNCHANGED vars
         \/ \E t \in AllTracks :
              \/ Subscribe(t) \/ LoopEnds(t) \/ (\E g \in Given(t) : NextGroup(t, g))
              \/ TrackEnded(t) \/ FrameError(t) \/ SendFails(t) \/ RelayEnds(t)
  PROVE  Accounted'
<1> USE DEF publisher, readers, printer
<1>1. pos \in 1 .. pos
  BY DEF Typed
<1>2. ASSUME UNCHANGED <<mode, pub, lastSeq, chan, printSeq, printed, whole>>,
             printing' => printing, pos' \in 1 .. pos,
             \A t \in AllTracks : Moves(t)
      PROVE  Accounted'
  BY <1>2, MovesAccounted
<1>3. ASSUME NEW t \in AllTracks PROVE Cut(t).from = sub[t].from
  <2>1. sub[t] \in [status : {"none", "live", "ended"}, from : Nat, until : Nat]
    BY DEF Typed
  <2> QED
    BY <2>1 DEF Cut
<1>4. CASE PublisherGone \/ \E t \in AllTracks : RelayEnds(t)
  <2>1. /\ UNCHANGED <<mode, pub, lastSeq, chan, printSeq, printed, whole, printing, pos,
                       pc, group, read, item>>
        /\ \/ sub' = [t \in AllTracks |-> Cut(t)]
           \/ \E t \in AllTracks : sub' = [sub EXCEPT ![t] = Cut(t)]
    BY <1>4 DEF PublisherGone, RelayEnds
  <2>2. \A t \in AllTracks : sub'[t].from = sub[t].from
    <3>1. sub \in [AllTracks -> [status : {"none", "live", "ended"}, from : Nat, until : Nat]]
      BY DEF Typed
    <3>2. CASE sub' = [t \in AllTracks |-> Cut(t)]
      BY <1>3, <3>2
    <3>3. CASE \E t \in AllTracks : sub' = [sub EXCEPT ![t] = Cut(t)]
      <4>1. PICK t \in AllTracks : sub' = [sub EXCEPT ![t] = Cut(t)]
        BY <3>3
      <4>2. Cut(t).from = sub[t].from
        BY <1>3
      <4>3. \A u \in AllTracks : sub'[u] = IF u = t THEN Cut(t) ELSE sub[u]
        BY <3>1, <4>1
      <4> QED
        BY <4>2, <4>3
    <3> QED
      BY <2>1, <3>2, <3>3
  <2> QED
    BY <1>1, <1>2, <2>1, <2>2 DEF Moves
<1>5. CASE PublisherReturns
  <2>1. /\ UNCHANGED <<mode, pub, lastSeq, chan, printSeq, printed, whole, printing,
                       pc, group, read, item, sub>>
        /\ pos' \in 1 .. pos
    BY <1>5 DEF PublisherReturns
  <2> QED
    BY <1>2, <2>1 DEF Moves
<1>6. CASE IdleTimeout \/ UNCHANGED vars
  <2>1. /\ UNCHANGED <<mode, pub, lastSeq, chan, printSeq, printed, whole, pos,
                       pc, group, read, item, sub>>
        /\ printing' => printing
    BY <1>6 DEF IdleTimeout, vars
  <2> QED
    BY <1>1, <1>2, <2>1 DEF Moves
<1>7. ASSUME NEW t \in AllTracks,
             \/ Subscribe(t) \/ LoopEnds(t) \/ (\E g \in Given(t) : NextGroup(t, g))
             \/ TrackEnded(t) \/ FrameError(t) \/ SendFails(t)
      PROVE  Accounted'
  <2>1. UNCHANGED <<mode, pub, lastSeq, chan, printSeq, printed, whole, printing, pos>>
    BY <1>7 DEF Subscribe, LoopEnds, NextGroup, TrackEnded, FrameError, SendFails
  <2>2. ASSUME NEW u \in AllTracks, u # t
        PROVE  /\ pc'[u] = pc[u] /\ group'[u] = group[u] /\ read'[u] = read[u]
               /\ item'[u] = item[u] /\ sub'[u] = sub[u]
    <3>1. /\ pc' = [pc EXCEPT ![t] = pc'[t]] /\ group' = [group EXCEPT ![t] = group'[t]]
          /\ read' = [read EXCEPT ![t] = read'[t]] /\ item' = [item EXCEPT ![t] = item'[t]]
          /\ sub' = [sub EXCEPT ![t] = sub'[t]]
      <4> USE DEF Goto, Typed
      <4>1. CASE Subscribe(t)
        BY <4>1 DEF Subscribe
      <4>2. CASE LoopEnds(t)
        BY <4>2 DEF LoopEnds
      <4>3. CASE \E g \in Given(t) : NextGroup(t, g)
        BY <4>3 DEF NextGroup
      <4>4. CASE TrackEnded(t)
        BY <4>4 DEF TrackEnded
      <4>5. CASE FrameError(t)
        <5>1. sub' = sub \/ sub' = [sub EXCEPT ![t] = NoSub]
          BY <4>5 DEF FrameError
        <5>2. sub' = [sub EXCEPT ![t] = sub'[t]]
          BY <5>1
        <5> QED
          BY <4>5, <5>2 DEF FrameError
      <4>6. CASE SendFails(t)
        BY <4>6 DEF SendFails
      <4> QED
        BY <1>7, <4>1, <4>2, <4>3, <4>4, <4>5, <4>6
    <3> QED
      BY <2>2, <3>1 DEF Typed
  <2>3. Moves(t)
    <3> USE DEF Goto
    <3>0. printing => (pc[t] \in {"wait", "groups"} => read[t] = 0)
      BY DEF Accounted, Tracked
    <3>1. CASE Subscribe(t)
      <4>1. /\ pc[t] = "wait" /\ pc'[t] = "groups" /\ read'[t] = read[t] /\ printing
            /\ sub'[t].from = IF Written(t) > born[t] THEN Written(t) ELSE born[t] + 1
        BY <3>1 DEF Subscribe, Typed
      <4>2. Len(pub[t]) <= sub'[t].from
        BY <4>1, Shapes DEF Written
      <4> QED
        BY <3>0, <4>1, <4>2 DEF Moves
    <3>2. CASE LoopEnds(t)
      BY <3>2 DEF LoopEnds, Moves, Typed
    <3>3. CASE \E g \in Given(t) : NextGroup(t, g)
      <4>1. PICK g \in Given(t) : NextGroup(t, g)
        BY <3>3
      <4>2. g > group[t] /\ g \in Nat /\ sub[t].from <= g /\ group[t] \in Nat
        <5>1. g > group[t] /\ g \in sub[t].from .. (IF Live(t) THEN Written(t) ELSE sub[t].until)
          BY DEF Given
        <5>2. group[t] \in Nat /\ sub[t].from \in Nat /\ Written(t) \in Nat /\ sub[t].until \in Nat
          BY Shapes DEF Typed, Written
        <5> QED
          BY <5>1, <5>2
      <4>3. /\ pc[t] = "groups" /\ pc'[t] = "frames" /\ read'[t] = read[t]
            /\ sub'[t] = sub[t] /\ group'[t] = g
        BY <4>1 DEF NextGroup, Typed
      <4> QED
        BY <4>2, <4>3 DEF Moves
    <3>4. CASE TrackEnded(t)
      <4>1. pc[t] = "groups" /\ pc'[t] = "wait" /\ read'[t] = read[t]
        BY <3>4 DEF TrackEnded, AfterTrack, Typed
      <4> QED
        BY <3>0, <4>1 DEF Moves
    <3>5. CASE FrameError(t)
      <4>1. /\ pc[t] = "frames" /\ read'[t] = 0 /\ group'[t] = group[t]
            /\ \/ pc'[t] = "groups" /\ sub'[t] = sub[t]
               \/ pc'[t] = "wait"
        BY <3>5 DEF FrameError, AfterFrameError, Typed
      <4> QED
        BY <4>1 DEF Moves
    <3>6. CASE SendFails(t)
      <4>1. ~printing /\ pc'[t] \in {"done", "wait"}
        BY <3>6 DEF SendFails, Typed
      <4> QED
        BY <4>1 DEF Moves
    <3> QED
      BY <1>7, <3>1, <3>2, <3>3, <3>4, <3>5, <3>6
  <2>4. \A u \in AllTracks : Moves(u)
    BY <2>2, <2>3 DEF Moves
  <2> QED
    BY <1>1, <1>2, <2>1, <2>4
<1> QED
  BY <1>4, <1>5, <1>6, <1>7

(* A reader that stays in its group keeps what it has skipped.             *)
LEMMA SkippedInPlace ==
  ASSUME Typed, NEW t \in AllTracks, Base(t), Grown(t),
         Len(pub'[t]) \in Nat, Len(pub[t]) <= Len(pub'[t]),
         \A h \in whole'[t] : h \in whole[t] \/ (h = group[t] /\ pc[t] = "frames"),
         group'[t] = group[t], sub'[t] = sub[t],
         pc'[t] \in {"groups", "frames", "send"} => pc[t] \in {"groups", "frames", "send"},
         NEW s, Skipped(t, s)
  PROVE  Skipped(t, s)'
<1>1. ASSUME NEW h \in DOMAIN pub[t], Closed(t, h) PROVE Closed(t, h)'
  <2>1. h \in Nat /\ Len(pub[t]) \in Nat
    BY Shapes
  <2>2. h < Len(pub'[t])
    BY <1>1, <2>1 DEF Closed
  <2> QED
    BY <1>1, <2>2 DEF Closed
<1> QED
  BY <1>1, SkippedStays

(* What holds of a file of groups nobody writes to.                        *)
LEMMA WrittenStays ==
  ASSUME NEW t, UNCHANGED <<mode, pub, pos>>, WrittenInOrder(t)
  PROVE  WrittenInOrder(t)'
<1>1. \A s, g, i : Before(t, s, g, i) => Before(t, s, g, i)'
  BY DEF Before
<1>2. Scripted(t)' = Scripted(t)
  BY DEF Scripted
<1> QED
  BY <1>1, <1>2 DEF WrittenInOrder

(* A group read to its end has all its events known.                       *)
LEMMA GroupDoneAccounted ==
  ASSUME Typed, Typed', Accounted, NEW t \in AllTracks, GroupDone(t)
  PROVE  Accounted'
<1> USE DEF publisher, readers, printer
<1>1. /\ UNCHANGED <<mode, pub, pos, lastSeq, chan, printSeq, printed, printing, sub, group, item>>
      /\ pc[t] = "frames" /\ read[t] = GroupSize /\ group[t] \in DOMAIN pub[t]
      /\ whole' = [whole EXCEPT ![t] = @ \cup {group[t]}]
      /\ read' = [read EXCEPT ![t] = 0] /\ pc' = [pc EXCEPT ![t] = "groups"]
  BY Shapes DEF GroupDone, Goto, Typed
<1>2. /\ pc'[t] = "groups" /\ read'[t] = 0 /\ whole'[t] = whole[t] \cup {group[t]}
      /\ \A u \in AllTracks : u # t => pc'[u] = pc[u] /\ read'[u] = read[u] /\ whole'[u] = whole[u]
      /\ whole' \in [AllTracks -> SUBSET Nat]
  <2>1. pc \in [AllTracks -> {"wait", "groups", "frames", "send", "done"}] /\ read \in [AllTracks -> Nat]
    BY DEF Typed
  <2>2. whole \in [AllTracks -> SUBSET Nat] /\ group[t] \in Nat
    BY DEF Accounted, Typed
  <2> QED
    BY <1>1, <2>1, <2>2
<1>3. MarkPrinted'
  BY <1>1 DEF Accounted, MarkPrinted, Printed
<1>4. ASSUME NEW u \in AllTracks
      PROVE  Base(u)' /\ NoneBelow(u)' /\ (printing' => Tracked(u)')
  <2>1. Base(u) /\ NoneBelow(u) /\ (printing => Tracked(u))
    BY DEF Accounted
  <2>2. Scripted(u)' = Scripted(u) /\ Tracks' = Tracks /\ (Lite' <=> Lite)
    BY <1>1 DEF Scripted, Tracks, Lite
  <2>3. ASSUME NEW s
        PROVE  /\ Settled(u, s) => Settled(u, s)'
               /\ \A n : Ahead(u, s, n) => Ahead(u, s, n)'
               /\ Sending(u, s) => Sending(u, s)'
    <3>1. /\ Grown(u) /\ Len(pub[u]) \in Nat
          /\ \A h \in whole'[u] : h \in whole[u] \/ (h = group[u] /\ pc[u] = "frames")
      BY <1>1, <1>2, Shapes DEF Grown
    <3>2. Skipped(u, s) => Skipped(u, s)'
      BY <1>1, <1>2, <2>1, <3>1, SkippedInPlace
    <3> QED
      BY <1>1, <1>2, <3>2 DEF Settled, Printed, Ahead, Sending
  <2>4. Base(u)'
    BY <1>1, <1>2, <2>1, WrittenStays DEF Base
  <2>5. NoneBelow(u)'
    BY <1>1, <2>1, <2>2, <2>3 DEF NoneBelow
  <2>6. ASSUME printing' PROVE Tracked(u)'
    <3>1. Tracked(u)
      BY <1>1, <2>1, <2>6
    <3>2. \A s : Known(u, s) => Known(u, s)'
      BY <1>1, <2>3 DEF Known
    <3>3. u = t => Len(pub[t][group[t]]) = GroupSize
      <4>1. u = t => read[t] <= Len(pub[t][group[t]]) /\ Len(pub[t][group[t]]) <= GroupSize
        BY <1>1, <2>1, <3>1 DEF Tracked, Base
      <4>2. Len(pub[t][group[t]]) \in Nat /\ GroupSize \in Nat
        BY <1>1, Shapes
      <4> QED
        BY <1>1, <4>1, <4>2
    <3>4. ASSUME NEW g \in DOMAIN pub[u], NEW i \in DOMAIN pub[u][g], HasRead(u, g, i)'
          PROVE  HasRead(u, g, i)
      <4>1. CASE u # t
        BY <1>1, <1>2, <3>4, <4>1 DEF HasRead
      <4>2. CASE u = t /\ g = group[t]
        <5>1. i \in 1 .. GroupSize /\ GroupSize \in Nat
          BY <1>1, <3>3, <4>2, Shapes
        <5> QED
          BY <1>1, <4>2, <5>1 DEF HasRead
      <4>3. CASE u = t /\ g # group[t]
        BY <1>1, <1>2, <3>4, <4>3 DEF HasRead
      <4> QED
        BY <4>1, <4>2, <4>3
    <3>5. pc'[u] = "send" => pc[u] = "send" /\ item'[u] = item[u]
      BY <1>1, <1>2
    <3>6. \A k \in DOMAIN chan' : chan'[k].track = u =>
            /\ u \in Tracks' /\ (chan'[k].frame > 0 => chan'[k].frame \in Scripted(u)')
            /\ \A s \in Scripted(u)' : s < chan'[k].frame => Settled(u, s)' \/ Ahead(u, s, k - 1)'
      BY <1>1, <2>2, <2>3, <3>1 DEF Tracked
    <3>7. pc'[u] = "send" =>
            /\ u \in Tracks' /\ (item'[u] > 0 => item'[u] \in Scripted(u)')
            /\ \A s \in Scripted(u)' : s < item'[u] => Settled(u, s)' \/ Ahead(u, s, Len(chan))'
      BY <1>1, <2>2, <2>3, <3>1, <3>5 DEF Tracked
    <3>8. \A g \in DOMAIN pub'[u] : \A i \in DOMAIN pub'[u][g] :
            pub'[u][g][i] > 0 /\ HasRead(u, g, i)' => Known(u, pub[u][g][i])'
      BY <1>1, <3>1, <3>2, <3>4 DEF Tracked
    <3>9. Lite' => \A s \in Scripted(u)' : s <= lastSeq'[u] => Known(u, s)'
      BY <1>1, <2>2, <3>1, <3>2 DEF Tracked
    <3>10. /\ pc'[u] \in {"wait", "groups"} => read'[u] = 0
           /\ pc'[u] \in {"frames", "send"} => read'[u] <= Len(pub'[u][group'[u]])
           /\ \A g \in whole'[u] : Len(pub'[u][g]) = GroupSize
      BY <1>1, <1>2, <3>1, <3>3 DEF Tracked
    <3> QED
      BY <1>1, <3>6, <3>7, <3>8, <3>9, <3>10 DEF Tracked
  <2> QED
    BY <2>4, <2>5, <2>6
<1> QED
  BY <1>2, <1>3, <1>4 DEF Accounted

(* A reader that is about to read a new event has met every earlier one:   *)
(* each has a copy before it, read or skipped.                             *)
LEMMA ReadingKnowsBelow ==
  ASSUME Typed, NEW t \in AllTracks, Base(t), Tracked(t), pc[t] = "frames", Behind(t),
         NEW f, f = pub[t][group[t]][read[t] + 1], f > 0,
         NEW s \in Scripted(t), s < f
  PROVE  Settled(t, s) \/ Ahead(t, s, Len(chan))
<1>1. /\ group[t] \in DOMAIN pub[t] /\ group[t] \in Nat /\ group[t] <= Len(pub[t])
      /\ Len(pub[t]) \in Nat /\ read[t] \in Nat /\ DOMAIN pub[t] = 1 .. Len(pub[t])
  <2>1. Len(pub[t]) \in Nat /\ read[t] \in Nat /\ DOMAIN pub[t] = 1 .. Len(pub[t])
    BY Shapes
  <2>2. group[t] \in 1 .. Len(pub[t])
    BY DEF Typed
  <2> QED
    BY <2>1, <2>2
<1>2. read[t] + 1 \in DOMAIN pub[t][group[t]]
  <2>1. DOMAIN pub[t][group[t]] = 1 .. Len(pub[t][group[t]]) /\ Len(pub[t][group[t]]) \in Nat
    BY <1>1, Shapes
  <2> QED
    BY <1>1, <2>1 DEF Behind
<1>3. Before(t, s, group[t], read[t] + 1)
  BY <1>1, <1>2 DEF Base, WrittenInOrder
<1>4. PICK h \in DOMAIN pub[t] : \E j \in DOMAIN pub[t][h] :
        pub[t][h][j] = s /\ (h < group[t] \/ (h = group[t] /\ j < read[t] + 1))
  BY <1>3 DEF Before
<1>5. PICK j \in DOMAIN pub[t][h] :
        pub[t][h][j] = s /\ (h < group[t] \/ (h = group[t] /\ j < read[t] + 1))
  BY <1>4
<1>6. s > 0 /\ j \in Nat /\ h \in Nat
  <2>1. DOMAIN pub[t][h] = 1 .. Len(pub[t][h]) /\ Len(pub[t][h]) \in Nat
    BY Shapes
  <2>2. j \in Nat
    BY <2>1
  <2>3. s > 0
    BY DEF Scripted
  <2> QED
    BY <1>1, <2>2, <2>3
<1>7. CASE HasRead(t, h, j)
  BY <1>5, <1>6, <1>7 DEF Tracked, Known, Sending
<1>8. CASE ~HasRead(t, h, j)
  <2>1. h \notin whole[t]
    BY <1>8 DEF HasRead
  <2>2. h < group[t]
    BY <1>1, <1>5, <1>6, <1>8 DEF HasRead
  <2>3. Closed(t, h)
    BY <1>1, <1>6, <2>2 DEF Closed
  <2> QED
    BY <1>5, <2>1, <2>3 DEF Settled, Skipped
<1> QED
  BY <1>7, <1>8

(* A frame that is read is one of the script's events, or none.            *)
LEMMA ReadFrameIs ==
  ASSUME Typed, NEW t \in AllTracks, Base(t), pc[t] = "frames", Behind(t),
         NEW f, f = pub[t][group[t]][read[t] + 1]
  PROVE  /\ f \in Int /\ (f > 0 => f \in Scripted(t))
         /\ group[t] \in DOMAIN pub[t] /\ read[t] + 1 \in DOMAIN pub[t][group[t]]
<1>1. group[t] \in DOMAIN pub[t]
  <2>1. group[t] \in 1 .. Len(pub[t])
    BY DEF Typed
  <2> QED
    BY <2>1, Shapes
<1>2. read[t] + 1 \in DOMAIN pub[t][group[t]]
  <2>1. DOMAIN pub[t][group[t]] = 1 .. Len(pub[t][group[t]]) /\ Len(pub[t][group[t]]) \in Nat
        /\ read[t] \in Nat
    BY <1>1, Shapes
  <2> QED
    BY <2>1 DEF Behind
<1>3. f \in Int
  BY <1>1, <1>2, Shapes
<1> QED
  BY <1>1, <1>2, <1>3 DEF Base, WrittenInOrder

(* A frame is taken in hand, or dropped as one that is known.              *)
LEMMA ReadFrameAccounted ==
  ASSUME Typed, Typed', Accounted, NEW t \in Tracks, ReadFrame(t)
  PROVE  Accounted'
<1> SUFFICES ASSUME NEW f, f = pub[t][group[t]][read[t] + 1]
             PROVE  Accounted'
  OBVIOUS
<1> USE DEF publisher, readers, printer
<1>0. t \in AllTracks
  BY Scenario
<1>1. /\ UNCHANGED <<mode, pub, pos, chan, printSeq, printed, printing, sub, group, whole>>
      /\ pc[t] = "frames" /\ Behind(t)
      /\ read' = [read EXCEPT ![t] = @ + 1]
      /\ \/ Seen(t, f) /\ UNCHANGED <<pc, item, lastSeq>>
         \/ /\ item' = [item EXCEPT ![t] = f]
            /\ lastSeq' = [lastSeq EXCEPT ![t] = HighWater(t, f)]
            /\ pc' = [pc EXCEPT ![t] = "send"]
  BY DEF ReadFrame, Goto
<1>2. /\ Base(t) /\ NoneBelow(t) /\ f \in Int /\ (f > 0 => f \in Scripted(t))
      /\ group[t] \in DOMAIN pub[t] /\ read[t] + 1 \in DOMAIN pub[t][group[t]]
  <2>1. Base(t) /\ NoneBelow(t)
    BY <1>0 DEF Accounted
  <2> QED
    BY <1>0, <1>1, <2>1, ReadFrameIs
<1>3. /\ read'[t] = read[t] + 1 /\ read[t] \in Nat
      /\ \/ /\ Seen(t, f) /\ pc'[t] = "frames" /\ item'[t] = item[t] /\ lastSeq'[t] = lastSeq[t]
         \/ pc'[t] = "send" /\ item'[t] = f /\ lastSeq'[t] = HighWater(t, f)
      /\ \A u \in AllTracks : u # t => /\ pc'[u] = pc[u] /\ read'[u] = read[u]
                                      /\ item'[u] = item[u] /\ lastSeq'[u] = lastSeq[u]
  <2>1. /\ pc \in [AllTracks -> {"wait", "groups", "frames", "send", "done"}]
        /\ read \in [AllTracks -> Nat] /\ lastSeq \in [AllTracks -> Int]
        /\ item \in [AllTracks -> Frames \cup {NoItem}]
    BY DEF Typed
  <2>2. /\ read'[t] = read[t] + 1 /\ read[t] \in Nat
        /\ \A u \in AllTracks : u # t => read'[u] = read[u]
    BY <1>0, <1>1, <2>1
  <2>3. CASE Seen(t, f) /\ UNCHANGED <<pc, item, lastSeq>>
    BY <1>1, <2>2, <2>3
  <2>4. CASE /\ item' = [item EXCEPT ![t] = f]
             /\ lastSeq' = [lastSeq EXCEPT ![t] = HighWater(t, f)]
             /\ pc' = [pc EXCEPT ![t] = "send"]
    <3>1. pc'[t] = "send" /\ item'[t] = f /\ lastSeq'[t] = HighWater(t, f)
      BY <1>0, <2>1, <2>4
    <3>2. \A u \in AllTracks : u # t =>
            pc'[u] = pc[u] /\ item'[u] = item[u] /\ lastSeq'[u] = lastSeq[u]
      BY <2>1, <2>4
    <3> QED
      BY <2>2, <3>1, <3>2
  <2> QED
    BY <1>1, <2>3, <2>4
<1>4. MarkPrinted'
  BY <1>1 DEF Accounted, MarkPrinted, Printed
<1>5. ASSUME NEW u \in AllTracks
      PROVE  Base(u)' /\ NoneBelow(u)' /\ (printing' => Tracked(u)')
  <2>1. Base(u) /\ NoneBelow(u) /\ (printing => Tracked(u))
    BY DEF Accounted
  <2>2. Scripted(u)' = Scripted(u) /\ Tracks' = Tracks /\ (Lite' <=> Lite)
    BY <1>1 DEF Scripted, Tracks, Lite
  <2>3. ASSUME NEW s
        PROVE  /\ Settled(u, s) => Settled(u, s)'
               /\ \A n : Ahead(u, s, n) => Ahead(u, s, n)'
    <3>1. Grown(u) /\ Len(pub[u]) \in Nat
      BY <1>1, Shapes DEF Grown
    <3>2. pc'[u] \in {"groups", "frames", "send"} => pc[u] \in {"groups", "frames", "send"}
      BY <1>1, <1>3
    <3>3. Skipped(u, s) => Skipped(u, s)'
      BY <1>1, <2>1, <3>1, <3>2, SkippedInPlace
    <3> QED
      BY <1>1, <3>3 DEF Settled, Printed, Ahead
  <2>4. Base(u)'
    BY <1>1, <1>3, <2>1, WrittenStays DEF Base
  <2>5. NoneBelow(u)'
    BY <1>1, <2>1, <2>2, <2>3 DEF NoneBelow
  <2>6. ASSUME printing' PROVE Tracked(u)'
    <3>1. Tracked(u)
      BY <1>1, <2>1, <2>6
    <3>2. \A s : Known(u, s) => Known(u, s)'
      BY <1>1, <1>3, <2>3 DEF Known, Sending
    <3>3. u = t => \A s \in Scripted(t) : f > 0 /\ s < f => Settled(t, s) \/ Ahead(t, s, Len(chan))
      BY <1>0, <1>1, <1>2, <3>1, ReadingKnowsBelow
    <3>4. ASSUME u = t, f > 0 PROVE Known(t, f)'
      <4>1. CASE Seen(t, f)
        BY <1>2, <3>1, <3>2, <3>4, <4>1 DEF Seen, Tracked
      <4>2. CASE ~Seen(t, f)
        BY <1>3, <4>2 DEF Known, Sending
      <4> QED
        BY <4>1, <4>2
    <3>5. ASSUME NEW g \in DOMAIN pub[u], NEW i \in DOMAIN pub[u][g], HasRead(u, g, i)'
          PROVE  HasRead(u, g, i) \/ (u = t /\ pub[u][g][i] = f)
      <4>1. CASE u # t
        BY <1>1, <1>3, <3>5, <4>1 DEF HasRead
      <4>2. CASE u = t
        <5>1. i \in Nat
          BY Shapes
        <5>2. g \in whole[t] \/ (g = group[t] /\ i <= read[t] + 1)
          BY <1>1, <1>3, <3>5, <4>2 DEF HasRead
        <5>3. g \in whole[t] \/ (g = group[t] /\ (i <= read[t] \/ i = read[t] + 1))
          BY <1>3, <5>1, <5>2
        <5> QED
          BY <1>1, <4>2, <5>3 DEF HasRead
      <4> QED
        BY <4>1, <4>2
    <3>6. \A k \in DOMAIN chan' : chan'[k].track = u =>
            /\ u \in Tracks' /\ (chan'[k].frame > 0 => chan'[k].frame \in Scripted(u)')
            /\ \A s \in Scripted(u)' : s < chan'[k].frame => Settled(u, s)' \/ Ahead(u, s, k - 1)'
      BY <1>1, <2>2, <2>3, <3>1 DEF Tracked
    <3>7. pc'[u] = "send" =>
            /\ u \in Tracks' /\ (item'[u] > 0 => item'[u] \in Scripted(u)')
            /\ \A s \in Scripted(u)' : s < item'[u] => Settled(u, s)' \/ Ahead(u, s, Len(chan))'
      <4>1. CASE u # t
        BY <1>1, <1>3, <2>2, <2>3, <3>1, <4>1 DEF Tracked
      <4>2. CASE u = t
        <5> SUFFICES ASSUME pc'[t] = "send"
                     PROVE  /\ t \in Tracks /\ (item'[t] > 0 => item'[t] \in Scripted(t))
                            /\ \A s \in Scripted(t) : s < item'[t] =>
                                 Settled(t, s)' \/ Ahead(t, s, Len(chan))'
          BY <2>2, <4>2
        <5>1. item'[t] = f
          BY <1>3
        <5>2. \A s \in Scripted(t) : s < f => f > 0
          BY <1>2 DEF Scripted
        <5> QED
          BY <1>1, <1>2, <2>3, <3>3, <4>2, <5>1, <5>2
      <4> QED
        BY <4>1, <4>2
    <3>8. \A g \in DOMAIN pub'[u] : \A i \in DOMAIN pub'[u][g] :
            pub'[u][g][i] > 0 /\ HasRead(u, g, i)' => Known(u, pub[u][g][i])'
      <4> SUFFICES ASSUME NEW g \in DOMAIN pub[u], NEW i \in DOMAIN pub[u][g],
                          pub[u][g][i] > 0, HasRead(u, g, i)'
                   PROVE  Known(u, pub[u][g][i])'
        BY <1>1
      <4>1. CASE HasRead(u, g, i)
        BY <1>1, <3>1, <3>2, <4>1 DEF Tracked
      <4>2. CASE u = t /\ pub[u][g][i] = f
        BY <1>1, <3>4, <4>2
      <4> QED
        BY <3>5, <4>1, <4>2
    <3>9. Lite' => \A s \in Scripted(u)' : s <= lastSeq'[u] => Known(u, s)'
      <4> SUFFICES ASSUME Lite, NEW s \in Scripted(u), s <= lastSeq'[u]
                   PROVE  Known(u, s)'
        BY <2>2
      <4>1. CASE s <= lastSeq[u]
        BY <3>1, <3>2, <4>1 DEF Tracked
      <4>2. CASE ~(s <= lastSeq[u])
        <5>1. u = t /\ f > 0 /\ lastSeq'[t] = f /\ s <= f /\ s \in Nat
          BY <1>3, <4>2 DEF HighWater, Scripted
        <5>2. CASE s = f
          BY <3>4, <5>1, <5>2
        <5>3. CASE s # f
          <6>1. s < f
            BY <1>2, <5>1, <5>3
          <6> QED
            BY <1>1, <2>3, <3>3, <5>1, <6>1 DEF Known
        <5> QED
          BY <5>2, <5>3
      <4> QED
        BY <4>1, <4>2
    <3>10. /\ pc'[u] \in {"wait", "groups"} => read'[u] = 0
           /\ pc'[u] \in {"frames", "send"} => read'[u] <= Len(pub'[u][group'[u]])
           /\ \A g \in whole'[u] : Len(pub'[u][g]) = GroupSize
      <4>1. CASE u # t
        BY <1>1, <1>3, <3>1, <4>1 DEF Tracked
      <4>2. CASE u = t
        <5>1. read'[t] <= Len(pub[t][group[t]])
          <6>1. DOMAIN pub[t][group[t]] = 1 .. Len(pub[t][group[t]])
                /\ Len(pub[t][group[t]]) \in Nat
            BY <1>0, <1>2, Shapes
          <6> QED
            BY <1>2, <1>3, <6>1
        <5> QED
          BY <1>1, <1>3, <3>1, <4>2, <5>1 DEF Tracked
      <4> QED
        BY <4>1, <4>2
    <3> QED
      BY <1>1, <3>6, <3>7, <3>8, <3>9, <3>10 DEF Tracked
  <2> QED
    BY <2>4, <2>5, <2>6
<1> QED
  BY <1>1, <1>4, <1>5 DEF Accounted

(* A frame goes from the reader's hand into the channel.                   *)
LEMMA SendAccounted ==
  ASSUME Typed, Typed', Accounted, NEW t \in AllTracks, Send(t)
  PROVE  Accounted'
<1> SUFFICES ASSUME NEW n, n = Len(chan) + 1
             PROVE  Accounted'
  OBVIOUS
<1> USE DEF publisher, readers, printer
<1>1. /\ UNCHANGED <<mode, pub, pos, lastSeq, printSeq, printed, printing, sub, group, read, whole>>
      /\ pc[t] = "send"
      /\ chan' = Append(chan, [track |-> t, frame |-> item[t]])
      /\ item' = [item EXCEPT ![t] = NoItem] /\ pc' = [pc EXCEPT ![t] = "frames"]
  BY DEF Send, Goto
<1>2. /\ pc'[t] = "frames"
      /\ \A u \in AllTracks : u # t => pc'[u] = pc[u] /\ item'[u] = item[u]
  BY <1>1 DEF Typed
<1>3. /\ Len(chan) \in Nat /\ DOMAIN chan = 1 .. Len(chan) /\ DOMAIN chan' = 1 .. n
      /\ Len(chan') = n
      /\ \A k \in DOMAIN chan : k \in DOMAIN chan' /\ chan'[k] = chan[k] 
      /\ \A k \in DOMAIN chan' : k # n => k \in DOMAIN chan /\ chan'[k] = chan[k]
      /\ chan'[n].track = t /\ chan'[n].frame = item[t] /\ n \in DOMAIN chan'
      /\ n - 1 = Len(chan) /\ n <= n
      /\ \A k \in DOMAIN chan : k <= n
  <2>1. chan \in Seq(Queued) /\ Len(chan) \in Nat
    BY DEF Typed
  <2> DEFINE q == [track |-> t, frame |-> item[t]]
  <2>2. q.track = t /\ q.frame = item[t]
    OBVIOUS
  <2>3. chan' = Append(chan, q)
    BY <1>1
  <2> HIDE DEF q
  <2>4. /\ DOMAIN chan = 1 .. Len(chan) /\ DOMAIN chan' = 1 .. n /\ Len(chan') = n
        /\ \A k \in 1 .. Len(chan) : chan'[k] = chan[k]
        /\ chan'[n] = q
    BY <2>1, <2>3
  <2> QED
    BY <2>1, <2>2, <2>4
<1>4. MarkPrinted'
  BY <1>1 DEF Accounted, MarkPrinted, Printed
<1>5. ASSUME NEW u \in AllTracks
      PROVE  Base(u)' /\ NoneBelow(u)' /\ (printing' => Tracked(u)')
  <2>1. Base(u) /\ NoneBelow(u) /\ (printing => Tracked(u))
    BY DEF Accounted
  <2>2. Scripted(u)' = Scripted(u) /\ Tracks' = Tracks /\ (Lite' <=> Lite)
    BY <1>1 DEF Scripted, Tracks, Lite
  <2>3. ASSUME NEW s
        PROVE  /\ Settled(u, s) => Settled(u, s)'
               /\ \A m : Ahead(u, s, m) => Ahead(u, s, m)'
               /\ Ahead(u, s, Len(chan)) => Ahead(u, s, n)'
               /\ Sending(u, s) => Sending(u, s)' \/ Ahead(u, s, n)'
    <3>1. Grown(u) /\ Len(pub[u]) \in Nat
      BY <1>1, Shapes DEF Grown
    <3>2. pc'[u] \in {"groups", "frames", "send"} => pc[u] \in {"groups", "frames", "send"}
      BY <1>1, <1>2
    <3>3. Skipped(u, s) => Skipped(u, s)'
      BY <1>1, <2>1, <3>1, <3>2, SkippedInPlace
    <3>4. \A m : Ahead(u, s, m) => Ahead(u, s, m)'
      BY <1>3 DEF Ahead
    <3>5. Ahead(u, s, Len(chan)) => Ahead(u, s, n)'
      <4> SUFFICES ASSUME NEW j \in DOMAIN chan, chan[j].track = u /\ chan[j].frame = s
                   PROVE  Ahead(u, s, n)'
        BY DEF Ahead
      <4>1. j \in DOMAIN chan' /\ j <= n /\ chan'[j].track = u /\ chan'[j].frame = s
        BY <1>3
      <4> QED
        BY <4>1 DEF Ahead
    <3>6. Sending(u, s) => Sending(u, s)' \/ Ahead(u, s, n)'
      <4>1. CASE u # t
        BY <1>2, <4>1 DEF Sending
      <4>2. CASE u = t /\ item[t] = s
        <5>1. n \in DOMAIN chan' /\ n <= n /\ chan'[n].track = u /\ chan'[n].frame = s
          BY <1>3, <4>2
        <5> QED
          BY <5>1 DEF Ahead
      <4> QED
        BY <4>1, <4>2 DEF Sending
    <3> QED
      BY <1>1, <3>3, <3>4, <3>5, <3>6 DEF Settled, Printed
  <2>4. Base(u)'
    BY <1>1, <1>2, <2>1, WrittenStays DEF Base
  <2>5. NoneBelow(u)'
    BY <1>1, <2>1, <2>2, <2>3 DEF NoneBelow
  <2>6. ASSUME printing' PROVE Tracked(u)'
    <3>1. Tracked(u)
      BY <1>1, <2>1, <2>6
    <3>0. \A s : Ahead(u, s, Len(chan))' <=> Ahead(u, s, n)'
      BY <1>3
    <3>2. \A s : Known(u, s) => Known(u, s)'
      BY <2>3, <3>0 DEF Known
    <3>3. pc'[u] = "send" => u # t /\ pc[u] = "send" /\ item'[u] = item[u]
      BY <1>2
    <3>4. \A g, i : HasRead(u, g, i)' => HasRead(u, g, i)
      BY <1>1, <1>2 DEF HasRead
    <3>5. ASSUME NEW k \in DOMAIN chan', chan'[k].track = u
          PROVE  /\ u \in Tracks' /\ (chan'[k].frame > 0 => chan'[k].frame \in Scripted(u)')
                 /\ \A s \in Scripted(u)' : s < chan'[k].frame => Settled(u, s)' \/ Ahead(u, s, k - 1)'
      <4>1. CASE k # n
        <5>1. k \in DOMAIN chan /\ chan'[k] = chan[k]
          BY <1>3, <4>1
        <5> QED
          BY <2>2, <2>3, <3>1, <3>5, <5>1 DEF Tracked
      <4>2. CASE k = n
        <5>1. u = t /\ chan'[k].frame = item[t] /\ k - 1 = Len(chan)
          BY <1>3, <3>5, <4>2
        <5> QED
          BY <1>1, <2>2, <2>3, <3>1, <5>1 DEF Tracked
      <4> QED
        BY <4>1, <4>2
    <3>6. pc'[u] = "send" =>
            /\ u \in Tracks' /\ (item'[u] > 0 => item'[u] \in Scripted(u)')
            /\ \A s \in Scripted(u)' : s < item'[u] => Settled(u, s)' \/ Ahead(u, s, Len(chan))'
      BY <2>2, <2>3, <3>0, <3>1, <3>3 DEF Tracked
    <3>7. \A g \in DOMAIN pub'[u] : \A i \in DOMAIN pub'[u][g] :
            pub'[u][g][i] > 0 /\ HasRead(u, g, i)' => Known(u, pub[u][g][i])'
      BY <1>1, <3>1, <3>2, <3>4 DEF Tracked
    <3>8. Lite' => \A s \in Scripted(u)' : s <= lastSeq'[u] => Known(u, s)'
      BY <1>1, <2>2, <3>1, <3>2 DEF Tracked
    <3>9. /\ pc'[u] \in {"wait", "groups"} => read'[u] = 0
          /\ pc'[u] \in {"frames", "send"} => read'[u] <= Len(pub'[u][group'[u]])
          /\ \A g \in whole'[u] : Len(pub'[u][g]) = GroupSize
      BY <1>1, <1>2, <3>1 DEF Tracked
    <3> QED
      BY <3>5, <3>6, <3>7, <3>8, <3>9 DEF Tracked
  <2> QED
    BY <2>4, <2>5, <2>6
<1> QED
  BY <1>1, <1>4, <1>5 DEF Accounted

(* The printer leaves nothing unaccounted for: what it drops it has        *)
(* printed, or it is above a copy that was skipped.                        *)
LEMMA PrintEventAccounted ==
  ASSUME Typed, Typed', Accounted, PrintEvent
  PROVE  Accounted'
<1> SUFFICES ASSUME NEW t, NEW f, NEW n, t = Head(chan).track, f = Head(chan).frame,
                    n = Len(chan)
             PROVE  Accounted'
  OBVIOUS
<1>1. /\ printing /\ chan # <<>> /\ chan' = Tail(chan) /\ Head(chan) = chan[1]
      /\ UNCHANGED <<mode, pub, pos, sub, pc, group, read, item, lastSeq, whole>>
  BY DEF PrintEvent, Typed, publisher, readers
<1>2. /\ Len(chan) \in Nat /\ DOMAIN chan = 1 .. Len(chan) /\ 1 \in DOMAIN chan
      /\ Len(chan') = n - 1 /\ n \in Nat
      /\ \A k \in DOMAIN chan' : k \in Nat /\ k + 1 \in DOMAIN chan /\ chan'[k] = chan[k + 1]
      /\ \A k \in DOMAIN chan :
           k = 1 \/ (k - 1 \in DOMAIN chan' /\ chan'[k - 1] = chan[k] /\ k \in Nat)
  BY <1>1 DEF Typed
<1>3. f \in Int /\ t \in AllTracks /\ printSeq \in Int
  BY <1>1, <1>2, Compared
<1>4. \/ UNCHANGED <<printSeq, printed>> /\ (f > 0 => mode.dids = {} /\ f <= printSeq)
      \/ /\ f > 0 /\ printed' = [printed EXCEPT ![t] = Append(@, f)]
         /\ printSeq' = IF mode.dids = {} THEN f ELSE printSeq
  <2>1. CASE ~Printable(f)
    <3>1. UNCHANGED <<printSeq, printed>>
      BY <2>1 DEF PrintEvent, printer
    <3>2. f > 0 => mode.dids = {} /\ f <= printSeq
      BY <1>3, <2>1 DEF Printable, Dedups, Garbage
    <3> QED
      BY <3>1, <3>2
  <2>2. CASE Printable(f)
    <3>1. /\ printSeq' = IF Dedups(f) THEN f ELSE printSeq
          /\ printed' = [printed EXCEPT ![t] = IF f > 0 THEN Append(@, f) ELSE @]
      BY <2>2 DEF PrintEvent, Printable
    <3>2. CASE f > 0
      BY <3>1, <3>2 DEF Dedups
    <3>3. CASE ~(f > 0)
      <4>1. printed' = [printed EXCEPT ![t] = @] /\ printSeq' = printSeq
        BY <3>1, <3>3 DEF Dedups
      <4>2. printed \in [AllTracks -> Seq(Nat)]
        BY DEF Typed
      <4> QED
        BY <1>3, <3>3, <4>1, <4>2
    <3> QED
      BY <3>2, <3>3
  <2> QED
    BY <2>1, <2>2
<1>5. ASSUME NEW u \in AllTracks
      PROVE  /\ \A i \in DOMAIN printed[u] : i \in DOMAIN printed'[u] /\ printed'[u][i] = printed[u][i]
             /\ \A i \in DOMAIN printed'[u] :
                  i \in DOMAIN printed[u] \/ (u = t /\ f > 0 /\ printed'[u][i] = f)
             /\ u = t /\ printed' # printed => Printed(t, f)'
  <2>1. CASE UNCHANGED printed
    BY <2>1
  <2>2. CASE f > 0 /\ printed' = [printed EXCEPT ![t] = Append(@, f)]
    <3>1. printed \in [AllTracks -> Seq(Nat)] /\ f \in Nat
      BY <1>3, <2>2 DEF Typed
    <3>2. printed'[u] = IF u = t THEN Append(printed[t], f) ELSE printed[u]
      BY <1>3, <2>2, <3>1
    <3>3. CASE u # t
      BY <3>2, <3>3
    <3>4. CASE u = t
      <4>1. /\ Len(printed[t]) \in Nat /\ DOMAIN printed[t] = 1 .. Len(printed[t])
            /\ DOMAIN printed'[t] = 1 .. Len(printed[t]) + 1
            /\ \A i \in 1 .. Len(printed[t]) : printed'[t][i] = printed[t][i]
            /\ printed'[t][Len(printed[t]) + 1] = f
        BY <1>3, <3>1, <3>2, <3>4
      <4> QED
        BY <2>2, <3>4, <4>1 DEF Printed
    <3> QED
      BY <3>3, <3>4
  <2> QED
    BY <1>4, <2>1, <2>2
<1>6. ASSUME NEW u \in AllTracks, NEW s
      PROVE  /\ Printed(u, s) => Printed(u, s)'
             /\ Settled(u, s) => Settled(u, s)'
  <2>1. Printed(u, s) => Printed(u, s)'
    BY <1>5 DEF Printed
  <2>2. Skipped(u, s) => Skipped(u, s)'
    BY <1>1 DEF Skipped, Closed
  <2> QED
    BY <2>1, <2>2 DEF Settled
<1>7. /\ t \in Tracks /\ (f > 0 => f \in Scripted(t))
      /\ \A s \in Scripted(t) : s < f => Settled(t, s)
  <2>1. Tracked(t)
    BY <1>1, <1>3 DEF Accounted
  <2>2. chan[1].track = t /\ chan[1].frame = f
    BY <1>1
  <2>3. \A s : ~Ahead(t, s, 1 - 1)
    BY <1>2 DEF Ahead
  <2> QED
    BY <1>2, <2>1, <2>2, <2>3 DEF Tracked
<1>8. mode.dids = {} => t = Main
  BY <1>7 DEF Tracks
<1>9. f > 0 => Settled(t, f)'
  <2>1. CASE UNCHANGED <<printSeq, printed>> /\ (f > 0 => mode.dids = {} /\ f <= printSeq)
    <3> SUFFICES ASSUME f > 0 PROVE Settled(t, f)
      BY <1>3, <1>6
    <3>1. Printed(t, printSeq)
      BY <1>3, <1>8, <2>1 DEF Accounted, MarkPrinted
    <3>2. CASE f = printSeq
      BY <3>1, <3>2 DEF Settled
    <3>3. CASE f # printSeq
      <4>1. f < printSeq
        BY <1>3, <2>1, <3>3
      <4>2. PICK i \in DOMAIN printed[t] : printed[t][i] = printSeq
        BY <3>1 DEF Printed
      <4>3. NoneBelow(t)
        BY <1>3 DEF Accounted
      <4> QED
        BY <1>7, <4>1, <4>2, <4>3 DEF NoneBelow
    <3> QED
      BY <3>2, <3>3
  <2>2. CASE f > 0 /\ printed' = [printed EXCEPT ![t] = Append(@, f)]
    <3>1. printed' # printed
      <4>1. printed[t] \in Seq(Nat) /\ printed \in [AllTracks -> Seq(Nat)]
        BY <1>3 DEF Typed
      <4>2. printed'[t] = Append(printed[t], f)
        BY <1>3, <2>2, <4>1
      <4>3. Len(printed'[t]) # Len(printed[t])
        BY <1>3, <4>1, <4>2
      <4> QED
        BY <4>3
    <3> QED
      BY <1>3, <1>5, <3>1 DEF Settled
  <2> QED
    BY <1>4, <2>1, <2>2
<1>10. MarkPrinted'
  <2>1. CASE UNCHANGED <<printSeq, printed>>
    BY <1>1, <2>1 DEF Accounted, MarkPrinted, Printed
  <2>2. CASE /\ f > 0 /\ printed' = [printed EXCEPT ![t] = Append(@, f)]
             /\ printSeq' = IF mode.dids = {} THEN f ELSE printSeq
    <3>1. Printed(t, f)'
      <4>1. printed[t] \in Seq(Nat) /\ printed \in [AllTracks -> Seq(Nat)]
        BY <1>3 DEF Typed
      <4>2. printed'[t] = Append(printed[t], f)
        BY <1>3, <2>2, <4>1
      <4>3. Len(printed'[t]) # Len(printed[t])
        BY <1>3, <4>1, <4>2
      <4> QED
        BY <1>3, <1>5, <4>3
    <3> QED
      BY <1>1, <1>8, <2>2, <3>1 DEF MarkPrinted
  <2> QED
    BY <1>4, <2>1, <2>2
<1>11. ASSUME NEW u \in AllTracks
       PROVE  Base(u)' /\ NoneBelow(u)' /\ (printing' => Tracked(u)')
  <2>1. Base(u) /\ NoneBelow(u) /\ Tracked(u)
    BY <1>1 DEF Accounted
  <2>2. Scripted(u)' = Scripted(u) /\ Tracks' = Tracks /\ (Lite' <=> Lite)
    BY <1>1 DEF Scripted, Tracks, Lite
  <2>3. Base(u)'
    BY <1>1, <2>1, WrittenStays DEF Base
  <2>4. NoneBelow(u)'
    <3> SUFFICES ASSUME NEW i \in DOMAIN printed'[u], NEW s \in Scripted(u), s < printed'[u][i]
                 PROVE  Settled(u, s)'
      BY <2>2 DEF NoneBelow
    <3>1. CASE i \in DOMAIN printed[u]
      BY <1>5, <1>6, <2>1, <3>1 DEF NoneBelow
    <3>2. CASE u = t /\ printed'[u][i] = f
      BY <1>6, <1>7, <3>2
    <3> QED
      BY <1>5, <3>1, <3>2
  <2>5. ASSUME NEW s \in Scripted(u), NEW k \in Int, Ahead(u, s, k)
        PROVE  Settled(u, s)' \/ Ahead(u, s, k - 1)'
    <3>1. PICK j \in DOMAIN chan : j <= k /\ chan[j].track = u /\ chan[j].frame = s
      BY <2>5 DEF Ahead
    <3>2. CASE j = 1
      <4>1. u = t /\ s = f /\ s > 0
        BY <1>1, <3>1, <3>2 DEF Scripted
      <4> QED
        BY <1>9, <4>1
    <3>3. CASE j # 1
      <4>1. j - 1 \in DOMAIN chan' /\ j - 1 <= k - 1 /\ chan'[j - 1] = chan[j]
        BY <1>2, <2>5, <3>1, <3>3
      <4>2. \E i \in DOMAIN chan' : i <= k - 1 /\ chan'[i].track = u /\ chan'[i].frame = s
        BY <3>1, <4>1
      <4> QED
        BY <4>2 DEF Ahead
    <3> QED
      BY <3>2, <3>3
  <2>6. \A s \in Scripted(u) : Known(u, s) => Known(u, s)'
    <3>1. \A s : Ahead(u, s, n - 1)' => Ahead(u, s, Len(chan))'
      BY <1>2
    <3>2. \A s \in Scripted(u) : Ahead(u, s, Len(chan)) => Settled(u, s)' \/ Ahead(u, s, n - 1)'
      BY <1>2, <2>5
    <3> QED
      BY <1>1, <1>6, <3>1, <3>2 DEF Known, Sending
  <2>7. \A g, i : HasRead(u, g, i)' => HasRead(u, g, i)
    BY <1>1 DEF HasRead
  <2>8. ASSUME NEW k \in DOMAIN chan', chan'[k].track = u
        PROVE  /\ u \in Tracks' /\ (chan'[k].frame > 0 => chan'[k].frame \in Scripted(u)')
               /\ \A s \in Scripted(u)' : s < chan'[k].frame => Settled(u, s)' \/ Ahead(u, s, k - 1)'
    <3>1. k \in Int /\ k + 1 \in DOMAIN chan /\ chan'[k] = chan[k + 1] /\ k + 1 - 1 = k
      BY <1>2, <2>8
    <3>2. /\ u \in Tracks /\ (chan'[k].frame > 0 => chan'[k].frame \in Scripted(u))
          /\ \A s \in Scripted(u) : s < chan'[k].frame => Settled(u, s) \/ Ahead(u, s, k)
      BY <2>1, <2>8, <3>1 DEF Tracked
    <3> QED
      BY <1>6, <2>2, <2>5, <3>1, <3>2
  <2>9. pc'[u] = "send" =>
          /\ u \in Tracks' /\ (item'[u] > 0 => item'[u] \in Scripted(u)')
          /\ \A s \in Scripted(u)' : s < item'[u] => Settled(u, s)' \/ Ahead(u, s, Len(chan))'
    <3>1. \A s \in Scripted(u) : Ahead(u, s, Len(chan)) => Settled(u, s)' \/ Ahead(u, s, n - 1)'
      BY <1>2, <2>5
    <3>2. \A s : Ahead(u, s, n - 1)' => Ahead(u, s, Len(chan))'
      BY <1>2
    <3> QED
      BY <1>1, <1>6, <2>1, <2>2, <3>1, <3>2 DEF Tracked
  <2>10. \A g \in DOMAIN pub'[u] : \A i \in DOMAIN pub'[u][g] :
           pub'[u][g][i] > 0 /\ HasRead(u, g, i)' => Known(u, pub[u][g][i])'
    <3> SUFFICES ASSUME NEW g \in DOMAIN pub[u], NEW i \in DOMAIN pub[u][g],
                        pub[u][g][i] > 0, HasRead(u, g, i)
                 PROVE  Known(u, pub[u][g][i])'
      BY <1>1, <2>7
    <3>1. Known(u, pub[u][g][i])
      BY <2>1 DEF Tracked
    <3>2. pub[u][g][i] \in Scripted(u)
      BY <2>1 DEF Base, WrittenInOrder
    <3> QED
      BY <1>1, <2>6, <3>1, <3>2
  <2>11. Lite' => \A s \in Scripted(u)' : s <= lastSeq'[u] => Known(u, s)'
    BY <1>1, <2>1, <2>2, <2>6 DEF Tracked
  <2>12. /\ pc'[u] \in {"wait", "groups"} => read'[u] = 0
         /\ pc'[u] \in {"frames", "send"} => read'[u] <= Len(pub'[u][group'[u]])
         /\ \A g \in whole'[u] : Len(pub'[u][g]) = GroupSize
    BY <1>1, <2>1 DEF Tracked
  <2>13. Tracked(u)'
    BY <1>1, <2>8, <2>9, <2>10, <2>11, <2>12 DEF Tracked
  <2> QED
    BY <2>3, <2>4, <2>13
<1> QED
  BY <1>1, <1>10, <1>11 DEF Accounted

(* What the publisher writes comes after every earlier event, and a group  *)
(* that was read to its end is full.                                       *)
LEMMA PublishAccounted ==
  ASSUME Typed, Typed', Accounted, Publish
  PROVE  Accounted'
<1> SUFFICES ASSUME NEW t, NEW f, NEW n,
                    t = mode.script[pos].track, f = mode.script[pos].frame, n = pos
             PROVE  Accounted'
  OBVIOUS
<1>1. /\ UNCHANGED <<mode, sub, pc, group, read, lastSeq, item, chan, printing, printSeq,
                     printed, whole>>
      /\ printing /\ pos' = n + 1 /\ Put(t, f)
  BY DEF Publish, readers, printer
<1>2. /\ DOMAIN mode.script = 1 .. Len(mode.script) /\ n \in DOMAIN mode.script /\ n \in Nat
      /\ t \in AllTracks /\ f \in Frames /\ \A p \in DOMAIN mode.script : p \in Nat
  <2>1. pos \in Nat \ {0} /\ pos <= Len(mode.script)
    BY DEF Publish, Typed
  <2> QED
    BY <2>1, ScriptGrows
<1>3. /\ Base(t) /\ \A g \in DOMAIN pub[t] : Len(pub[t][g]) <= GroupSize
  BY <1>2 DEF Accounted, Base
<1>4. PICK G \in DOMAIN pub'[t] : \E I \in DOMAIN pub'[t][G] : Placed(t, f, G, I)
  BY <1>1, <1>2, <1>3, PutShape
<1>5. PICK I \in DOMAIN pub'[t][G] : Placed(t, f, G, I)
  BY <1>4
<1>20. /\ pub'[t][G][I] = f /\ I <= GroupSize
       /\ G = Len(pub'[t]) /\ I = Len(pub'[t][G])
       /\ Len(pub[t]) <= G /\ G <= Len(pub[t]) + 1
       /\ G \in DOMAIN pub[t] => I = Len(pub[t][G]) + 1
  BY <1>5 DEF Placed
<1>21. \A h \in DOMAIN pub[t] : h # G => pub'[t][h] = pub[t][h]
  BY <1>5 DEF Placed
<1>22. \A h \in DOMAIN pub[t] : \A i \in DOMAIN pub[t][h] :
         i \in DOMAIN pub'[t][h] /\ pub'[t][h][i] = pub[t][h][i]
  BY <1>5 DEF Placed
<1>23. \A h \in DOMAIN pub'[t] : \A i \in DOMAIN pub'[t][h] :
         \/ h = G /\ i = I
         \/ h \in DOMAIN pub[t] /\ i \in DOMAIN pub[t][h]
  BY <1>5 DEF Placed
<1>6. \A u \in AllTracks : u # t => pub'[u] = pub[u]
  BY <1>1, <1>2 DEF Put, Typed
<1>7. /\ Len(pub[t]) \in Nat /\ DOMAIN pub[t] = 1 .. Len(pub[t]) /\ G \in Nat /\ I \in Nat
      /\ Len(pub'[t]) \in Nat /\ DOMAIN pub'[t] = 1 .. G /\ GroupSize \in Nat
      /\ \A h \in DOMAIN pub[t] : /\ h \in Nat /\ Len(pub[t][h]) \in Nat
                                 /\ DOMAIN pub[t][h] = 1 .. Len(pub[t][h])
  <2>1. pub'[t] \in Seq(Seq(Frames))
    BY <1>2 DEF Typed
  <2>2. Len(pub'[t]) \in Nat /\ DOMAIN pub'[t] = 1 .. Len(pub'[t]) /\ pub'[t][G] \in Seq(Frames)
    BY <2>1, <1>4, Element
  <2>3. Len(pub'[t][G]) \in Nat
    <3> DEFINE S == pub'[t][G]
    <3>1. S \in Seq(Frames)
      BY <2>2
    <3> HIDE DEF S
    <3>2. Len(S) \in Nat
      BY <3>1
    <3> QED
      BY <3>2 DEF S
  <2>4. Len(pub[t]) \in Nat /\ DOMAIN pub[t] = 1 .. Len(pub[t]) /\ GroupSize \in Nat
    BY <1>2, Shapes
  <2>5. \A h \in DOMAIN pub[t] : Len(pub[t][h]) \in Nat /\ DOMAIN pub[t][h] = 1 .. Len(pub[t][h])
    BY <1>2, Shapes
  <2> QED
    <3>1. G = Len(pub'[t]) /\ I = Len(pub'[t][G])
      BY <1>20
    <3>2. G \in Nat /\ I \in Nat /\ DOMAIN pub'[t] = 1 .. G
      BY <2>2, <2>3, <3>1
    <3>3. \A h \in DOMAIN pub[t] : h \in Nat
      BY <2>4
    <3> QED
      BY <2>2, <2>4, <2>5, <3>2, <3>3
<1>8. DOMAIN pub[t] \subseteq DOMAIN pub'[t]
  <2>1. /\ Len(pub[t]) \in Nat /\ DOMAIN pub[t] = 1 .. Len(pub[t])
        /\ G \in Nat /\ DOMAIN pub'[t] = 1 .. G
    BY <1>7
  <2>2. Len(pub[t]) <= G
    BY <1>20
  <2> QED
    BY <2>1, <2>2
<1>24. \A g \in DOMAIN pub'[t] : g # G => g \in DOMAIN pub[t]
  <2>1. /\ Len(pub[t]) \in Nat /\ DOMAIN pub[t] = 1 .. Len(pub[t])
        /\ G \in Nat /\ DOMAIN pub'[t] = 1 .. G
    BY <1>7
  <2>2. G <= Len(pub[t]) + 1
    BY <1>20
  <2> QED
    BY <2>1, <2>2
<1>25. G \in DOMAIN pub[t] => Len(pub[t][G]) # GroupSize
  <2> SUFFICES ASSUME G \in DOMAIN pub[t] PROVE Len(pub[t][G]) # GroupSize
    OBVIOUS
  <2>1. Len(pub[t][G]) \in Nat /\ GroupSize \in Nat
    BY <1>7
  <2>2. I = Len(pub[t][G]) + 1 /\ I <= GroupSize
    BY <1>20
  <2> QED
    BY <2>1, <2>2
<1>9. \A u \in AllTracks : Grown(u) /\ Len(pub[u]) <= Len(pub'[u]) /\ Len(pub'[u]) \in Nat
  <2>1. Grown(t) /\ Len(pub[t]) <= Len(pub'[t]) /\ Len(pub'[t]) \in Nat
    BY <1>20, <1>7, <1>8, <1>22 DEF Grown
  <2>2. \A u \in AllTracks : Len(pub[u]) \in Nat
    BY Shapes
  <2> QED
    BY SMTT(40), <1>6, <2>1, <2>2 DEF Grown
<1>10. MarkPrinted'
  BY <1>1 DEF Accounted, MarkPrinted, Printed
<1>11. \A h \in DOMAIN pub[t] : Len(pub'[t][h]) = IF h = G THEN Len(pub[t][h]) + 1 ELSE Len(pub[t][h])
  BY <1>20, <1>21
<1>12. ASSUME NEW u \in AllTracks, NEW g \in DOMAIN pub'[u], NEW i \in DOMAIN pub'[u][g],
              HasRead(u, g, i)', printing => Tracked(u)
       PROVE  HasRead(u, g, i) /\ g \in DOMAIN pub[u] /\ i \in DOMAIN pub[u][g] /\ pub'[u][g][i] = pub[u][g][i]
  <2>1. HasRead(u, g, i)
    BY <1>1, <1>12 DEF HasRead
  <2>2. CASE u # t
    BY <1>6, <1>12, <2>1, <2>2
  <2>3. CASE u = t /\ g = G /\ i = I
    <3>1. G \in DOMAIN pub[t]
      <4>1. CASE G \in whole[t]
        BY <1>3, <4>1 DEF Base
      <4>2. CASE pc[t] \in {"frames", "send"} /\ G = group[t]
        BY <1>2, <1>7, <4>2 DEF Typed
      <4> QED
        BY <2>1, <2>3, <4>1, <4>2 DEF HasRead
    <3>2. I = Len(pub[t][G]) + 1 /\ Len(pub[t][G]) \in Nat
      BY <1>20, <1>7, <3>1
    <3>3. CASE G \in whole[t]
      <4>1. Len(pub[t][G]) = GroupSize
        BY <1>1, <1>12, <2>3, <3>3 DEF Tracked
      <4> QED
        BY <1>25, <3>1, <4>1
    <3>4. CASE pc[t] \in {"frames", "send"} /\ G = group[t] /\ I <= read[t]
      <4>1. read[t] <= Len(pub[t][G]) /\ read[t] \in Nat
        BY <1>1, <1>2, <1>12, <2>3, <3>4, Shapes DEF Tracked
      <4>2. I <= read[t] /\ I = Len(pub[t][G]) + 1 /\ Len(pub[t][G]) \in Nat
        BY <3>2, <3>4
      <4> QED
        BY <4>1, <4>2
    <3> QED
      BY <2>1, <2>3, <3>3, <3>4 DEF HasRead
  <2>4. CASE u = t /\ g \in DOMAIN pub[t] /\ i \in DOMAIN pub[t][g]
    BY <1>22, <2>1, <2>4
  <2> QED
    BY <1>12, <1>23, <2>2, <2>3, <2>4
<1>13. ASSUME NEW u \in AllTracks, NEW s, NEW g, NEW i, Before(u, s, g, i)
       PROVE  Before(u, s, g, i)'
  BY <1>9, <1>13 DEF Before, Grown
<1>14. ASSUME NEW u \in AllTracks
       PROVE  Base(u)' /\ NoneBelow(u)' /\ (printing' => Tracked(u)')
  <2>1. Base(u) /\ NoneBelow(u) /\ Tracked(u)
    BY <1>1 DEF Accounted
  <2>2. Scripted(u)' = Scripted(u) /\ Tracks' = Tracks /\ (Lite' <=> Lite)
    BY <1>1 DEF Scripted, Tracks, Lite
  <2>3. ASSUME NEW s
        PROVE  /\ Settled(u, s) => Settled(u, s)'
               /\ \A m : Ahead(u, s, m) => Ahead(u, s, m)'
               /\ Known(u, s) => Known(u, s)'
    <3>1. Skipped(u, s) => Skipped(u, s)'
      BY <1>1, <1>9, <2>1, SkippedInPlace
    <3>2. Settled(u, s) => Settled(u, s)'
      BY <1>1, <3>1 DEF Settled, Printed
    <3>3. \A m : Ahead(u, s, m) => Ahead(u, s, m)'
      BY <1>1 DEF Ahead
    <3> QED
      BY <1>1, <3>2, <3>3 DEF Known, Sending
  <2>4. ASSUME NEW p \in DOMAIN mode.script, p < n,
               mode.script[p].track = u, mode.script[p].frame > 0
        PROVE  \E g \in DOMAIN pub[u] : \E i \in DOMAIN pub[u][g] : pub[u][g][i] = mode.script[p].frame
    BY <2>1, <2>4 DEF Base, WrittenInOrder
  <2>5. ASSUME NEW p \in DOMAIN mode.script, p < pos',
               mode.script[p].track = u, mode.script[p].frame > 0
        PROVE  \E g \in DOMAIN pub'[u] : \E i \in DOMAIN pub'[u][g] : pub'[u][g][i] = mode.script[p].frame
    <3>1. CASE p = n
      BY <1>20, <2>5, <3>1
    <3>2. CASE p # n
      <4>1. p < n
        BY <1>1, <1>2, <2>5, <3>2
      <4>2. PICK g \in DOMAIN pub[u] : \E i \in DOMAIN pub[u][g] : pub[u][g][i] = mode.script[p].frame
        BY <2>4, <2>5, <4>1
      <4> QED
        BY <1>9, <4>2 DEF Grown
    <3> QED
      BY <3>1, <3>2
  <2>6. ASSUME NEW g \in DOMAIN pub'[u], NEW i \in DOMAIN pub'[u][g], pub'[u][g][i] > 0
        PROVE  /\ pub'[u][g][i] \in Scripted(u)
               /\ \A s \in Scripted(u) : s < pub'[u][g][i] => Before(u, s, g, i)'
    <3>1. CASE g \in DOMAIN pub[u] /\ i \in DOMAIN pub[u][g]
      <4>1. pub'[u][g][i] = pub[u][g][i]
        BY <1>9, <3>1 DEF Grown
      <4> QED
        BY <1>13, <2>1, <2>6, <3>1, <4>1 DEF Base, WrittenInOrder
    <3>2. CASE u = t /\ g = G /\ i = I
      <4>1. f > 0 /\ f \in Nat /\ pub'[u][g][i] = f
        BY <1>2, <1>20, <2>6, <3>2 DEF Frames, Garbage
      <4>2. f \in Scripted(t)
        BY <1>2, <4>1 DEF Scripted
      <4>3. ASSUME NEW s \in Scripted(t), s < f PROVE Before(t, s, G, I)'
        <5>1. PICK p \in DOMAIN mode.script : mode.script[p].track = t /\ mode.script[p].frame = s
          BY DEF Scripted
        <5>2. s > 0 /\ s \in Nat
          BY DEF Scripted
        <5>3. p < n
          <6>1. p # n
            BY <4>1, <4>3, <5>1, <5>2
          <6>2. ~(n < p)
            <7> SUFFICES ASSUME n < p PROVE FALSE
              OBVIOUS
            <7>1. f < s
              BY <1>2, <5>1, <5>2, ScriptGrows
            <7> QED
              BY <4>1, <4>3, <5>2, <7>1
          <6> QED
            BY <1>2, <6>1, <6>2
        <5>4. PICK h \in DOMAIN pub[t] : \E j \in DOMAIN pub[t][h] : pub[t][h][j] = s
          BY <2>4, <3>2, <5>1, <5>2, <5>3
        <5>5. PICK j \in DOMAIN pub[t][h] : pub[t][h][j] = s
          BY <5>4
        <5>6. h < G \/ (h = G /\ j < I)
          <6>1. j \in Nat /\ j <= Len(pub[t][h]) /\ h \in Nat /\ h <= Len(pub[t]) /\ Len(pub[t][h]) \in Nat
            BY SMTT(40), <1>7
          <6>2. h <= G
            <7>1. Len(pub[t]) \in Nat /\ G \in Nat /\ Len(pub[t]) <= G
              BY <1>7, <1>20
            <7> QED
              BY <6>1, <7>1
          <6>3. h = G => I = Len(pub[t][h]) + 1
            BY <1>20
          <6> QED
            BY <1>7, <6>1, <6>2, <6>3
        <5>7. h \in DOMAIN pub'[t] /\ j \in DOMAIN pub'[t][h] /\ pub'[t][h][j] = s
          BY <1>8, <1>22, <5>5
        <5> QED
          BY <5>6, <5>7 DEF Before
      <4> QED
        BY <3>2, <4>1, <4>2, <4>3
    <3> QED
      BY <1>6, <1>23, <2>6, <3>1, <3>2
  <2>7. WrittenInOrder(u)'
    BY <1>1, <2>2, <2>5, <2>6 DEF WrittenInOrder
  <2>8. \A g \in DOMAIN pub'[u] : Len(pub'[u][g]) <= GroupSize
    <3>1. CASE u # t
      BY <1>6, <2>1, <3>1 DEF Base
    <3>2. CASE u = t
      <4> SUFFICES ASSUME NEW g \in DOMAIN pub'[t] PROVE Len(pub'[t][g]) <= GroupSize
        BY <3>2
      <4>1. CASE g = G
        BY <1>20, <4>1
      <4>2. CASE g # G
        <5>1. g \in DOMAIN pub[t]
          BY <1>24, <4>2
        <5> QED
          BY <1>3, <1>21, <4>2, <5>1
      <4> QED
        BY <4>1, <4>2
    <3> QED
      BY <3>1, <3>2
  <2>9. Base(u)'
    <3>1. whole'[u] \subseteq DOMAIN pub'[u]
      BY <1>1, <1>9, <2>1 DEF Base, Grown
    <3>2. pc'[u] \in {"frames", "send"} => sub'[u].from <= group'[u]
      BY <1>1, <2>1 DEF Base
    <3> QED
      BY <2>7, <2>8, <3>1, <3>2 DEF Base
  <2>10. NoneBelow(u)'
    BY <1>1, <2>1, <2>2, <2>3 DEF NoneBelow
  <2>11. \A g \in DOMAIN pub'[u] : \A i \in DOMAIN pub'[u][g] :
           pub'[u][g][i] > 0 /\ HasRead(u, g, i)' => Known(u, pub[u][g][i])' /\ pub'[u][g][i] = pub[u][g][i]
    BY <1>12, <2>1, <2>3 DEF Tracked
  <2>12. /\ pc'[u] \in {"wait", "groups"} => read'[u] = 0
         /\ pc'[u] \in {"frames", "send"} => read'[u] <= Len(pub'[u][group'[u]])
         /\ \A g \in whole'[u] : Len(pub'[u][g]) = GroupSize
    <3>1. CASE u # t
      BY <1>1, <1>6, <2>1, <3>1 DEF Tracked
    <3>2. CASE u = t
      <4>1. pc[t] \in {"frames", "send"} => read[t] <= Len(pub'[t][group[t]])
        <5> SUFFICES ASSUME pc[t] \in {"frames", "send"} PROVE read[t] <= Len(pub'[t][group[t]])
          OBVIOUS
        <5>1. group[t] \in DOMAIN pub[t]
          BY <1>2, <1>7 DEF Typed
        <5>2. read[t] <= Len(pub[t][group[t]]) /\ read[t] \in Nat
          BY <1>2, <2>1, <3>2, Shapes DEF Tracked
        <5>3. /\ Len(pub[t][group[t]]) \in Nat
              /\ \/ Len(pub'[t][group[t]]) = Len(pub[t][group[t]])
                 \/ Len(pub'[t][group[t]]) = Len(pub[t][group[t]]) + 1
          BY <1>7, <1>11, <5>1
        <5> QED
          BY <5>2, <5>3
      <4>2. \A g \in whole[t] : g # G
        <5> SUFFICES ASSUME G \in whole[t] PROVE FALSE
          OBVIOUS
        <5>1. G \in DOMAIN pub[t] /\ Len(pub[t][G]) = GroupSize
          BY <2>1, <3>2 DEF Base, Tracked
        <5> QED
          BY <1>25, <5>1
      <4>3. \A g \in whole[t] : Len(pub'[t][g]) = GroupSize
        BY <1>21, <2>1, <3>2, <4>2 DEF Base, Tracked
      <4> QED
        BY <1>1, <2>1, <3>2, <4>1, <4>3 DEF Tracked
    <3> QED
      BY <3>1, <3>2
  <2>13. \A k \in DOMAIN chan' : chan'[k].track = u =>
           /\ u \in Tracks' /\ (chan'[k].frame > 0 => chan'[k].frame \in Scripted(u)')
           /\ \A s \in Scripted(u)' : s < chan'[k].frame => Settled(u, s)' \/ Ahead(u, s, k - 1)'
    BY <1>1, <2>1, <2>2, <2>3 DEF Tracked
  <2>14. pc'[u] = "send" =>
           /\ u \in Tracks' /\ (item'[u] > 0 => item'[u] \in Scripted(u)')
           /\ \A s \in Scripted(u)' : s < item'[u] => Settled(u, s)' \/ Ahead(u, s, Len(chan))'
    BY <1>1, <2>1, <2>2, <2>3 DEF Tracked
  <2>15. Lite' => \A s \in Scripted(u)' : s <= lastSeq'[u] => Known(u, s)'
    BY <1>1, <2>1, <2>2, <2>3 DEF Tracked
  <2>16. Tracked(u)'
    BY <2>11, <2>12, <2>13, <2>14, <2>15 DEF Tracked
  <2> QED
    BY <2>9, <2>10, <2>16
<1> QED
  BY <1>1, <1>10, <1>14 DEF Accounted

(* All steps keep the accounts.                                            *)
LEMMA AccountedNext == Typed /\ Typed' /\ Accounted /\ [Next]_vars => Accounted'
BY Steps, Scenario, QuietAccounted, GroupDoneAccounted, ReadFrameAccounted, SendAccounted,
   PrintEventAccounted, PublishAccounted

(* An event that is missing below what a track has printed, from a group   *)
(* its reader read to the end, had a copy in a group the reader was not    *)
(* given, or did not get to the end of: no gap is of the CLI's making,     *)
(* however the publisher and the network behave.                           *)
THEOREM GapsAreExplained == Spec => []GapsExplained
<1>1. Init => Typed /\ Accounted
  <2> SUFFICES ASSUME Init PROVE Typed /\ Accounted
    OBVIOUS
  <2>1. Typed
    BY DEF Init, Typed, NoSub, NoItem, Oldest
  <2>2. MarkPrinted
    BY DEF Init, MarkPrinted, Oldest
  <2>3. ASSUME NEW t \in AllTracks PROVE Base(t) /\ NoneBelow(t) /\ Tracked(t)
    <3>1. /\ pub[t] = <<>> /\ whole[t] = {} /\ pc[t] = "wait" /\ printed[t] = <<>> /\ chan = <<>>
          /\ pos = 1 /\ read[t] = 0 /\ lastSeq[t] = Oldest
      BY DEF Init
    <3>2. DOMAIN pub[t] = {} /\ DOMAIN printed[t] = {} /\ DOMAIN chan = {}
      BY <3>1
    <3>3. \A p \in DOMAIN mode.script : ~(p < pos)
      BY <2>1, <3>1, ScriptGrows
    <3>4. \A s \in Scripted(t) : ~(s <= lastSeq[t])
      BY <3>1 DEF Scripted, Oldest
    <3> QED
      BY <3>1, <3>2, <3>3, <3>4 DEF Base, WrittenInOrder, NoneBelow, Tracked
  <2>4. whole \in [AllTracks -> SUBSET Nat]
    BY DEF Init
  <2> QED
    BY <2>1, <2>2, <2>3, <2>4 DEF Accounted
<1>2. Typed /\ Accounted => GapsExplained
  <2> SUFFICES ASSUME Typed, Accounted, NEW t \in AllTracks, NEW g \in whole[t],
                      NEW s \in Events(t, g), ~Printed(t, s),
                      NEW i \in DOMAIN printed[t], ~(printed[t][i] < s)
               PROVE  \E h \in 1 .. Written(t) : h \notin whole[t] /\ s \in Events(t, h)
    BY DEF GapsExplained
  <2>1. Base(t) /\ NoneBelow(t) /\ g \in DOMAIN pub[t]
    BY DEF Accounted, Base
  <2>2. s \in Nat /\ s > 0 /\ s # NoSeq /\ s # Garbage
    <3>1. PICK k \in DOMAIN pub[t][g] : pub[t][g][k] = s /\ s # NoSeq /\ s # Garbage
      BY DEF Events
    <3>2. pub[t][g][k] \in Frames
      BY <2>1, Shapes
    <3> QED
      BY <3>1, <3>2 DEF Frames, NoSeq, Garbage
  <2>3. s \in Scripted(t)
    BY <2>1, <2>2 DEF Events, Base, WrittenInOrder
  <2>4. s < printed[t][i]
    <3>1. printed[t][i] # s /\ printed[t][i] \in Int
      BY Compared DEF Printed
    <3> QED
      BY <2>2, <3>1
  <2>5. Skipped(t, s)
    BY <2>1, <2>3, <2>4 DEF NoneBelow, Settled
  <2>6. DOMAIN pub[t] = 1 .. Written(t)
    BY Shapes DEF Written
  <2> QED
    BY <2>2, <2>5, <2>6 DEF Skipped, Events
<1> QED
  BY <1>1, <1>2, TypedNext, AccountedNext, PTL DEF Spec

=============================================================================
