----------------------------- MODULE PumpProofs -----------------------------
(***************************************************************************)
(* Machine-checked proofs about Pump.tla, for every upstream, channel      *)
(* capacity, group size and number of faults.                              *)
(***************************************************************************)
EXTENDS Pump, FiniteSetTheorems, TLAPS

Cursors  == Nat \cup {Unset}
Messages == Valid \cup {InfoFrame, ErrorFrame}
InChan(x) == \E i \in 1 .. Len(chan) : chan[i] = x
InOut(x)  == \E i \in 1 .. Len(out) : out[i] = x

Typed ==
  /\ head \in 0 .. MaxSeq /\ pos \in Nat
  /\ ingest \in {"off", "load", "connect", "backoff", "read", "send"}
  /\ ingest = "connect" => inHand \in Cursors
  /\ ingest = "send" => inHand \in Messages
  /\ chan \in Seq(Messages)
  /\ pump \in {"down", "select", "publish", "store", "finish", "exit"}
  /\ pump = "publish" => frame \in Valid \cup {InfoFrame}
  /\ last \in Cursors /\ base \in Cursors /\ flag \in Cursors /\ cursorFile \in Cursors
  /\ out \in Seq(Valid) /\ open \in Seq(Valid \cup {InfoFrame})
  /\ published \subseteq Valid
  /\ crashes \in Nat

(* What a run has published lies between its first cursor and last_seq,    *)
(* and an event in the pump's hand is above all of it.                     *)
Ordered ==
  /\ PublishedOnceInOrder
  /\ pump # "down" =>
       /\ base <= last
       /\ \A i \in 1 .. Len(out) : base < out[i] /\ out[i] <= last
  /\ pump = "publish" /\ frame # InfoFrame =>
       /\ frame = last /\ base < last
       /\ \A i \in 1 .. Len(out) : out[i] < frame

(* The stream has no hole above last_seq: an event on its way comes after  *)
(* all valid events between last_seq and itself.  Nothing is on its way    *)
(* when the process starts.                                                *)
Gapless ==
  /\ pump = "down" => ingest = "off" /\ chan = <<>>
  /\ pump # "down" /\ base # Unset =>
    /\ last # Unset
    /\ \A i \in 1 .. Len(chan) : \A x \in Valid :
         last < x /\ x < chan[i] => \E j \in 1 .. i - 1 : chan[j] = x
    /\ ingest = "connect" => inHand # Unset /\ inHand <= last
    /\ ingest = "read" => \A x \in Valid : last < x /\ x <= pos => InChan(x)
    /\ ingest = "send" => \A x \in Valid :
         /\ last < x /\ x < inHand => InChan(x)
         /\ last < x /\ x <= pos => InChan(x) \/ x = inHand

(* All of the run's events up to last_seq are published, or in the pump's  *)
(* hand.                                                                   *)
AllRelayed ==
  \A x \in Valid : base < x /\ x <= last =>
    InOut(x) \/ (pump = "publish" /\ x = frame)

Relayed ==
  /\ pump # "down" /\ base # Unset => AllRelayed
  /\ ResumedWithoutGap

(* The same over all runs, from the first cursor on.                       *)
Covered ==
  /\ flag # Unset => base # Unset
  /\ pump # "down" /\ flag # Unset =>
       \A x \in Valid : flag < x /\ x <= last =>
         x \in published \/ (pump = "publish" /\ x = frame)
  /\ CursorCoversPublished

(* The open group is full only while it is being stored, and a stopped     *)
(* publisher has none.                                                     *)
Lost == published \ (stored \cup Events(open))

Bounded ==
  /\ IF pump = "store" THEN Len(open) = GroupSize ELSE Len(open) < GroupSize
  /\ pump = "exit" => open = <<>>
  /\ Cardinality(Lost) <= crashes * GroupSize

IInv == Typed /\ Ordered /\ Gapless /\ Relayed /\ Covered /\ Bounded

-----------------------------------------------------------------------------
(* What a queue is after one element was added.                            *)
LEMMA Appended ==
  ASSUME NEW S, NEW s \in Seq(S), NEW x \in S
  PROVE  /\ Append(s, x) \in Seq(S)
         /\ Len(Append(s, x)) = Len(s) + 1 /\ Len(s) \in Nat
         /\ \A i \in 1 .. Len(s) : Append(s, x)[i] = s[i] /\ s[i] \in S
         /\ Append(s, x)[Len(s) + 1] = x
  OBVIOUS

(* What it is after one was taken from its head.                           *)
LEMMA Dequeued ==
  ASSUME NEW S, NEW s \in Seq(S), s # <<>>
  PROVE  /\ Tail(s) \in Seq(S) /\ Head(s) \in S /\ Head(s) = s[1]
         /\ Len(Tail(s)) = Len(s) - 1 /\ Len(s) \in Nat /\ Len(s) > 0
         /\ \A i \in 1 .. Len(Tail(s)) : Tail(s)[i] = s[i + 1]
  OBVIOUS

(* Every frame is a number, and a valid one is an event of the upstream.   *)
LEMMA Numbers ==
  /\ Valid \subseteq Nat \ {0} /\ Valid \subseteq 1 .. MaxSeq
  /\ Messages \subseteq Int
  /\ InfoFrame \notin Valid /\ ErrorFrame \notin Valid /\ Nothing \notin Messages
  /\ MaxSeq \in Nat
  BY PumpAssumption DEF Valid, Messages, InfoFrame, ErrorFrame, Nothing

(* Type correctness, action by action.                                     *)
LEMMA TypedNext == Typed /\ [Next]_vars => Typed'
<1> SUFFICES ASSUME Typed, [Next]_vars PROVE Typed'
  OBVIOUS
<1> USE DEF upstream, reader, sink, counts, start
<1>1. CASE Emit
  BY <1>1, Numbers DEF Typed, Emit
<1>2. CASE \E how \in {"closed", "silent"} : Disturb(how)
  BY <1>2 DEF Typed, Disturb
<1>3. CASE LoadCursor
  BY <1>3 DEF Typed, LoadCursor, ResumeCursor
<1>4. CASE Connect
  BY <1>4, Numbers DEF Typed, Connect, Cursors, Messages
<1>5. CASE ConnectFails
  BY <1>5 DEF Typed, ConnectFails
<1>6. CASE Read
  BY <1>6, Numbers DEF Typed, Read, Messages, Valid
<1>7. CASE Send
  BY <1>7, Appended DEF Typed, Send
<1>8. CASE Disconnected \/ BackoffOver
  BY <1>8 DEF Typed, Disconnected, BackoffOver
<1>9. CASE Receive
  <2>1. Tail(chan) \in Seq(Messages) /\ Head(chan) \in Messages
    BY <1>9, Dequeued DEF Typed, Receive
  <2> QED
    BY <1>9, <2>1, Numbers DEF Typed, Receive, Messages, Cursors, InfoFrame
<1>10. CASE Publish
  <2>1. open' \in Seq(Valid \cup {InfoFrame})
    BY <1>10 DEF Typed, Publish
  <2>2. out' \in Seq(Valid)
    <3>1. frame # InfoFrame => Append(out, frame) \in Seq(Valid)
      BY <1>10 DEF Typed, Publish
    <3> QED
      BY <1>10, <3>1 DEF Typed, Publish
  <2> QED
    BY <1>10, <2>1, <2>2 DEF Typed, Publish
<1>11. CASE CursorTick
  BY <1>11 DEF Typed, CursorTick, PersistCursor, CursorToWrite, Cursors
<1>12. CASE Sigterm
  BY <1>12 DEF Typed, Sigterm
<1>13. CASE StoreGroup \/ Finish
  <2>1. <<>> \in Seq(Valid \cup {InfoFrame})
    OBVIOUS
  <2> QED
    BY <1>13, <2>1 DEF Typed, StoreGroup, Finish
<1>14. CASE Exit
  BY <1>14 DEF Typed, Exit, ProcessEnds, PersistCursor, CursorToWrite, Cursors
<1>15. CASE Crash
  BY <1>15 DEF Typed, Crash, ProcessEnds
<1>16. CASE Start
  BY <1>16 DEF Typed, Start, InitialCursor
<1>17. CASE UNCHANGED vars
  BY <1>17 DEF Typed, vars
<1> QED
  BY <1>1, <1>2, <1>3, <1>4, <1>5, <1>6, <1>7, <1>8, <1>9, <1>10, <1>11, <1>12,
     <1>13, <1>14, <1>15, <1>16, <1>17 DEF Next, IngestStep, PumpStep

(* The numbers the properties compare.                                     *)
LEMMA Compared ==
  ASSUME Typed
  PROVE  /\ last \in Int /\ base \in Int /\ flag \in Int /\ cursorFile \in Int
         /\ pos \in Int /\ head \in Int
         /\ Len(out) \in Nat /\ Len(chan) \in Nat /\ Len(open) \in Nat
         /\ \A i \in 1 .. Len(out) : out[i] \in Valid /\ out[i] \in Int
         /\ \A i \in 1 .. Len(chan) : chan[i] \in Messages /\ chan[i] \in Int
<1>1. Cursors \subseteq Int
  BY DEF Cursors, Unset
<1>2. \A i \in 1 .. Len(out) : out[i] \in Valid
  BY DEF Typed
<1>3. \A i \in 1 .. Len(chan) : chan[i] \in Messages
  BY DEF Typed
<1>4. Valid \subseteq Int /\ Messages \subseteq Int /\ 0 .. MaxSeq \subseteq Int
  BY Numbers
<1>5. /\ last \in Cursors /\ base \in Cursors /\ flag \in Cursors /\ cursorFile \in Cursors
      /\ pos \in Nat /\ head \in 0 .. MaxSeq
      /\ Len(out) \in Nat /\ Len(chan) \in Nat /\ Len(open) \in Nat
  BY DEF Typed
<1>6. \A i \in 1 .. Len(out) : out[i] \in Int
  BY <1>2, <1>4
<1>7. \A i \in 1 .. Len(chan) : chan[i] \in Int
  BY <1>3, <1>4
<1>8. pos \in Int
  BY DEF Typed
<1> QED
  BY <1>1, <1>2, <1>3, <1>4, <1>5, <1>6, <1>7, <1>8

-----------------------------------------------------------------------------
(* Order: last_seq is the mark below which an event is a duplicate.        *)
LEMMA OrderedNext == Typed /\ Ordered /\ [Next]_vars => Ordered'
<1> SUFFICES ASSUME Typed, Ordered, [Next]_vars PROVE Ordered'
  OBVIOUS
<1> USE DEF upstream, reader, sink, counts, start
<1>1. CASE Receive
  <2>1. /\ out' = out /\ base' = base /\ pump = "select"
        /\ Head(chan) \in Messages
    BY <1>1, Dequeued DEF Typed, Receive
  <2>2. /\ last \in Int /\ base \in Int /\ base <= last
        /\ \A i \in 1 .. Len(out) : out[i] \in Int /\ base < out[i] /\ out[i] <= last
    BY <2>1, Compared DEF Ordered
  <2>3. CASE pump' = "select" /\ last' = last
    BY <2>1, <2>2, <2>3 DEF Ordered, PublishedOnceInOrder
  <2>4. CASE pump' = "publish" /\ frame' = InfoFrame /\ last' = last
    BY <2>1, <2>2, <2>4 DEF Ordered, PublishedOnceInOrder
  <2>5. CASE /\ pump' = "publish" /\ frame' # InfoFrame
             /\ frame' = Head(chan) /\ last' = frame' /\ frame' > last
    <3>1. frame' \in Int
      BY <2>1, <2>5, Numbers
    <3>2. base < last' /\ \A i \in 1 .. Len(out) : base < out[i] /\ out[i] < last'
      BY <2>2, <2>5, <3>1
    <3>3. /\ base <= last' /\ \A i \in 1 .. Len(out) : out[i] <= last'
      BY <2>2, <2>5, <3>1, <3>2
    <3> QED
      BY <2>1, <2>5, <3>2, <3>3 DEF Ordered, PublishedOnceInOrder
  <2>6. Head(chan) \in Int
    BY <2>1, Numbers
  <2>7. \/ pump' = "select" /\ last' = last
        \/ pump' = "publish" /\ frame' = InfoFrame /\ last' = last
        \/ /\ pump' = "publish" /\ frame' # InfoFrame
           /\ frame' = Head(chan) /\ last' = frame' /\ frame' > last
    BY <1>1, <2>1, <2>2, <2>6 DEF Receive, AlreadyRelayed
  <2> QED
    BY <2>3, <2>4, <2>5, <2>7
<1>2. CASE Publish
  <2>1. /\ pump = "publish" /\ pump' \in {"select", "store"} /\ last' = last /\ base' = base
        /\ last \in Int /\ base \in Int /\ base <= last
        /\ \A i \in 1 .. Len(out) : base < out[i] /\ out[i] <= last
    BY <1>2, Compared DEF Publish, Ordered
  <2>2. CASE frame = InfoFrame
    BY <1>2, <2>1, <2>2 DEF Publish, Ordered, PublishedOnceInOrder
  <2>3. CASE frame # InfoFrame
    <3>1. /\ out' = Append(out, frame) /\ frame \in Valid /\ out \in Seq(Valid)
          /\ frame = last /\ base < last /\ \A i \in 1 .. Len(out) : out[i] < frame
          /\ \A i, j \in 1 .. Len(out) : i < j => out[i] < out[j]
      BY <1>2, <2>1, <2>3 DEF Typed, Publish, Ordered, PublishedOnceInOrder
    <3>2. /\ Len(out') = Len(out) + 1 /\ Len(out) \in Nat
          /\ \A i \in 1 .. Len(out) : out'[i] = out[i]
          /\ out'[Len(out) + 1] = frame
      BY <3>1, Appended
    <3>3. PublishedOnceInOrder'
      BY <3>1, <3>2 DEF PublishedOnceInOrder
    <3>4. \A i \in 1 .. Len(out') : base < out'[i] /\ out'[i] <= last
      BY <2>1, <3>1, <3>2
    <3> QED
      BY <2>1, <3>3, <3>4 DEF Ordered
  <2> QED
    BY <2>2, <2>3
<1>3. CASE Start
  <2>1. out' = <<>> /\ pump' = "select" /\ base' = last' /\ last' \in Int
    BY <1>3 DEF Typed, Start, InitialCursor, Cursors, Unset
  <2> QED
    BY <2>1 DEF Ordered, PublishedOnceInOrder
<1>4. CASE StoreGroup \/ Sigterm \/ Finish \/ Exit \/ Crash
  <2>1. /\ last' = last /\ base' = base /\ out' = out
        /\ pump' = "publish" => pump = "publish" /\ frame' = frame
        /\ pump' # "down" => pump # "down"
    BY <1>4 DEF StoreGroup, Sigterm, Finish, Exit, Crash, ProcessEnds
  <2> QED
    BY <2>1 DEF Ordered, PublishedOnceInOrder
<1>5. CASE \/ Emit \/ (\E how \in {"closed", "silent"} : Disturb(how))
           \/ LoadCursor \/ Connect \/ ConnectFails \/ Read \/ Send
           \/ Disconnected \/ BackoffOver \/ CursorTick \/ UNCHANGED vars
  <2>1. UNCHANGED <<last, base, out, pump, frame>>
    BY <1>5 DEF Emit, Disturb, LoadCursor, Connect, ConnectFails, Read, Send,
       Disconnected, BackoffOver, CursorTick, vars
  <2> QED
    BY <2>1 DEF Ordered, PublishedOnceInOrder
<1> QED
  BY <1>1, <1>2, <1>3, <1>4, <1>5 DEF Next, IngestStep, PumpStep

(* The stream keeps its order and has no holes above last_seq, over any    *)
(* number of connections.                                                  *)
LEMMA GaplessNext == Typed /\ Gapless /\ [Next]_vars => Gapless'
<1> SUFFICES ASSUME Typed, Gapless, [Next]_vars PROVE Gapless'
  OBVIOUS
<1> USE DEF upstream, reader, sink, counts, start
<1>1. CASE Receive
  <2>1. /\ chan' = Tail(chan) /\ chan # <<>> /\ chan \in Seq(Messages)
        /\ UNCHANGED <<ingest, inHand, pos, base>>
        /\ pump = "select" /\ pump' # "down"
        /\ last' = last \/ (last' = Head(chan) /\ last' > last /\ Head(chan) # InfoFrame)
        /\ Head(chan) > last => Head(chan) \in {InfoFrame, ErrorFrame} \/ last' = Head(chan)
    <3>1. last \in Int /\ Head(chan) \in Int
      BY <1>1, Compared, Dequeued, Numbers DEF Typed, Receive
    <3> QED
      BY <1>1, <3>1 DEF Typed, Receive, AlreadyRelayed
  <2>2. /\ Len(chan') = Len(chan) - 1 /\ Len(chan) \in Nat /\ Head(chan) = chan[1]
        /\ \A i \in 1 .. Len(chan') : chan'[i] = chan[i + 1]
    BY <2>1, Dequeued
  <2>3. SUFFICES ASSUME base # Unset PROVE Gapless'
    BY <2>1 DEF Gapless
  <2>4. last \in Int /\ last' \in Int /\ last <= last' /\ last # Unset
    <3>1. last \in Int /\ \A i \in 1 .. Len(chan) : chan[i] \in Int
      BY Compared
    <3>2. 1 \in 1 .. Len(chan)
      BY <2>1, <2>2
    <3>3. last # Unset
      BY <2>1, <2>3 DEF Gapless
    <3> QED
      BY <2>1, <2>2, <3>1, <3>2, <3>3
  <2>5. last' # Unset
    BY <2>1, <2>4, Compared DEF Typed, Cursors, Unset
  <2>6. ASSUME NEW x \in Valid, last' < x, NEW i \in 1 .. Len(chan), chan[i] = x
        PROVE  i # 1
    <3>1. x \in Int /\ x # InfoFrame /\ x # ErrorFrame
      BY Numbers
    <3> QED
      BY <2>1, <2>2, <2>4, <2>6, <3>1
  <2>7. ASSUME NEW x \in Valid, last' < x, InChan(x)
        PROVE  InChan(x)'
    <3>1. PICK i \in 1 .. Len(chan) : chan[i] = x
      BY <2>7 DEF InChan
    <3>2. i # 1
      BY <2>6, <2>7, <3>1
    <3>3. i - 1 \in 1 .. Len(chan') /\ chan'[i - 1] = x
      BY <2>2, <3>1, <3>2
    <3> QED
      BY <3>3 DEF InChan
  <2>8. ASSUME NEW i \in 1 .. Len(chan'), NEW x \in Valid, last' < x, x < chan'[i]
        PROVE  \E j \in 1 .. i - 1 : chan'[j] = x
    <3>1. i + 1 \in 1 .. Len(chan) /\ chan'[i] = chan[i + 1] /\ last < x
      BY <2>2, <2>4, <2>8, Numbers
    <3>2. PICK j \in 1 .. i : chan[j] = x
      BY <2>1, <2>3, <2>8, <3>1 DEF Gapless
    <3>3. j # 1
      BY <2>2, <2>6, <2>8, <3>1, <3>2
    <3>4. j - 1 \in 1 .. i - 1 /\ chan'[j - 1] = x
      BY <2>2, <3>2, <3>3
    <3> QED
      BY <3>4
  <2>9. ingest' = "connect" => inHand' # Unset /\ inHand' <= last'
    <3>1. ingest = "connect" => inHand \in Int
      BY DEF Typed, Cursors, Unset
    <3> QED
      BY <2>1, <2>3, <2>4, <3>1 DEF Gapless
  <2>10. \A x \in Valid : last' < x => last < x
    BY <2>4, Numbers
  <2> QED
    BY <2>1, <2>3, <2>5, <2>7, <2>8, <2>9, <2>10 DEF Gapless
<1>2. CASE Send
  <2>1. /\ chan' = Append(chan, inHand) /\ chan \in Seq(Messages) /\ inHand \in Messages
        /\ UNCHANGED <<last, pos, base, pump>>
        /\ ingest = "send" /\ ingest' = "read"
    BY <1>2 DEF Typed, Send
  <2>2. /\ Len(chan') = Len(chan) + 1 /\ Len(chan) \in Nat
        /\ \A i \in 1 .. Len(chan) : chan'[i] = chan[i]
        /\ chan'[Len(chan) + 1] = inHand
    BY <2>1, Appended
  <2>3. \A x : InChan(x) \/ x = inHand => InChan(x)'
    BY <2>2 DEF InChan
  <2>4. ASSUME NEW i \in 1 .. Len(chan'), NEW x \in Valid, last < x, x < chan'[i],
               pump # "down", base # Unset
        PROVE  \E j \in 1 .. i - 1 : chan'[j] = x
    <3>1. CASE i \in 1 .. Len(chan)
      <4>1. PICK j \in 1 .. i - 1 : chan[j] = x
        BY <2>2, <2>4, <3>1 DEF Gapless
      <4> QED
        BY <2>2, <3>1, <4>1
    <3>2. CASE i = Len(chan) + 1
      BY <2>1, <2>2, <2>4, <3>2 DEF Gapless, InChan
    <3> QED
      BY <2>2, <3>1, <3>2
  <2> QED
    BY <2>1, <2>3, <2>4 DEF Gapless
<1>3. CASE Read
  <2>1. /\ UNCHANGED <<last, base, pump, chan>> /\ pos' = pos + 1 /\ pos \in Nat
        /\ ingest = "read"
        /\ \/ ingest' = "read" /\ pos + 1 \notin Valid
           \/ ingest' = "send" /\ inHand' = pos + 1
    BY <1>3 DEF Typed, Read, Valid
  <2>2. \A x \in Valid : x <= pos + 1 => x <= pos \/ x = pos + 1
    BY <2>1, Numbers
  <2>3. \A x \in Valid : x < pos + 1 => x <= pos
    BY <2>1, Numbers
  <2>4. CASE ingest' = "read" /\ pos + 1 \notin Valid
    BY <2>1, <2>2, <2>4 DEF Gapless, InChan
  <2>5. CASE ingest' = "send" /\ inHand' = pos + 1
    BY <2>1, <2>2, <2>3, <2>5 DEF Gapless, InChan
  <2> QED
    BY <2>1, <2>4, <2>5
<1>4. CASE Connect
  <2>1. /\ UNCHANGED <<last, base, pump, chan>> /\ ingest = "connect"
        /\ ingest' \in {"read", "send"}
        /\ ingest' = "send" => inHand' \in {InfoFrame, ErrorFrame}
        /\ inHand # Unset => pos' = inHand
    BY <1>4 DEF Connect
  <2>2. last \in Int /\ inHand \in Int
    BY <2>1, Compared DEF Typed, Cursors, Unset
  <2>3. CASE pump # "down" /\ base # Unset
    <3>1. pos' <= last /\ pos' \in Int
      BY <2>1, <2>2, <2>3 DEF Gapless
    <3>2. \A x \in Valid : ~(last < x /\ x <= pos')
      BY <2>2, <3>1, Numbers
    <3>3. ingest' = "send" => \A x \in Valid : ~(x < inHand')
      BY <2>1, Numbers DEF InfoFrame, ErrorFrame
    <3> QED
      BY <2>1, <2>3, <3>2, <3>3 DEF Gapless
  <2>4. CASE ~(pump # "down" /\ base # Unset)
    BY <2>1, <2>4 DEF Gapless
  <2> QED
    BY <2>3, <2>4
<1>5. CASE LoadCursor
  <2>1. /\ UNCHANGED <<last, base, pump, chan, pos>> /\ ingest = "load"
        /\ ingest' = "connect" /\ inHand' = last /\ last \in Int
    BY <1>5, Compared DEF LoadCursor, ResumeCursor
  <2> QED
    BY <2>1 DEF Gapless
<1>6. CASE ConnectFails \/ Disconnected \/ BackoffOver
  <2>1. /\ UNCHANGED <<last, base, pump, chan>>
        /\ ingest # "off" /\ ingest' \in {"backoff", "load"}
    BY <1>6 DEF ConnectFails, Disconnected, BackoffOver
  <2> QED
    BY <2>1 DEF Gapless
<1>7. CASE Start
  <2>1. /\ chan' = <<>> /\ last' = base' /\ ingest' = "load" /\ pump' = "select"
    BY <1>7 DEF Start, Gapless
  <2> QED
    BY <2>1 DEF Gapless
<1>8. CASE Exit \/ Crash
  BY <1>8 DEF Exit, Crash, ProcessEnds, Gapless
<1>9. CASE \/ Emit \/ (\E how \in {"closed", "silent"} : Disturb(how))
           \/ Publish \/ StoreGroup \/ Finish \/ CursorTick \/ Sigterm
           \/ UNCHANGED vars
  <2>1. /\ UNCHANGED <<last, base, chan, ingest, inHand, pos>>
        /\ pump' = "down" <=> pump = "down"
    BY <1>9 DEF Emit, Disturb, Publish, StoreGroup, Finish, CursorTick, Sigterm, vars
  <2> QED
    BY <2>1 DEF Gapless, InChan
<1> QED
  BY <1>1, <1>2, <1>3, <1>4, <1>5, <1>6, <1>7, <1>8, <1>9 DEF Next, IngestStep, PumpStep

(* Within a run events are published once and in order, however often the  *)
(* connection is lost and whatever the upstream sends again.               *)
THEOREM InOrder == Spec => []PublishedOnceInOrder
<1>1. Init => Typed /\ Ordered
  <2> SUFFICES ASSUME Init PROVE Typed /\ Ordered
    OBVIOUS
  <2>1. Typed
    BY PumpAssumption DEF Init, Typed, Cursors
  <2>2. Ordered
    BY DEF Init, Ordered, PublishedOnceInOrder
  <2> QED
    BY <2>1, <2>2
<1>2. Typed /\ Ordered /\ [Next]_vars => (Typed /\ Ordered)'
  BY TypedNext, OrderedNext
<1>3. Typed /\ Ordered => PublishedOnceInOrder
  BY DEF Ordered
<1> QED
  BY <1>1, <1>2, <1>3, PTL DEF Spec

-----------------------------------------------------------------------------
(* When last_seq moves, it moves to the next valid event of the stream.    *)
LEMMA NextInLine ==
  ASSUME Typed, Gapless, Receive, base # Unset
  PROVE  \A x \in Valid : x <= last' =>
           x <= last \/ (pump' = "publish" /\ x = frame')
<1>1. /\ chan # <<>> /\ pump = "select" /\ last # Unset
  BY DEF Receive, Gapless
<1>2. 1 \in 1 .. Len(chan) /\ Head(chan) = chan[1]
  BY <1>1 DEF Typed
<1>3. \A x \in Valid : ~(last < x /\ x < Head(chan))
  <2>1. 1 .. 1 - 1 = {}
    OBVIOUS
  <2> QED
    BY <1>1, <1>2, <2>1 DEF Gapless
<1>4. last \in Int /\ Head(chan) \in Int /\ Valid \subseteq Int
  BY <1>2, Compared, Numbers
<1>5. last' = last \/ (pump' = "publish" /\ frame' = Head(chan) /\ last' = frame')
  BY DEF Receive
<1>6. CASE last' = last
  BY <1>6
<1>7. CASE pump' = "publish" /\ frame' = Head(chan) /\ last' = frame'
  <2> SUFFICES ASSUME NEW x \in Valid, x <= Head(chan), ~(x <= last)
               PROVE  x = Head(chan)
    BY <1>7
  <2>1. x \in Int
    BY <1>4
  <2> QED
    BY <1>3, <1>4, <2>1
<1> QED
  BY <1>5, <1>6, <1>7

(* What ResumedWithoutGap says of a run follows from what the pump has     *)
(* relayed, in every state between two frames.                             *)
LEMMA NoGapBetween ==
  Typed /\ Ordered /\ pump # "down" /\ base # Unset /\ AllRelayed => ResumedWithoutGap
<1> SUFFICES ASSUME Typed, Ordered, pump # "down", base # Unset, AllRelayed, out # <<>>
             PROVE  {out[i] : i \in 1 .. Len(out)}
                      = {x \in Valid : base < x /\ x <= out[Len(out)]}
  BY DEF ResumedWithoutGap
<1>1. /\ Len(out) \in 1 .. Len(out) /\ Len(out) \in Nat /\ last \in Int /\ base \in Int
      /\ \A i \in 1 .. Len(out) : /\ out[i] \in Valid /\ out[i] \in Int
                                 /\ base < out[i] /\ out[i] <= last
      /\ \A i \in 1 .. Len(out) : i < Len(out) => out[i] < out[Len(out)]
  <2>1. Len(out) \in Nat /\ Len(out) # 0
    BY DEF Typed
  <2> QED
    BY <2>1, Compared DEF Ordered, PublishedOnceInOrder
<1>2. ASSUME NEW i \in 1 .. Len(out)
      PROVE  out[i] \in Valid /\ base < out[i] /\ out[i] <= out[Len(out)]
  BY <1>1
<1>3. ASSUME NEW x \in Valid, base < x, x <= out[Len(out)]
      PROVE  \E i \in 1 .. Len(out) : x = out[i]
  <2>1. x <= last /\ x \in Int
    BY <1>1, <1>3, Numbers
  <2>2. CASE InOut(x)
    BY <2>2 DEF InOut
  <2>3. CASE pump = "publish" /\ x = frame
    <3>1. x # InfoFrame
      BY Numbers
    <3>2. out[Len(out)] < x
      BY <1>1, <2>3, <3>1 DEF Ordered
    <3> QED
      BY <1>1, <1>3, <2>1, <3>2
  <2> QED
    BY <1>3, <2>1, <2>2, <2>3 DEF AllRelayed
<1> QED
  BY <1>2, <1>3

(* Nothing valid is passed over within a run.                              *)
LEMMA RelayedNext ==
  Typed /\ Ordered /\ Gapless /\ Relayed /\ [Next]_vars => Relayed'
<1> SUFFICES ASSUME Typed, Ordered, Gapless, Relayed, [Next]_vars PROVE Relayed'
  OBVIOUS
<1> USE DEF upstream, reader, sink, counts, start
<1>1. Typed' /\ Ordered'
  BY TypedNext, OrderedNext
<1>2. pump # "down" /\ base # Unset => AllRelayed
  BY DEF Relayed
<1>3. ASSUME base' # Unset => AllRelayed', pump' # "down" PROVE Relayed'
  <2>1. ResumedWithoutGap'
    <3>1. CASE base' # Unset
      <4>1. (pump # "down")' /\ (base # Unset)' /\ AllRelayed'
        BY <1>3, <3>1
      <4> QED
        BY <1>1, <4>1, NoGapBetween, PTL
    <3>2. CASE ~(base' # Unset)
      BY <3>2 DEF ResumedWithoutGap
    <3> QED
      BY <3>1, <3>2
  <2> QED
    BY <1>3, <2>1 DEF Relayed
<1>4. CASE Receive
  <2>1. UNCHANGED <<out, base>> /\ pump = "select" /\ pump' # "down"
    BY <1>4 DEF Receive
  <2>2. base' # Unset => AllRelayed'
    BY <1>2, <1>4, <2>1, NextInLine DEF AllRelayed, InOut
  <2> QED
    BY <1>3, <2>1, <2>2
<1>5. CASE Publish
  <2>1. /\ pump = "publish" /\ pump' \in {"select", "store"} /\ UNCHANGED <<last, base>>
        /\ out \in Seq(Valid)
        /\ frame \in Valid => out' = Append(out, frame)
        /\ frame \notin Valid => out' = out
    BY <1>5, Numbers DEF Typed, Publish
  <2>2. \A x : InOut(x) => InOut(x)'
    BY <2>1, Appended DEF InOut
  <2>3. \A x \in Valid : x = frame => InOut(x)'
    <3> SUFFICES ASSUME frame \in Valid PROVE \E i \in 1 .. Len(out') : out'[i] = frame
      BY DEF InOut
    <3>1. Len(out') = Len(out) + 1 /\ Len(out) \in Nat /\ out'[Len(out) + 1] = frame
      BY <2>1, Appended
    <3> QED
      BY <3>1
  <2>4. base' # Unset => AllRelayed'
    BY <1>2, <2>1, <2>2, <2>3 DEF AllRelayed
  <2> QED
    BY <1>3, <2>1, <2>4
<1>6. CASE Start
  <2>1. pump' # "down" /\ last' = base' /\ last' \in Int
    BY <1>6 DEF Typed, Start, InitialCursor, Cursors, Unset
  <2>2. base' # Unset => AllRelayed'
    <3>1. \A x \in Valid : ~(base' < x /\ x <= last')
      BY <2>1, Numbers
    <3> QED
      BY <3>1 DEF AllRelayed
  <2> QED
    BY <1>3, <2>1, <2>2
<1>7. CASE Exit \/ Crash
  <2>1. pump' = "down" /\ UNCHANGED <<out, base>>
    BY <1>7 DEF Exit, Crash, ProcessEnds
  <2> QED
    BY <2>1 DEF Relayed, ResumedWithoutGap
<1>8. CASE \/ Emit \/ (\E how \in {"closed", "silent"} : Disturb(how))
           \/ LoadCursor \/ Connect \/ ConnectFails \/ Read \/ Send
           \/ Disconnected \/ BackoffOver \/ CursorTick \/ Sigterm \/ StoreGroup
           \/ Finish \/ UNCHANGED vars
  <2>1. /\ UNCHANGED <<out, base, last>>
        /\ pump' # "down" => pump # "down"
        /\ pump = "publish" => pump' = "publish" /\ frame' = frame
    BY <1>8 DEF Emit, Disturb, LoadCursor, Connect, ConnectFails, Read, Send,
       Disconnected, BackoffOver, CursorTick, Sigterm, StoreGroup, Finish, vars
  <2> QED
    BY <2>1 DEF Relayed, AllRelayed, ResumedWithoutGap, InOut
<1> QED
  BY <1>4, <1>5, <1>6, <1>7, <1>8 DEF Next, IngestStep, PumpStep

(* The cursor file is written between two frames, and names the newest     *)
(* event that was published.                                               *)
LEMMA CoveredNext == Typed /\ Gapless /\ Covered /\ [Next]_vars => Covered'
<1> SUFFICES ASSUME Typed, Gapless, Covered, [Next]_vars PROVE Covered'
  OBVIOUS
<1> USE DEF upstream, reader, sink, counts, start
<1>1. CASE Receive
  <2>1. UNCHANGED <<published, base, flag, cursorFile>> /\ pump = "select" /\ pump' # "down"
    BY <1>1 DEF Receive
  <2> QED
    BY <1>1, <2>1, NextInLine DEF Covered, CursorCoversPublished
<1>2. CASE Publish
  <2>1. /\ UNCHANGED <<last, base, flag, cursorFile>>
        /\ pump = "publish" /\ pump' \in {"select", "store"}
        /\ published \subseteq published'
        /\ \A x \in Valid : x = frame => x \in published'
    BY <1>2 DEF Publish
  <2> QED
    BY <2>1 DEF Covered, CursorCoversPublished
<1>3. CASE CursorTick \/ Exit
  <2>1. /\ UNCHANGED <<last, base, flag, published>> /\ pump \in {"select", "exit"}
        /\ pump' \in {pump, "down"}
        /\ cursorFile' \in {cursorFile, last}
    BY <1>3 DEF CursorTick, Exit, PersistCursor, CursorToWrite, ProcessEnds
  <2> QED
    BY <2>1 DEF Covered, CursorCoversPublished
<1>4. CASE Start
  <2>1. /\ UNCHANGED <<flag, cursorFile, published>>
        /\ last' = base' /\ base' \in {flag, cursorFile}
        /\ flag # Unset => base' # Unset
        /\ flag \in Int
    BY <1>4, Compared DEF Start, InitialCursor
  <2>2. \A x \in Valid : ~(flag < x /\ x <= flag)
    BY <2>1, Numbers
  <2> QED
    BY <2>1, <2>2 DEF Covered, CursorCoversPublished
<1>5. CASE \/ Emit \/ (\E how \in {"closed", "silent"} : Disturb(how))
           \/ LoadCursor \/ Connect \/ ConnectFails \/ Read \/ Send
           \/ Disconnected \/ BackoffOver \/ Sigterm \/ StoreGroup \/ Finish
           \/ Crash \/ UNCHANGED vars
  <2>1. /\ UNCHANGED <<last, base, flag, cursorFile, published>>
        /\ pump' # "down" => pump # "down"
        /\ pump = "publish" /\ pump' # "down" => pump' = "publish" /\ frame' = frame
    BY <1>5 DEF Emit, Disturb, LoadCursor, Connect, ConnectFails, Read, Send,
       Disconnected, BackoffOver, Sigterm, StoreGroup, Finish, Crash, ProcessEnds, vars
  <2> QED
    BY <2>1 DEF Covered, CursorCoversPublished
<1> QED
  BY <1>1, <1>2, <1>3, <1>4, <1>5 DEF Next, IngestStep, PumpStep

-----------------------------------------------------------------------------
(* A group has at most as many events as frames.                           *)
LEMMA EventsFinite ==
  ASSUME NEW T, NEW s \in Seq(T)
  PROVE  IsFiniteSet(Events(s)) /\ Cardinality(Events(s)) \in Nat
         /\ Cardinality(Events(s)) <= Len(s)
<1> DEFINE I == {s[i] : i \in 1 .. Len(s)}
           f == [i \in 1 .. Len(s) |-> s[i]]
<1>1. Len(s) \in Nat
  OBVIOUS
<1>2. IsFiniteSet(1 .. Len(s)) /\ Cardinality(1 .. Len(s)) = Len(s)
  BY <1>1, FS_Interval
<1>3. f \in Surjection(1 .. Len(s), I)
  BY DEF Surjection
<1>4. Events(s) \in SUBSET I
  BY DEF Events
<1> HIDE DEF f, I
<1>5. IsFiniteSet(I) /\ Cardinality(I) <= Cardinality(1 .. Len(s))
  BY <1>2, <1>3, FS_Surjection
<1>6. /\ IsFiniteSet(Events(s)) /\ Cardinality(Events(s)) <= Cardinality(I)
  BY <1>4, <1>5, FS_Subset
<1>7. Cardinality(Events(s)) \in Nat /\ Cardinality(I) \in Nat
  BY <1>5, <1>6, FS_CardinalityType
<1> QED
  BY <1>1, <1>2, <1>5, <1>6, <1>7

(* The events of a group with one frame more.                              *)
LEMMA EventsAppended ==
  ASSUME NEW T, NEW s \in Seq(T), NEW x \in T
  PROVE  Events(Append(s, x)) = Events(s) \cup ({x} \cap Valid)
<1> DEFINE a == Append(s, x)
<1>1. /\ Len(a) = Len(s) + 1 /\ Len(s) \in Nat
      /\ \A i \in 1 .. Len(s) : a[i] = s[i]
      /\ a[Len(s) + 1] = x
  BY Appended
<1>2. {a[i] : i \in 1 .. Len(a)} = {s[i] : i \in 1 .. Len(s)} \cup {x}
  <2>1. 1 .. Len(a) = (1 .. Len(s)) \cup {Len(s) + 1}
    BY <1>1
  <2> HIDE DEF a
  <2> QED
    BY <1>1, <2>1
<1> HIDE DEF a
<1>3. Events(a) = Events(s) \cup ({x} \cap Valid)
  BY <1>2 DEF Events
<1> QED
  BY <1>3 DEF a

(* The bound survives whatever loses nothing more.                         *)
LEMMA LossKept ==
  ASSUME Typed, Typed', Bounded, Lost' \subseteq Lost, crashes' = crashes
  PROVE  Cardinality(Lost') <= crashes' * GroupSize
<1>1. IsFiniteSet(Valid)
  <2>1. IsFiniteSet(1 .. MaxSeq)
    BY Numbers, FS_Interval
  <2> QED
    BY <2>1, Numbers, FS_Subset
<1>2. IsFiniteSet(Lost)
  <2>1. Lost \in SUBSET Valid
    BY DEF Typed, Lost
  <2> QED
    BY <1>1, <2>1, FS_Subset
<1>3. /\ Cardinality(Lost') <= Cardinality(Lost) /\ IsFiniteSet(Lost')
      /\ Cardinality(Lost) \in Nat /\ Cardinality(Lost') \in Nat
  BY <1>2, FS_Subset, FS_CardinalityType
<1>4. crashes * GroupSize \in Int
  BY PumpAssumption DEF Typed
<1> DEFINE b == crashes * GroupSize
<1>5. Cardinality(Lost) <= b /\ b \in Int
  BY <1>4 DEF Bounded
<1>6. b = crashes' * GroupSize
  OBVIOUS
<1> HIDE DEF b
<1>7. Cardinality(Lost') <= b
  BY <1>3, <1>5
<1> QED
  BY <1>6, <1>7

(* A crash loses the open group, which holds at most a full group.         *)
LEMMA CrashLosesLittle ==
  ASSUME Typed, Typed', Bounded, Lost' \subseteq Lost \cup Events(open),
         crashes' = crashes + 1
  PROVE  Cardinality(Lost') <= crashes' * GroupSize
<1>1. IsFiniteSet(Lost)
  <2>1. IsFiniteSet(1 .. MaxSeq)
    BY Numbers, FS_Interval
  <2>2. Lost \in SUBSET (1 .. MaxSeq)
    BY Numbers DEF Typed, Lost
  <2> QED
    BY <2>1, <2>2, FS_Subset
<1>2. /\ IsFiniteSet(Events(open)) /\ Cardinality(Events(open)) \in Nat
      /\ Cardinality(Events(open)) <= Len(open) /\ Len(open) \in Nat
  BY EventsFinite DEF Typed
<1> DEFINE both == Lost \cup Events(open)
<1>3. /\ IsFiniteSet(both)
      /\ Cardinality(both) = Cardinality(Lost) + Cardinality(Events(open))
                               - Cardinality(Lost \cap Events(open))
  BY <1>1, <1>2, FS_Union
<1>4. IsFiniteSet(Lost \cap Events(open))
  BY <1>1, FS_Intersection
<1>5. Cardinality(Lost') <= Cardinality(both) /\ IsFiniteSet(Lost')
  BY <1>3, FS_Subset
<1>6. /\ Cardinality(Lost) \in Nat /\ Cardinality(Lost \cap Events(open)) \in Nat
      /\ Cardinality(Lost') \in Nat /\ Cardinality(both) \in Nat
  BY <1>1, <1>3, <1>4, <1>5, FS_CardinalityType
<1> DEFINE b == crashes * GroupSize
<1>7. /\ b \in Int /\ GroupSize \in Int /\ Len(open) <= GroupSize
      /\ Cardinality(Lost) <= b
  BY <1>2, PumpAssumption DEF Typed, Bounded
<1>8. crashes' * GroupSize = b + GroupSize
  <2>1. \A m, n \in Int : (m + 1) * n = m * n + n
    OBVIOUS
  <2>2. crashes \in Int /\ GroupSize \in Int
    BY <1>7 DEF Typed
  <2> QED
    BY <2>1, <2>2
<1> HIDE DEF b, both
<1>9. Cardinality(Lost') <= b + GroupSize
  BY <1>2, <1>3, <1>5, <1>6, <1>7
<1> QED
  BY <1>8, <1>9

(* What is published is stored, in the open group, or lost to a crash.     *)
LEMMA BoundedNext == Typed /\ Bounded /\ [Next]_vars => Bounded'
<1> SUFFICES ASSUME Typed, Bounded, [Next]_vars PROVE Bounded'
  OBVIOUS
<1> USE DEF upstream, reader, sink, counts, start
<1>1. Typed'
  BY TypedNext
<1>2. Events(<<>>) = {} /\ Len(<<>>) = 0 /\ GroupSize \in Nat \ {0}
  <2>1. {<<>>[i] : i \in 1 .. Len(<<>>)} = {}
    OBVIOUS
  <2> QED
    BY <2>1, PumpAssumption DEF Events
<1>3. CASE Publish
  <2> DEFINE group == Append(open, frame)
  <2>1. /\ pump = "publish" /\ crashes' = crashes /\ stored' = stored /\ open' = group
        /\ published' = published \cup ({frame} \cap Valid)
        /\ pump' = IF Len(group) >= GroupSize THEN "store" ELSE "select"
    BY <1>3 DEF Publish, GroupFull
  <2>2. Events(group) = Events(open) \cup ({frame} \cap Valid)
    BY <2>1, EventsAppended DEF Typed
  <2>3. Len(group) = Len(open) + 1 /\ Len(open) \in Nat /\ Len(open) < GroupSize
    BY <2>1 DEF Typed, Bounded
  <2> HIDE DEF group
  <2>4. IF pump' = "store" THEN Len(open') = GroupSize ELSE Len(open') < GroupSize
    BY <1>2, <2>1, <2>3
  <2>5. stored' \cup Events(open') = stored \cup Events(open) \cup ({frame} \cap Valid)
    BY <2>1, <2>2
  <2>6. Lost' \subseteq Lost
    BY <2>1, <2>5 DEF Lost
  <2>7. Cardinality(Lost') <= crashes' * GroupSize
    BY <1>1, <2>1, <2>6, LossKept
  <2> QED
    BY <2>1, <2>4, <2>7 DEF Bounded
<1>4. CASE StoreGroup \/ Finish \/ Exit
  <2>1. /\ published' = published /\ crashes' = crashes /\ open' = <<>> /\ pump' # "store"
        /\ \/ stored' = stored \cup Events(open)
           \/ stored' = stored /\ open = <<>>
    BY <1>4 DEF StoreGroup, Finish, FlushedGroup, Exit, ProcessEnds, Bounded
  <2>2. Lost' \subseteq Lost
    BY <1>2, <2>1 DEF Lost
  <2>3. Cardinality(Lost') <= crashes' * GroupSize
    BY <1>1, <2>1, <2>2, LossKept
  <2> QED
    BY <1>2, <2>1, <2>3 DEF Bounded
<1>5. CASE Crash
  <2>1. /\ published' = published /\ crashes' = crashes + 1 /\ open' = <<>>
        /\ stored' = stored /\ pump' = "down"
    BY <1>5 DEF Crash, ProcessEnds
  <2>2. Lost' \subseteq Lost \cup Events(open)
    BY <2>1 DEF Lost
  <2>3. Cardinality(Lost') <= crashes' * GroupSize
    BY <1>1, <2>1, <2>2, CrashLosesLittle
  <2> QED
    BY <1>2, <2>1, <2>3 DEF Bounded
<1>6. CASE \/ Emit \/ (\E how \in {"closed", "silent"} : Disturb(how))
           \/ LoadCursor \/ Connect \/ ConnectFails \/ Read \/ Send
           \/ Disconnected \/ BackoffOver \/ Receive \/ CursorTick \/ Sigterm \/ Start
           \/ UNCHANGED vars
  <2>1. /\ UNCHANGED <<published, stored, open, crashes>>
        /\ pump' = "exit" => pump = "exit"
        /\ pump' = "store" <=> pump = "store"
    BY <1>6 DEF Emit, Disturb, LoadCursor, Connect, ConnectFails, Read, Send,
       Disconnected, BackoffOver, Receive, CursorTick, Sigterm, Start, vars
  <2> QED
    BY <2>1 DEF Bounded, Lost, Events
<1> QED
  BY <1>3, <1>4, <1>5, <1>6 DEF Next, IngestStep, PumpStep

-----------------------------------------------------------------------------
(* The inductive invariant of the pump and its upstream.                   *)
LEMMA InitIInv == Init => IInv
<1> SUFFICES ASSUME Init PROVE IInv
  OBVIOUS
<1>1. flag \in Cursors /\ last = flag /\ base = flag /\ GroupSize \in Nat \ {0}
      /\ MaxSeq \in Nat
  BY PumpAssumption DEF Init, Cursors
<1>2. Typed
  BY <1>1 DEF Init, Typed, Cursors
<1>3. Ordered /\ Gapless /\ Relayed
  BY DEF Init, Ordered, PublishedOnceInOrder, Gapless, Relayed, ResumedWithoutGap
<1>4. Covered
  <2>1. \A x \in Valid : ~(flag < x /\ x <= Unset)
    BY Numbers DEF Unset
  <2> QED
    BY <1>1, <2>1 DEF Init, Covered, CursorCoversPublished
<1>5. Bounded
  <2>1. Lost = {} /\ Cardinality({}) = 0 /\ 0 * GroupSize = 0
    BY <1>1, FS_EmptySet DEF Init, Lost
  <2> QED
    BY <1>1, <2>1 DEF Init, Bounded
<1> QED
  BY <1>2, <1>3, <1>4, <1>5 DEF IInv

(* Every step keeps it.                                                    *)
LEMMA NextIInv == IInv /\ [Next]_vars => IInv'
  BY TypedNext, OrderedNext, GaplessNext, RelayedNext, CoveredNext, BoundedNext DEF IInv

(* A run that resumes from a cursor publishes every valid event from there *)
(* to its newest, over any number of connections.                          *)
THEOREM ResumesWithoutGap == Spec => []ResumedWithoutGap
<1>1. IInv => ResumedWithoutGap
  BY DEF IInv, Relayed
<1> QED
  BY <1>1, InitIInv, NextIInv, PTL DEF Spec

(* The cursor file names published events only, over crashes, signals and  *)
(* restarts at any time.                                                   *)
THEOREM CursorIsCovered == Spec => []CursorCoversPublished
<1>1. IInv => CursorCoversPublished
  BY DEF IInv, Covered
<1> QED
  BY <1>1, InitIInv, NextIInv, PTL DEF Spec

(* Each crash costs replay at most one group of events (main.rs: "at most  *)
(* one group"), as long as the store takes what it is given.               *)
THEOREM LossBounded == Spec => []LossIsBounded
<1>1. IInv => LossIsBounded
  BY DEF IInv, Bounded, Lost, LossIsBounded
<1> QED
  BY <1>1, InitIInv, NextIInv, PTL DEF Spec

=============================================================================
