--------------------------- MODULE GoClientProofs ---------------------------
(***************************************************************************)
(* Machine-checked proofs about GoClient.tla, for every set of             *)
(* subscriptions and applications, group size and channel capacity.        *)
(***************************************************************************)
EXTENDS GoClient, SequenceTheorems, TLAPS

Frame == [seq : 0 .. MaxGroups, n : Nat]

Typed ==
  /\ wire \in Seq(Streams)
  /\ stream \in [Streams -> [fate : Fates, end : {"fin", "reset"}]]
  /\ accept \in {"off", "accept", "enqueue", "kick", "done"}
  /\ accept \in {"enqueue", "kick"} => held \in Streams
  /\ ended \in [Subs -> BOOLEAN] /\ kick \in [Subs -> BOOLEAN]
  /\ queue \in [Subs -> Seq(Streams)]
  /\ run \in [Subs -> {"off", "take", "idle", "wait", "read", "deliver", "after", "done"}]
  /\ taken \in [Subs -> 0 .. MaxGroups] /\ nread \in [Subs -> Nat]
  /\ \A s \in Subs : run[s] \in {"read", "deliver"} => taken[s] > 0
  /\ frames \in [Subs -> Seq(Frame)] /\ got \in [Subs -> Seq(Frame)]

(* A goroutine that has exited left its queue empty for good, and one that *)
(* sleeps beside a queued stream is about to be woken.                     *)
Seen(s) ==
  /\ run[s] = "done" => ended[s] /\ queue[s] = <<>>
  /\ run[s] \in {"idle", "wait"} /\ queue[s] # <<>> =>
       kick[s] \/ ended[s] \/ (accept = "kick" /\ held.sub = s)

(* The way of a group stream, from the one its goroutine has taken over    *)
(* the queue, the accept loop and the wire to those the server has yet to  *)
(* open, follows the sequence of the groups.                               *)
Queued(s)   == {queue[s][i] : i \in 1 .. Len(queue[s])}
InHand(s)   == IF accept = "enqueue" /\ held.sub = s THEN {held} ELSE {}
OnWire(s)   == {x \in Streams : x.sub = s /\ \E i \in 1 .. Len(wire) : wire[i] = x}
Unopened(s) == {x \in Streams : x.sub = s /\ x \notin Opened}

Before(S, T) == \A x \in S, y \in T : x.seq < y.seq
Past(s, S)   == \A x \in S : taken[s] < x.seq

Way(s) ==
  /\ \A x \in Queued(s) : x.sub = s
  /\ \A i, j \in 1 .. Len(queue[s]) : i < j => queue[s][i].seq < queue[s][j].seq
  /\ \A i, j \in 1 .. Len(wire) :
       i < j /\ wire[i].sub = s /\ wire[j].sub = s => wire[i].seq < wire[j].seq
  /\ Past(s, Queued(s)) /\ Past(s, InHand(s)) /\ Past(s, OnWire(s)) /\ Past(s, Unopened(s))
  /\ Before(Queued(s), InHand(s)) /\ Before(Queued(s), OnWire(s))
  /\ Before(Queued(s), Unopened(s))
  /\ Before(InHand(s), OnWire(s)) /\ Before(InHand(s), Unopened(s))
  /\ Before(OnWire(s), Unopened(s))

(* Frames of the group in hand that were delivered.                        *)
Done(s) == IF run[s] = "deliver" THEN nread[s] - 1 ELSE nread[s]

(* The goroutine delivers its group from the first frame on.               *)
Progress(s) ==
  LET D == Delivered(s) IN
  /\ \A i \in 1 .. Len(D) : D[i].seq <= taken[s]
  /\ run[s] = "deliver" => nread[s] > 0
  /\ run[s] \in {"read", "deliver"} =>
       /\ Done(s) = 0 => \A i \in 1 .. Len(D) : D[i].seq < taken[s]
       /\ Done(s) > 0 => D # <<>> /\ D[Len(D)] = [seq |-> taken[s], n |-> Done(s)]
       /\ \A n \in 1 .. Done(s) : \E i \in 1 .. Len(D) : D[i] = [seq |-> taken[s], n |-> n]

IInv ==
  /\ Typed
  /\ \A s \in Subs : Seen(s) /\ Way(s) /\ Progress(s)
  /\ FramesInOrder
  /\ NothingSkipped

-----------------------------------------------------------------------------
(* What a queue is after one element was added.                            *)
LEMMA Appended ==
  ASSUME NEW S, NEW q \in Seq(S), NEW x \in S
  PROVE  /\ Append(q, x) \in Seq(S)
         /\ Len(Append(q, x)) = Len(q) + 1 /\ Len(q) \in Nat
         /\ \A i \in 1 .. Len(q) : Append(q, x)[i] = q[i] /\ q[i] \in S
         /\ Append(q, x)[Len(q) + 1] = x
  OBVIOUS

(* What it is after one was taken from its head.                           *)
LEMMA Dequeued ==
  ASSUME NEW S, NEW q \in Seq(S), q # <<>>
  PROVE  /\ Tail(q) \in Seq(S) /\ Head(q) \in S /\ Head(q) = q[1]
         /\ Len(Tail(q)) = Len(q) - 1 /\ Len(q) \in Nat /\ Len(q) > 0
         /\ \A i \in 1 .. Len(Tail(q)) : Tail(q)[i] = q[i + 1]
  OBVIOUS

(* A fate given to a stream.                                               *)
LEMMA FatedTyped ==
  ASSUME Typed, NEW x \in Streams, NEW fate \in Fates
  PROVE  /\ Fated(x, fate) \in [Streams -> [fate : Fates, end : {"fin", "reset"}]]
         /\ \A y \in Streams : Fated(x, fate)[y].end = stream[y].end
         /\ \A y \in Streams : y # x => Fated(x, fate)[y] = stream[y]
         /\ Fated(x, fate)[x].fate = fate
  BY DEF Typed, Fated

(* The stream a goroutine reads is a stream of its own.                    *)
LEMMA TakenStream ==
  ASSUME Typed, NEW s \in Subs, run[s] \in {"read", "deliver"}
  PROVE  Taken(s) \in Streams /\ Taken(s).sub = s /\ Taken(s).seq = taken[s]
  BY ClientAssumption DEF Typed, Taken, Streams

(* Type correctness, action by action.                                     *)
LEMMA TypedNext == Typed /\ [Next]_vars => Typed'
<1> SUFFICES ASSUME Typed, [Next]_vars PROVE Typed'
  OBVIOUS
<1> USE DEF session, loop, drain, server
<1>1. ASSUME NEW x \in Streams, NEW how \in {"fin", "reset"}, ServerOpens(x, how)
      PROVE  Typed'
  BY <1>1, Appended DEF ServerOpens, Typed, Fates
<1>2. CASE ConnectionLost \/ FailAll \/ CloseConnection
  BY <1>2 DEF ConnectionLost, FailAll, CloseConnection, AllFailed, Typed
<1>3. ASSUME NEW s \in Subs,
             Subscribe(s) \/ SubscribeFails(s) \/ CloseSub(s) \/ ControlEnds(s)
      PROVE  Typed'
  BY <1>3 DEF Subscribe, SubscribeFails, CloseSub, ControlEnds, Typed
<1>4. ASSUME NEW s \in Subs, SubscribeOk(s) PROVE Typed'
  BY <1>4 DEF SubscribeOk, Typed
<1>5. CASE Accept
  <2>1. /\ wire # <<>> /\ wire' = Tail(wire)
        /\ Head(wire) \in Streams /\ Tail(wire) \in Seq(Streams)
    BY <1>5, Dequeued DEF Accept, Typed
  <2>2. CASE accept' = "enqueue" /\ held' = Head(wire) /\ stream' = Fated(Head(wire), "accepted")
    <3>1. stream' \in [Streams -> [fate : Fates, end : {"fin", "reset"}]]
      BY <2>1, <2>2, FatedTyped DEF Fates
    <3> QED BY <1>5, <2>1, <2>2, <3>1 DEF Accept, Typed
  <2>3. CASE stream' = Fated(Head(wire), "cancelled") /\ UNCHANGED <<accept, held>>
    <3>1. stream' \in [Streams -> [fate : Fates, end : {"fin", "reset"}]]
      BY <2>1, <2>3, FatedTyped DEF Fates
    <3> QED BY <1>5, <2>1, <2>3, <3>1 DEF Accept, Typed
  <2> QED BY <1>5, <2>2, <2>3 DEF Accept
<1>6. CASE AcceptFails
  BY <1>6 DEF AcceptFails, AllFailed, Typed
<1>7. CASE Enqueue
  <2>1. held \in Streams /\ held.sub \in Subs
    BY <1>7 DEF Enqueue, Typed, Streams
  <2>2. \A fate \in Fates :
          Fated(held, fate) \in [Streams -> [fate : Fates, end : {"fin", "reset"}]]
    BY <2>1, FatedTyped
  <2>3. Append(queue[held.sub], held) \in Seq(Streams)
    BY <2>1, Appended DEF Typed
  <2> QED BY <1>7, <2>1, <2>2, <2>3 DEF Enqueue, Typed, Fates
<1>8. CASE Kick
  BY <1>8 DEF Kick, KickStays, Typed, Streams
<1>9. ASSUME NEW s \in Subs, Take(s) PROVE Typed'
  <2>1. CASE queue[s] = <<>>
    BY <1>9, <2>1 DEF Take, Typed
  <2>2. CASE queue[s] # <<>>
    <3> DEFINE x == Head(queue[s])
    <3>1. x \in Streams /\ Tail(queue[s]) \in Seq(Streams)
      BY <2>2, Dequeued DEF Typed
    <3>2. Fated(x, "reading") \in [Streams -> [fate : Fates, end : {"fin", "reset"}]]
      BY <3>1, FatedTyped DEF Fates
    <3>3. x.seq \in 1 .. MaxGroups /\ MaxGroups \in Nat
      BY <3>1, ClientAssumption DEF Streams
    <3>4. /\ run' = [run EXCEPT ![s] = "read"] /\ taken' = [taken EXCEPT ![s] = x.seq]
          /\ nread' = [nread EXCEPT ![s] = 0]
          /\ queue' = [queue EXCEPT ![s] = Tail(queue[s])]
          /\ stream' = Fated(x, "reading")
          /\ UNCHANGED <<wire, session, caller, subs, ended, loop, kick, frames, got>>
      BY <1>9, <2>2 DEF Take, Dequeue, Typed
    <3> HIDE DEF x
    <3> QED BY <3>1, <3>2, <3>3, <3>4 DEF Typed
  <2> QED BY <2>1, <2>2
<1>10. ASSUME NEW s \in Subs, Park(s) \/ Wake(s) PROVE Typed'
  BY <1>10 DEF Park, Wake, Typed
<1>11. ASSUME NEW s \in Subs, Drain(s) PROVE Typed'
  <2>1. \A x \in Streams : [stream[x] EXCEPT !.fate = "cancelled"]
                            \in [fate : Fates, end : {"fin", "reset"}]
    BY DEF Typed, Fates
  <2>2. stream' \in [Streams -> [fate : Fates, end : {"fin", "reset"}]]
    BY <1>11, <2>1 DEF Drain, Typed
  <2>3. queue' \in [Subs -> Seq(Streams)]
    <3>1. <<>> \in Seq(Streams)
      OBVIOUS
    <3> QED BY <1>11, <3>1 DEF Drain, Typed
  <2> QED BY <1>11, <2>2, <2>3 DEF Drain, Typed
<1>12. ASSUME NEW s \in Subs, Oversized(s) PROVE Typed'
  <2>1. stream' \in [Streams -> [fate : Fates, end : {"fin", "reset"}]]
    BY <1>12, TakenStream, FatedTyped DEF Oversized, Fates
  <2> QED BY <1>12, <2>1 DEF Oversized, Typed
<1>13. ASSUME NEW s \in Subs, Deliver(s) PROVE Typed'
  <2>1. Taken(s) \in Streams
    BY <1>13, TakenStream DEF Deliver
  <2>2. CASE SendFrame(s) /\ run' = [run EXCEPT ![s] = "read"] /\ UNCHANGED stream
    <3>1. [seq |-> taken[s], n |-> nread[s]] \in Frame /\ frames[s] \in Seq(Frame)
      BY DEF Typed, Frame
    <3>2. Append(frames[s], [seq |-> taken[s], n |-> nread[s]]) \in Seq(Frame)
      BY <3>1, Appended
    <3>3. frames' \in [Subs -> Seq(Frame)]
      BY <2>2, <3>2 DEF SendFrame, FrameSent, Typed
    <3>4. taken[s] > 0
      BY <1>13 DEF Deliver, Typed
    <3> QED BY <1>13, <2>2, <3>3, <3>4 DEF Deliver, Typed
  <2>3. CASE /\ stream' = Fated(Taken(s), "cancelled")
             /\ run' = [run EXCEPT ![s] = "after"] /\ UNCHANGED frames
    <3>1. stream' \in [Streams -> [fate : Fates, end : {"fin", "reset"}]]
      BY <2>1, <2>3, FatedTyped DEF Fates
    <3> QED BY <1>13, <2>3, <3>1 DEF Deliver, Typed
  <2> QED BY <1>13, <2>2, <2>3 DEF Deliver
<1>14. ASSUME NEW s \in Subs, ReadGroup(s) PROVE Typed'
  <2>1. Taken(s) \in Streams /\ taken[s] > 0
    BY <1>14, TakenStream DEF ReadGroup, Typed
  <2>2. CASE /\ nread' = [nread EXCEPT ![s] = nread[s] + 1]
             /\ run' = [run EXCEPT ![s] = "deliver"] /\ UNCHANGED stream
    BY <1>14, <2>1, <2>2 DEF ReadGroup, Typed
  <2>3. CASE /\ stream' = Fated(Taken(s), "read")
             /\ run' = [run EXCEPT ![s] = "after"] /\ UNCHANGED nread
    <3>1. stream' \in [Streams -> [fate : Fates, end : {"fin", "reset"}]]
      BY <2>1, <2>3, FatedTyped DEF Fates
    <3> QED BY <1>14, <2>3, <3>1 DEF ReadGroup, Typed
  <2> QED BY <1>14, <2>2, <2>3 DEF ReadGroup
<1>15. ASSUME NEW s \in Subs, ReadFrame(s) PROVE Typed'
  <2>1. Head(frames[s]) \in Frame /\ Tail(frames[s]) \in Seq(Frame)
    BY <1>15, Dequeued DEF ReadFrame, Typed
  <2>2. Append(got[s], Head(frames[s])) \in Seq(Frame)
    BY <2>1, Appended DEF Typed
  <2> QED BY <1>15, <2>1, <2>2 DEF ReadFrame, Typed
<1>16. CASE UNCHANGED vars
  BY <1>16 DEF vars, Typed
<1> QED
  BY <1>1, <1>2, <1>3, <1>4, <1>5, <1>6, <1>7, <1>8, <1>9, <1>10, <1>11, <1>12, <1>13,
     <1>14, <1>15, <1>16, ClientAssumption DEF Next, Run, AcceptLoop

-----------------------------------------------------------------------------
(* A queued stream is never forgotten: whoever queues it wakes the         *)
(* goroutine after, and a goroutine that exits does so for good.           *)
LEMMA SeenNext ==
  ASSUME Typed, NEW s \in Subs, Seen(s), [Next]_vars
  PROVE  Seen(s)'
<1> USE DEF session, loop, drain, server
<1>1. ASSUME NEW x \in Streams, NEW how \in {"fin", "reset"}, ServerOpens(x, how)
      PROVE  Seen(s)'
  BY <1>1 DEF ServerOpens, Seen
<1>2. CASE ConnectionLost \/ FailAll \/ CloseConnection
  BY <1>2 DEF ConnectionLost, FailAll, CloseConnection, AllFailed, Seen
<1>3. ASSUME NEW r \in Subs,
             Subscribe(r) \/ SubscribeFails(r) \/ CloseSub(r) \/ ControlEnds(r)
      PROVE  Seen(s)'
  BY <1>3 DEF Subscribe, SubscribeFails, CloseSub, ControlEnds, Seen, Typed
<1>4. ASSUME NEW r \in Subs, SubscribeOk(r) PROVE Seen(s)'
  BY <1>4 DEF SubscribeOk, Seen, Typed
<1>5. CASE Accept
  BY <1>5 DEF Accept, Seen
<1>6. CASE AcceptFails
  BY <1>6 DEF AcceptFails, AllFailed, Seen
<1>7. CASE Enqueue
  BY <1>7 DEF Enqueue, HasEnded, Seen, Typed
<1>8. CASE Kick
  BY <1>8 DEF Kick, KickStays, Seen, Typed
<1>9. ASSUME NEW r \in Subs, Take(r) PROVE Seen(s)'
  <2>1. CASE queue[r] = <<>>
    BY <1>9, <2>1 DEF Take, Seen, Typed
  <2>2. CASE queue[r] # <<>>
    BY <1>9, <2>2 DEF Take, Seen, Typed
  <2> QED BY <2>1, <2>2
<1>10. ASSUME NEW r \in Subs, Park(r) \/ Wake(r) PROVE Seen(s)'
  BY <1>10 DEF Park, Wake, Seen, Typed
<1>11. ASSUME NEW r \in Subs, Drain(r) PROVE Seen(s)'
  BY <1>11 DEF Drain, Seen, Typed
<1>12. ASSUME NEW r \in Subs, Oversized(r) PROVE Seen(s)'
  BY <1>12 DEF Oversized, Seen, Typed
<1>13. ASSUME NEW r \in Subs, Deliver(r) PROVE Seen(s)'
  BY <1>13 DEF Deliver, Seen, Typed
<1>14. ASSUME NEW r \in Subs, ReadGroup(r) PROVE Seen(s)'
  BY <1>14 DEF ReadGroup, Seen, Typed
<1>15. ASSUME NEW r \in Subs, ReadFrame(r) PROVE Seen(s)'
  BY <1>15 DEF ReadFrame, Seen
<1>16. CASE UNCHANGED vars
  BY <1>16 DEF vars, Seen
<1> QED
  BY <1>1, <1>2, <1>3, <1>4, <1>5, <1>6, <1>7, <1>8, <1>9, <1>10, <1>11, <1>12, <1>13,
     <1>14, <1>15, <1>16, ClientAssumption DEF Next, Run, AcceptLoop

-----------------------------------------------------------------------------
(* A stream that was opened stays so.                                      *)
LEMMA OpenedGrows ==
  ASSUME Typed, [Next]_vars
  PROVE  \A s \in Subs : Unopened(s)' \subseteq Unopened(s)
<1> SUFFICES ASSUME NEW x \in Streams, stream[x].fate # "unopened"
             PROVE  stream'[x].fate # "unopened"
  BY DEF Unopened, Opened
<1> USE DEF session, loop, drain, server
<1>0. \A y \in Streams, fate \in Fates \ {"unopened"} :
        stream' = Fated(y, fate) => stream'[x].fate # "unopened"
  <2> SUFFICES ASSUME NEW y \in Streams, NEW fate \in Fates \ {"unopened"},
                      stream' = Fated(y, fate)
               PROVE  stream'[x].fate # "unopened"
    OBVIOUS
  <2>1. stream'[y].fate = fate /\ (x # y => stream'[x] = stream[x])
    BY FatedTyped
  <2> QED BY <2>1
<1>1. ASSUME NEW y \in Streams, NEW how \in {"fin", "reset"}, ServerOpens(y, how)
      PROVE  stream'[x].fate # "unopened"
  BY <1>1 DEF ServerOpens, Typed
<1>2. CASE UNCHANGED stream
  BY <1>2
<1>3. CASE Accept
  <2>1. Head(wire) \in Streams
    BY <1>3, Dequeued DEF Accept, Typed
  <2>2. stream' = Fated(Head(wire), "accepted") \/ stream' = Fated(Head(wire), "cancelled")
    BY <1>3 DEF Accept
  <2> QED BY <1>0, <2>1, <2>2 DEF Fates
<1>4. CASE Enqueue
  <2>1. held \in Streams
    BY <1>4 DEF Enqueue, Typed
  <2>2. stream' = Fated(held, "queued") \/ stream' = Fated(held, "cancelled")
    BY <1>4 DEF Enqueue
  <2> QED BY <1>0, <2>1, <2>2 DEF Fates
<1>5. ASSUME NEW r \in Subs, Take(r) PROVE stream'[x].fate # "unopened"
  <2>1. CASE queue[r] = <<>>
    BY <1>5, <2>1 DEF Take
  <2>2. CASE queue[r] # <<>>
    <3>1. Head(queue[r]) \in Streams
      BY <2>2, Dequeued DEF Typed
    <3>2. stream' = Fated(Head(queue[r]), "reading")
      BY <1>5, <2>2 DEF Take, Dequeue
    <3> QED BY <1>0, <3>1, <3>2 DEF Fates
  <2> QED BY <2>1, <2>2
<1>6. ASSUME NEW r \in Subs, Drain(r) PROVE stream'[x].fate # "unopened"
  BY <1>6 DEF Drain, Typed
<1>7. ASSUME NEW r \in Subs, Oversized(r) \/ Deliver(r) \/ ReadGroup(r)
      PROVE  stream'[x].fate # "unopened"
  <2>1. Taken(r) \in Streams
    BY <1>7, TakenStream DEF Oversized, Deliver, ReadGroup
  <2>2. stream' = Fated(Taken(r), "cancelled") \/ stream' = Fated(Taken(r), "read")
        \/ UNCHANGED stream
    BY <1>7 DEF Oversized, Deliver, ReadGroup
  <2> QED BY <1>0, <2>1, <2>2 DEF Fates
<1>8. CASE \E r \in Subs :
        \/ Subscribe(r) \/ SubscribeFails(r) \/ CloseSub(r) \/ ControlEnds(r)
        \/ SubscribeOk(r) \/ Park(r) \/ Wake(r) \/ ReadFrame(r)
  BY <1>8 DEF Subscribe, SubscribeFails, CloseSub, ControlEnds, SubscribeOk, Park, Wake, ReadFrame
<1>9. CASE ConnectionLost \/ FailAll \/ CloseConnection \/ AcceptFails \/ Kick \/ UNCHANGED vars
  BY <1>9 DEF ConnectionLost, FailAll, CloseConnection, AcceptFails, Kick, vars
<1> QED
  BY <1>1, <1>2, <1>3, <1>4, <1>5, <1>6, <1>7, <1>8, <1>9, ClientAssumption
  DEF Next, Run, AcceptLoop

(* The members of a way are streams of the subscription.                   *)
LEMMA OnTheWay ==
  ASSUME Typed, NEW s \in Subs
  PROVE  /\ Queued(s) \subseteq Streams /\ InHand(s) \subseteq Streams
         /\ OnWire(s) \subseteq Streams /\ Unopened(s) \subseteq Streams
         /\ \A x \in Streams : x.seq \in Nat
         /\ taken[s] \in Nat
<1>1. \A i \in 1 .. Len(queue[s]) : queue[s][i] \in Streams
  BY DEF Typed
<1>2. Queued(s) \subseteq Streams
  BY <1>1 DEF Queued
<1>3. InHand(s) \subseteq Streams
  BY DEF InHand, Typed
<1>4. \A x \in Streams : x.seq \in Nat
  BY ClientAssumption DEF Streams
<1>5. taken[s] \in Nat
  BY ClientAssumption DEF Typed
<1> QED BY <1>2, <1>3, <1>4, <1>5 DEF OnWire, Unopened

(* Only these steps touch a way; all others leave it or shorten it.        *)
LEMMA WayKept ==
  ASSUME NEW s \in Subs, Way(s), queue'[s] = queue[s], wire' = wire, taken'[s] = taken[s],
         InHand(s)' \subseteq InHand(s), Unopened(s)' \subseteq Unopened(s)
  PROVE  Way(s)'
<1>1. Queued(s)' = Queued(s) /\ OnWire(s)' = OnWire(s)
  BY DEF Queued, OnWire
<1> QED BY <1>1 DEF Way, Past, Before

(* The server opens the next group of a subscription.                      *)
LEMMA WayOpens ==
  ASSUME Typed, NEW s \in Subs, Way(s), NEW x \in Streams, NEW how \in {"fin", "reset"},
         ServerOpens(x, how)
  PROVE  Way(s)'
<1>1. /\ x \notin Opened /\ wire' = Append(wire, x)
      /\ \A y \in Streams : y.sub = x.sub /\ y.seq < x.seq => y \in Opened
      /\ queue' = queue /\ taken' = taken /\ accept' = accept /\ held' = held
      /\ stream' = [stream EXCEPT ![x] = [fate |-> "wire", end |-> how]]
  BY DEF ServerOpens, loop, drain
<1>2. Queued(s)' = Queued(s) /\ InHand(s)' = InHand(s)
  BY <1>1 DEF Queued, InHand
<1>3. Opened' = Opened \cup {x}
  BY <1>1 DEF Opened, Typed
<1>4. /\ Len(wire') = Len(wire) + 1 /\ Len(wire) \in Nat /\ wire'[Len(wire) + 1] = x
      /\ \A i \in 1 .. Len(wire) : wire'[i] = wire[i] /\ wire[i] \in Streams
  BY <1>1, Appended DEF Typed
<1>5. \A i \in 1 .. Len(wire') : i = Len(wire) + 1 \/ i \in 1 .. Len(wire)
  BY <1>4
<1>6. CASE x.sub = s
  <2>1. x \in Unopened(s) /\ Unopened(s)' \subseteq Unopened(s) \ {x}
    BY <1>1, <1>3, <1>6 DEF Unopened
  <2>2. \A y \in Unopened(s)' : x.seq < y.seq
    <3> SUFFICES ASSUME NEW y \in Unopened(s)' PROVE x.seq < y.seq
      OBVIOUS
    <3>1. y \in Streams /\ y.sub = s /\ y # x /\ ~(y.seq < x.seq)
      BY <1>1, <1>3, <1>6, <2>1 DEF Unopened
    <3>2. y.seq # x.seq
      BY <1>6, <3>1 DEF Streams
    <3> QED BY <3>1, <3>2, OnTheWay
  <2>3. \A y \in OnWire(s)' : y \in OnWire(s) \/ y = x
    BY <1>4, <1>5 DEF OnWire
  <2>4. ASSUME NEW i \in 1 .. Len(wire'), NEW j \in 1 .. Len(wire'),
               i < j, wire'[i].sub = s, wire'[j].sub = s
        PROVE  wire'[i].seq < wire'[j].seq
    <3>1. i \in 1 .. Len(wire)
      BY <1>4, <2>4
    <3>2. CASE j = Len(wire) + 1
      <4>1. wire[i] \in OnWire(s)
        BY <1>4, <2>4, <3>1 DEF OnWire
      <4> QED BY <1>4, <2>1, <3>1, <3>2, <4>1 DEF Way, Before
    <3>3. CASE j \in 1 .. Len(wire)
      BY <1>4, <2>4, <3>1, <3>3 DEF Way
    <3> QED BY <1>5, <3>2, <3>3
  <2>5. /\ Past(s, OnWire(s))' /\ Past(s, Unopened(s))'
        /\ Before(Queued(s), OnWire(s))' /\ Before(Queued(s), Unopened(s))'
        /\ Before(InHand(s), OnWire(s))' /\ Before(InHand(s), Unopened(s))'
        /\ Before(OnWire(s), Unopened(s))'
    BY <1>1, <1>2, <2>1, <2>2, <2>3 DEF Way, Past, Before
  <2> QED BY <1>1, <1>2, <2>4, <2>5 DEF Way, Past, Before
<1>7. CASE x.sub # s
  <2>1. Unopened(s)' \subseteq Unopened(s)
    BY <1>3 DEF Unopened
  <2>2. OnWire(s)' \subseteq OnWire(s)
    BY <1>4, <1>5, <1>7 DEF OnWire
  <2>3. ASSUME NEW i \in 1 .. Len(wire'), NEW j \in 1 .. Len(wire'),
               i < j, wire'[i].sub = s, wire'[j].sub = s
        PROVE  wire'[i].seq < wire'[j].seq
    <3>1. i \in 1 .. Len(wire) /\ j \in 1 .. Len(wire)
      BY <1>4, <1>5, <1>7, <2>3
    <3> QED BY <1>4, <2>3, <3>1 DEF Way
  <2> QED BY <1>1, <1>2, <2>1, <2>2, <2>3 DEF Way, Past, Before
<1> QED BY <1>6, <1>7

(* The accept loop takes the head of the wire.                             *)
LEMMA WayAccepts ==
  ASSUME Typed, NEW s \in Subs, Way(s), Accept, Unopened(s)' \subseteq Unopened(s)
  PROVE  Way(s)'
<1> DEFINE h == Head(wire)
<1>1. /\ accept = "accept" /\ wire # <<>> /\ wire' = Tail(wire)
      /\ queue' = queue /\ taken' = taken
      /\ \/ accept' = "enqueue" /\ held' = h
         \/ accept' = accept /\ held' = held
  BY DEF Accept, drain
<1>2. /\ h \in Streams /\ h = wire[1] /\ Len(wire') = Len(wire) - 1
      /\ Len(wire) \in Nat /\ Len(wire) > 0
      /\ \A i \in 1 .. Len(wire') : wire'[i] = wire[i + 1]
  BY <1>1, Dequeued DEF Typed
<1>3. \A i \in 1 .. Len(wire') : i + 1 \in 1 .. Len(wire) /\ 1 < i + 1
  BY <1>2
<1>4. Queued(s)' = Queued(s) /\ InHand(s) = {}
  BY <1>1 DEF Queued, InHand
<1>5. OnWire(s)' \subseteq OnWire(s)
  BY <1>2, <1>3 DEF OnWire
<1>6. InHand(s)' \subseteq OnWire(s)
  <2>1. 1 \in 1 .. Len(wire)
    BY <1>2
  <2> QED BY <1>1, <1>2, <2>1 DEF InHand, OnWire
<1>7. Before(InHand(s)', OnWire(s)')
  <2> SUFFICES ASSUME NEW x \in InHand(s)', NEW y \in OnWire(s)' PROVE x.seq < y.seq
    BY DEF Before
  <2>1. x = wire[1] /\ x.sub = s /\ y.sub = s
    BY <1>1, <1>2 DEF InHand, OnWire
  <2>2. PICK i \in 1 .. Len(wire') : wire'[i] = y
    BY DEF OnWire
  <2>3. 1 \in 1 .. Len(wire)
    BY <1>2
  <2> QED BY <1>2, <1>3, <2>1, <2>2, <2>3 DEF Way
<1>8. ASSUME NEW i \in 1 .. Len(wire'), NEW j \in 1 .. Len(wire'),
             i < j, wire'[i].sub = s, wire'[j].sub = s
      PROVE  wire'[i].seq < wire'[j].seq
  <2>1. i + 1 < j + 1
    BY <1>8
  <2> QED BY <1>2, <1>3, <1>8, <2>1 DEF Way
<1> HIDE DEF h
<1> QED BY <1>1, <1>4, <1>5, <1>6, <1>7, <1>8 DEF Way, Past, Before

(* The stream in hand joins the queue it is meant for, or is dropped.      *)
LEMMA WayEnqueues ==
  ASSUME Typed, NEW s \in Subs, Way(s), Enqueue, Unopened(s)' \subseteq Unopened(s)
  PROVE  Way(s)'
<1>1. /\ accept = "enqueue" /\ held \in Streams /\ held.sub \in Subs
      /\ wire' = wire /\ taken' = taken
      /\ accept' # "enqueue"
  BY DEF Enqueue, Typed, Streams, drain
<1>2. InHand(s)' = {} /\ OnWire(s)' = OnWire(s)
  BY <1>1 DEF InHand, OnWire
<1>3. CASE queue'[s] = queue[s]
  <2>1. InHand(s)' \subseteq InHand(s)
    BY <1>2
  <2> QED BY <1>1, <1>3, <2>1, WayKept
<1>4. CASE held.sub = s /\ queue'[s] = Append(queue[s], held)
  <2> DEFINE q == queue[s]
  <2>1. /\ Len(queue'[s]) = Len(q) + 1 /\ Len(q) \in Nat /\ queue'[s][Len(q) + 1] = held
        /\ \A i \in 1 .. Len(q) : queue'[s][i] = q[i]
    BY <1>1, <1>4, Appended DEF Typed
  <2>2. \A i \in 1 .. Len(q) + 1 : i = Len(q) + 1 \/ i \in 1 .. Len(q)
    BY <2>1
  <2>3. \A x \in Queued(s)' : x \in Queued(s) \/ x = held
    BY <2>1, <2>2 DEF Queued
  <2>4. held \in InHand(s)
    BY <1>1, <1>4 DEF InHand
  <2>5. ASSUME NEW i \in 1 .. Len(queue'[s]), NEW j \in 1 .. Len(queue'[s]), i < j
        PROVE  queue'[s][i].seq < queue'[s][j].seq
    <3>1. i \in 1 .. Len(q)
      BY <2>1, <2>5
    <3>2. CASE j = Len(q) + 1
      <4>1. q[i] \in Queued(s)
        BY <3>1 DEF Queued
      <4> QED BY <2>1, <2>4, <3>1, <3>2, <4>1 DEF Way, Before
    <3>3. CASE j \in 1 .. Len(q)
      BY <2>1, <2>5, <3>1, <3>3 DEF Way
    <3> QED BY <2>1, <2>2, <3>2, <3>3
  <2>6. /\ Past(s, Queued(s))' /\ Before(Queued(s), OnWire(s))' /\ Before(Queued(s), Unopened(s))'
        /\ Before(Queued(s), InHand(s))' /\ \A x \in Queued(s)' : x.sub = s
    BY <1>1, <1>2, <1>4, <2>3, <2>4 DEF Way, Past, Before
  <2> QED BY <1>1, <1>2, <2>5, <2>6 DEF Way, Past, Before
<1> QED
  <2>1. queue' = queue \/ queue' = [queue EXCEPT ![held.sub] = Append(queue[held.sub], held)]
    BY DEF Enqueue
  <2> QED BY <1>1, <1>3, <1>4, <2>1 DEF Typed

(* The goroutine takes the head of its queue, which is the lowest group on *)
(* the way.                                                                *)
LEMMA WayTakes ==
  ASSUME Typed, NEW s \in Subs, Way(s), NEW r \in Subs, Take(r),
         Unopened(s)' \subseteq Unopened(s)
  PROVE  Way(s)'
<1>1. wire' = wire /\ InHand(s)' = InHand(s) /\ OnWire(s)' = OnWire(s)
  BY DEF Take, loop, InHand, OnWire
<1>2. CASE r # s \/ queue[r] = <<>>
  <2>1. queue'[s] = queue[s] /\ taken'[s] = taken[s]
    BY <1>2 DEF Take, Typed
  <2> QED BY <1>1, <2>1, WayKept
<1>3. CASE r = s /\ queue[s] # <<>>
  <2> DEFINE q == queue[s]
  <2>1. /\ queue'[s] = Tail(q) /\ taken'[s] = Head(q).seq
    BY <1>3 DEF Take, Dequeue, Typed
  <2>2. /\ Head(q) = q[1] /\ Len(Tail(q)) = Len(q) - 1 /\ Len(q) \in Nat /\ Len(q) > 0
        /\ \A i \in 1 .. Len(Tail(q)) : Tail(q)[i] = q[i + 1]
    BY <1>3, Dequeued DEF Typed
  <2>3. /\ \A i \in 1 .. Len(Tail(q)) : i + 1 \in 1 .. Len(q) /\ 1 < i + 1
        /\ 1 \in 1 .. Len(q)
    BY <2>2
  <2>4. Queued(s)' \subseteq Queued(s) /\ Head(q) \in Queued(s)
    BY <2>1, <2>2, <2>3 DEF Queued
  <2>5. \A x \in Queued(s)' : Head(q).seq < x.seq
    <3> SUFFICES ASSUME NEW i \in 1 .. Len(Tail(q)) PROVE q[1].seq < q[i + 1].seq
      BY <2>1, <2>2 DEF Queued
    <3> QED BY <2>3 DEF Way
  <2>6. ASSUME NEW i \in 1 .. Len(Tail(q)), NEW j \in 1 .. Len(Tail(q)), i < j
        PROVE  Tail(q)[i].seq < Tail(q)[j].seq
    <3>1. i + 1 < j + 1
      BY <2>6
    <3> QED BY <2>2, <2>3, <3>1 DEF Way
  <2> HIDE DEF q
  <2>7. /\ \A x \in Queued(s)' : taken'[s] < x.seq
        /\ \A x \in InHand(s)' : taken'[s] < x.seq
        /\ \A x \in OnWire(s)' : taken'[s] < x.seq
        /\ \A x \in Unopened(s)' : taken'[s] < x.seq
    BY <1>1, <2>1, <2>4, <2>5 DEF Way, Before
  <2>8. /\ \A x \in Queued(s)' : x.sub = s
        /\ Before(Queued(s), InHand(s))' /\ Before(Queued(s), OnWire(s))'
        /\ Before(Queued(s), Unopened(s))' /\ Before(InHand(s), OnWire(s))'
        /\ Before(InHand(s), Unopened(s))' /\ Before(OnWire(s), Unopened(s))'
    BY <1>1, <2>4 DEF Way, Before
  <2> QED BY <1>1, <2>1, <2>6, <2>7, <2>8 DEF Way, Past
<1> QED BY <1>2, <1>3

(* A way keeps its order whatever the server, the accept loop and the      *)
(* goroutines do.                                                          *)
LEMMA WayNext ==
  ASSUME Typed, NEW s \in Subs, Way(s), [Next]_vars
  PROVE  Way(s)'
<1> USE DEF session, loop, drain, server
<1>0. Unopened(s)' \subseteq Unopened(s)
  BY OpenedGrows
<1>1. ASSUME NEW x \in Streams, NEW how \in {"fin", "reset"}, ServerOpens(x, how)
      PROVE  Way(s)'
  BY <1>1, WayOpens
<1>2. CASE Accept
  BY <1>0, <1>2, WayAccepts
<1>3. CASE Enqueue
  BY <1>0, <1>3, WayEnqueues
<1>4. ASSUME NEW r \in Subs, Take(r) PROVE Way(s)'
  BY <1>0, <1>4, WayTakes
<1>5. ASSUME NEW r \in Subs, Drain(r) PROVE Way(s)'
  <2>1. wire' = wire /\ taken' = taken /\ InHand(s)' = InHand(s) /\ OnWire(s)' = OnWire(s)
    BY <1>5 DEF Drain, InHand, OnWire
  <2>2. CASE r = s
    <3>1. queue'[s] = <<>>
      BY <1>5, <2>2 DEF Drain, Typed
    <3>2. Queued(s)' = {} /\ Len(queue'[s]) = 0
      BY <3>1 DEF Queued
    <3> QED BY <1>0, <2>1, <3>2 DEF Way, Past, Before
  <2>3. CASE r # s
    BY <1>0, <1>5, <2>1, <2>3, WayKept DEF Drain, Typed
  <2> QED BY <2>2, <2>3
<1>6. CASE UNCHANGED <<queue, wire, taken>> /\ InHand(s)' \subseteq InHand(s)
  BY <1>0, <1>6, WayKept
<1>7. CASE \E r \in Subs :
        \/ Subscribe(r) \/ SubscribeFails(r) \/ CloseSub(r) \/ ControlEnds(r)
        \/ SubscribeOk(r) \/ Park(r) \/ Wake(r) \/ ReadFrame(r)
        \/ Oversized(r) \/ Deliver(r) \/ ReadGroup(r)
  BY <1>6, <1>7 DEF Subscribe, SubscribeFails, CloseSub, ControlEnds, SubscribeOk, Park, Wake,
                    ReadFrame, Oversized, Deliver, ReadGroup, InHand
<1>8. CASE ConnectionLost \/ FailAll \/ CloseConnection \/ AcceptFails \/ Kick \/ UNCHANGED vars
  BY <1>6, <1>8 DEF ConnectionLost, FailAll, CloseConnection, AcceptFails, Kick, vars, InHand
<1> QED
  BY <1>1, <1>2, <1>3, <1>4, <1>5, <1>7, <1>8, ClientAssumption DEF Next, Run, AcceptLoop

-----------------------------------------------------------------------------
(* What was delivered is a sequence of frames.                             *)
LEMMA DeliveredTyped ==
  ASSUME Typed, NEW s \in Subs
  PROVE  /\ Delivered(s) \in Seq(Frame) /\ Len(Delivered(s)) \in Nat
         /\ \A i \in 1 .. Len(Delivered(s)) : Delivered(s)[i] \in Frame
<1>1. got[s] \in Seq(Frame) /\ frames[s] \in Seq(Frame)
  BY DEF Typed
<1>2. Delivered(s) \in Seq(Frame)
  BY <1>1 DEF Delivered
<1> QED BY <1>2

(* Moving the head of one sequence to the end of another.                  *)
LEMMA PassedOn ==
  ASSUME NEW S, NEW q \in Seq(S), NEW r \in Seq(S), r # <<>>
  PROVE  Append(q, Head(r)) \o Tail(r) = q \o r
<1> DEFINE a == Append(q, Head(r))
<1>1. /\ a \in Seq(S) /\ Len(a) = Len(q) + 1 /\ Len(q) \in Nat
      /\ \A i \in 1 .. Len(q) : a[i] = q[i]
      /\ a[Len(q) + 1] = r[1]
  BY Appended, Dequeued
<1>2. /\ Tail(r) \in Seq(S) /\ Len(Tail(r)) = Len(r) - 1 /\ Len(r) \in Nat /\ Len(r) > 0
      /\ \A i \in 1 .. Len(Tail(r)) : Tail(r)[i] = r[i + 1]
  BY Dequeued
<1> HIDE DEF a
<1>3. /\ a \o Tail(r) \in Seq(S) /\ Len(a \o Tail(r)) = Len(a) + Len(Tail(r))
      /\ \A i \in 1 .. Len(a) + Len(Tail(r)) :
           (a \o Tail(r))[i] = IF i <= Len(a) THEN a[i] ELSE Tail(r)[i - Len(a)]
  BY <1>1, <1>2, ConcatProperties
<1>4. /\ q \o r \in Seq(S) /\ Len(q \o r) = Len(q) + Len(r)
      /\ \A i \in 1 .. Len(q) + Len(r) :
           (q \o r)[i] = IF i <= Len(q) THEN q[i] ELSE r[i - Len(q)]
  BY ConcatProperties
<1>5. ASSUME NEW i \in 1 .. Len(q) + Len(r) PROVE (a \o Tail(r))[i] = (q \o r)[i]
  <2>0. i \in Nat /\ i \in 1 .. Len(a) + Len(Tail(r))
    BY <1>1, <1>2
  <2>1. CASE i <= Len(q)
    BY <1>1, <1>3, <1>4, <2>0, <2>1
  <2>2. CASE i = Len(q) + 1
    BY <1>1, <1>3, <1>4, <2>0, <2>2
  <2>3. CASE i > Len(q) + 1
    <3>1. i - Len(a) \in 1 .. Len(Tail(r)) /\ (i - Len(a)) + 1 = i - Len(q)
      BY <1>1, <1>2, <2>0, <2>3
    <3>2. (a \o Tail(r))[i] = Tail(r)[i - Len(a)]
      BY <1>1, <1>3, <2>0, <2>3
    <3>3. Tail(r)[i - Len(a)] = r[i - Len(q)]
      BY <1>2, <3>1
    <3>4. (q \o r)[i] = r[i - Len(q)]
      BY <1>1, <1>4, <2>0, <2>3
    <3> QED BY <3>2, <3>3, <3>4
  <2> QED BY <1>1, <2>0, <2>1, <2>2, <2>3
<1>6. Len(a \o Tail(r)) = Len(q \o r)
  BY <1>1, <1>2, <1>3, <1>4
<1> QED BY <1>3, <1>4, <1>5, <1>6, SeqEqual DEF a

(* Adding to the end of the second of two sequences.                       *)
LEMMA SentLast ==
  ASSUME NEW S, NEW q \in Seq(S), NEW r \in Seq(S), NEW x \in S
  PROVE  q \o Append(r, x) = Append(q \o r, x)
<1>1. q \o r \in Seq(S) /\ <<x>> \in Seq(S)
  BY ConcatProperties
<1>2. Append(r, x) = r \o <<x>> /\ Append(q \o r, x) = (q \o r) \o <<x>>
  BY <1>1, AppendIsConcat
<1> QED BY <1>1, <1>2, ConcatAssociative

(* A frame sent into the channel is delivered last.                        *)
LEMMA Sent ==
  ASSUME Typed, NEW s \in Subs, Deliver(s), SendFrame(s)
  PROVE  Delivered(s)' = Append(Delivered(s), [seq |-> taken[s], n |-> nread[s]])
<1> DEFINE f == [seq |-> taken[s], n |-> nread[s]]
<1>1. got[s] \in Seq(Frame) /\ frames[s] \in Seq(Frame)
  BY DEF Typed
<1>2. got'[s] = got[s] /\ frames'[s] = Append(frames[s], f) /\ f \in Frame
  BY DEF Deliver, SendFrame, FrameSent, Typed, Frame
<1> HIDE DEF f
<1>3. got[s] \o Append(frames[s], f) = Append(got[s] \o frames[s], f)
  <2>1. \A q, r \in Seq(Frame), x \in Frame : q \o Append(r, x) = Append(q \o r, x)
    BY SentLast
  <2> QED BY <1>1, <1>2, <2>1
<1> QED BY <1>2, <1>3 DEF Delivered, f

(* Only that adds to what was delivered: reading moves it without changing *)
(* it.                                                                     *)
Sends(s) == Deliver(s) /\ SendFrame(s) /\ run' = [run EXCEPT ![s] = "read"]

LEMMA DeliveredNext ==
  ASSUME Typed, NEW s \in Subs, [Next]_vars
  PROVE  Delivered(s)' = Delivered(s) \/ Sends(s)
<1>1. got[s] \in Seq(Frame) /\ frames[s] \in Seq(Frame)
  BY DEF Typed
<1>2. got'[s] = got[s] /\ frames'[s] = frames[s] => Delivered(s)' = Delivered(s)
  BY DEF Delivered
<1>3. ASSUME NEW r \in Subs, ReadFrame(r)
      PROVE  Delivered(s)' = Delivered(s)
  <2>1. CASE r # s
    <3>1. got'[s] = got[s] /\ frames'[s] = frames[s]
      BY <1>3, <2>1 DEF ReadFrame, Typed
    <3> QED BY <1>2, <3>1
  <2>2. CASE r = s
    <3>1. /\ frames[s] # <<>> /\ got'[s] = Append(got[s], Head(frames[s]))
          /\ frames'[s] = Tail(frames[s])
      BY <1>3, <2>2 DEF ReadFrame, Typed
    <3>2. Append(got[s], Head(frames[s])) \o Tail(frames[s]) = got[s] \o frames[s]
      BY <1>1, <3>1, PassedOn
    <3> QED BY <3>1, <3>2 DEF Delivered
  <2> QED BY <2>1, <2>2
<1>4. ASSUME NEW r \in Subs, Sends(r)
      PROVE  Delivered(s)' = Delivered(s) \/ Sends(s)
  <2>1. CASE r # s
    <3>1. got'[s] = got[s] /\ frames'[s] = frames[s]
      BY <1>4, <2>1 DEF Sends, Deliver, SendFrame, FrameSent, Typed
    <3> QED BY <1>2, <3>1
  <2> QED BY <1>4, <2>1
<1>5. UNCHANGED <<got, frames>> => Delivered(s)' = Delivered(s)
  BY DEF Delivered
<1>6. ASSUME NEW x \in Streams, NEW how \in {"fin", "reset"}, ServerOpens(x, how)
      PROVE  UNCHANGED <<got, frames>>
  BY <1>6 DEF ServerOpens
<1>7. ASSUME NEW r \in Subs,
        \/ Subscribe(r) \/ SubscribeFails(r) \/ CloseSub(r) \/ ControlEnds(r)
        \/ SubscribeOk(r) \/ Park(r) \/ Wake(r) \/ Take(r) \/ Drain(r)
        \/ Oversized(r) \/ ReadGroup(r)
      PROVE  UNCHANGED <<got, frames>>
  BY <1>7 DEF Subscribe, SubscribeFails, CloseSub, ControlEnds, SubscribeOk, Park, Wake,
              Take, Drain, Oversized, ReadGroup
<1>8. ASSUME \/ ConnectionLost \/ FailAll \/ CloseConnection \/ AcceptFails \/ Kick
             \/ Accept \/ Enqueue \/ UNCHANGED vars
      PROVE  UNCHANGED <<got, frames>>
  BY <1>8 DEF ConnectionLost, FailAll, CloseConnection, AcceptFails, Kick, Accept, Enqueue, vars
<1>9. ASSUME NEW r \in Subs, Deliver(r)
      PROVE  Sends(r) \/ UNCHANGED <<got, frames>>
  BY <1>9 DEF Deliver, Sends
<1> QED
  BY <1>3, <1>4, <1>5, <1>6, <1>7, <1>8, <1>9, ClientAssumption DEF Next, Run, AcceptLoop

(* What a step does to a goroutine: nothing, unless it is one of its own.  *)
LEMMA RunNext ==
  ASSUME Typed, NEW s \in Subs, [Next]_vars
  PROVE  \/ taken'[s] = taken[s] /\ nread'[s] = nread[s] /\ run'[s] = run[s]
         \/ taken'[s] = taken[s] /\ run'[s] \notin {"read", "deliver"}
         \/ Take(s) /\ queue[s] # <<>>
         \/ /\ run[s] = "read" /\ run'[s] = "deliver"
            /\ taken'[s] = taken[s] /\ nread'[s] = nread[s] + 1
         \/ Sends(s)
<1> USE DEF session, loop, drain, server
<1>1. ASSUME NEW x \in Streams, NEW how \in {"fin", "reset"}, ServerOpens(x, how)
      PROVE  UNCHANGED drain
  BY <1>1 DEF ServerOpens
<1>2. ASSUME NEW r \in Subs,
        Subscribe(r) \/ SubscribeFails(r) \/ CloseSub(r) \/ ControlEnds(r) \/ ReadFrame(r)
      PROVE  UNCHANGED drain
  BY <1>2 DEF Subscribe, SubscribeFails, CloseSub, ControlEnds, ReadFrame
<1>3. ASSUME \/ ConnectionLost \/ FailAll \/ CloseConnection \/ AcceptFails \/ Kick
             \/ Accept \/ Enqueue \/ UNCHANGED vars
      PROVE  UNCHANGED drain
  BY <1>3 DEF ConnectionLost, FailAll, CloseConnection, AcceptFails, Kick, Accept, Enqueue, vars
<1>4. ASSUME NEW r \in Subs,
        SubscribeOk(r) \/ Park(r) \/ Wake(r) \/ Drain(r) \/ Oversized(r)
      PROVE  /\ taken'[s] = taken[s]
             /\ run'[s] \notin {"read", "deliver"} \/ (nread'[s] = nread[s] /\ run'[s] = run[s])
  BY <1>4 DEF SubscribeOk, Park, Wake, Drain, Oversized, Typed
<1>5. ASSUME NEW r \in Subs, Take(r) \/ Deliver(r) \/ ReadGroup(r), r # s
      PROVE  taken'[s] = taken[s] /\ nread'[s] = nread[s] /\ run'[s] = run[s]
  <2>1. CASE Take(r)
    BY <1>5, <2>1 DEF Take, Typed
  <2>2. CASE Deliver(r)
    BY <1>5, <2>2 DEF Deliver, Typed
  <2>3. CASE ReadGroup(r)
    BY <1>5, <2>3 DEF ReadGroup, Typed
  <2> QED BY <1>5, <2>1, <2>2, <2>3
<1>6. ASSUME Take(s), queue[s] = <<>>
      PROVE  taken'[s] = taken[s] /\ run'[s] = "idle"
  BY <1>6 DEF Take, Typed
<1>7. ASSUME Deliver(s)
      PROVE  Sends(s) \/ (taken'[s] = taken[s] /\ run'[s] = "after")
  BY <1>7 DEF Deliver, Sends, Typed
<1>8. ASSUME ReadGroup(s)
      PROVE  /\ taken'[s] = taken[s]
             /\ \/ run'[s] = "after"
                \/ run[s] = "read" /\ run'[s] = "deliver" /\ nread'[s] = nread[s] + 1
  BY <1>8 DEF ReadGroup, Typed
<1> QED
  BY <1>1, <1>2, <1>3, <1>4, <1>5, <1>6, <1>7, <1>8, ClientAssumption DEF Next, Run, AcceptLoop

(* The goroutine's progress through its group.                             *)
LEMMA ProgressIdle ==
  ASSUME NEW s \in Subs, Progress(s), Delivered(s)' = Delivered(s),
         taken'[s] = taken[s], run'[s] \notin {"read", "deliver"}
  PROVE  Progress(s)'
  BY DEF Progress

(* A step that leaves the goroutine where it is.                           *)
LEMMA ProgressStays ==
  ASSUME NEW s \in Subs, Progress(s), Delivered(s)' = Delivered(s),
         taken'[s] = taken[s], nread'[s] = nread[s], run'[s] = run[s]
  PROVE  Progress(s)'
  BY DEF Progress, Done

(* The goroutine turns to the next group: all that was delivered is older. *)
LEMMA ProgressTakes ==
  ASSUME Typed, Typed', NEW s \in Subs, Way(s), Progress(s), Take(s), queue[s] # <<>>,
         Delivered(s)' = Delivered(s)
  PROVE  Progress(s)'
<1> DEFINE D == Delivered(s)
<1>1. run'[s] = "read" /\ nread'[s] = 0 /\ taken'[s] = Head(queue[s]).seq
  BY DEF Take, Dequeue, Typed
<1>2. Head(queue[s]) \in Queued(s)
  BY Dequeued DEF Typed, Queued
<1>3. taken[s] < taken'[s] /\ taken[s] \in Nat /\ taken'[s] \in Nat
  BY <1>1, <1>2, ClientAssumption DEF Way, Past, Typed
<1>4. \A i \in 1 .. Len(D) : D[i].seq < taken'[s] /\ D[i].seq <= taken'[s]
  <2> SUFFICES ASSUME NEW i \in 1 .. Len(D) PROVE D[i].seq < taken'[s] /\ D[i].seq <= taken'[s]
    OBVIOUS
  <2>1. D[i].seq \in Nat /\ D[i].seq <= taken[s]
    BY DeliveredTyped, ClientAssumption DEF Progress, Frame
  <2> QED BY <1>3, <2>1
<1>5. Done(s)' = 0
  BY <1>1 DEF Done
<1> HIDE DEF D
<1> QED BY <1>1, <1>4, <1>5 DEF Progress, D

(* A frame is read, and then sent.                                         *)
LEMMA ProgressReads ==
  ASSUME Typed, NEW s \in Subs, Progress(s), Delivered(s)' = Delivered(s),
         run[s] = "read", run'[s] = "deliver", taken'[s] = taken[s], nread'[s] = nread[s] + 1
  PROVE  Progress(s)'
<1>1. nread[s] \in Nat
  BY DEF Typed
<1>2. Done(s)' = Done(s) /\ nread'[s] > 0
  BY <1>1 DEF Done
<1> QED BY <1>2 DEF Progress

(* Sending continues the group in hand.                                    *)
LEMMA ProgressSends ==
  ASSUME Typed, NEW s \in Subs, Progress(s), run[s] = "deliver", run'[s] = "read",
         taken'[s] = taken[s], nread'[s] = nread[s],
         Delivered(s)' = Append(Delivered(s), [seq |-> taken[s], n |-> nread[s]])
  PROVE  Progress(s)'
<1> DEFINE D == Delivered(s)
           f == [seq |-> taken[s], n |-> nread[s]]
<1>1. nread[s] \in Nat /\ nread[s] > 0 /\ taken[s] \in Nat /\ f \in Frame
  BY ClientAssumption DEF Progress, Typed, Frame
<1>2. /\ Len(Delivered(s)') = Len(D) + 1 /\ Len(D) \in Nat /\ Delivered(s)'[Len(D) + 1] = f
      /\ \A i \in 1 .. Len(D) : Delivered(s)'[i] = D[i]
  BY <1>1, DeliveredTyped, Appended
<1>3. Done(s)' = nread[s] /\ Done(s) = nread[s] - 1
  BY DEF Done
<1>4. \A i \in 1 .. Len(D) : D[i].seq <= taken[s]
  BY DEF Progress
<1>5. \A n \in 1 .. Done(s) : \E i \in 1 .. Len(D) : D[i] = [seq |-> taken[s], n |-> n]
  BY DEF Progress
<1> HIDE DEF D
<1>6. ASSUME NEW n \in 1 .. nread[s]
      PROVE  \E i \in 1 .. Len(D) + 1 : Delivered(s)'[i] = [seq |-> taken[s], n |-> n]
  <2>1. CASE n = nread[s]
    BY <1>2, <2>1
  <2>2. CASE n # nread[s]
    <3>1. n \in 1 .. Done(s)
      BY <1>1, <1>3, <2>2
    <3>2. PICK i \in 1 .. Len(D) : D[i] = [seq |-> taken[s], n |-> n]
      BY <1>5, <3>1
    <3> QED BY <1>2, <3>2
  <2> QED BY <2>1, <2>2
<1>7. ASSUME NEW i \in 1 .. Len(D) + 1 PROVE Delivered(s)'[i].seq <= taken[s]
  <2>1. CASE i = Len(D) + 1
    BY <1>1, <1>2, <2>1
  <2>2. CASE i # Len(D) + 1
    <3>1. i \in 1 .. Len(D)
      BY <1>2, <2>2
    <3> QED BY <1>2, <1>4, <3>1
  <2> QED BY <2>1, <2>2
<1>8. Delivered(s)' # <<>>
  BY <1>2
<1>9. Done(s)' > 0 /\ Delivered(s)'[Len(Delivered(s)')] = [seq |-> taken[s], n |-> Done(s)']
  BY <1>1, <1>2, <1>3
<1>10. /\ \A i \in 1 .. Len(Delivered(s)') : Delivered(s)'[i].seq <= taken'[s]
       /\ \A n \in 1 .. Done(s)' : \E i \in 1 .. Len(Delivered(s)') :
            Delivered(s)'[i] = [seq |-> taken'[s], n |-> n]
  <2>1. Len(Delivered(s)') = Len(D) + 1 /\ Done(s)' = nread[s] /\ taken'[s] = taken[s]
    BY <1>2, <1>3
  <2> QED BY <1>6, <1>7, <2>1
<1>11. Done(s)' # 0
  BY <1>1, <1>3
<1>12. taken'[s] = taken[s] /\ run'[s] # "deliver"
  OBVIOUS
<1> QED BY <1>8, <1>9, <1>10, <1>11, <1>12 DEF Progress

(* The goroutine's progress, whatever the step.                            *)
LEMMA ProgressNext ==
  ASSUME Typed, Typed', NEW s \in Subs, Way(s), Progress(s), [Next]_vars
  PROVE  Progress(s)'
<1>1. CASE Sends(s)
  <2>1. /\ run[s] = "deliver" /\ run'[s] = "read" /\ taken'[s] = taken[s] /\ nread'[s] = nread[s]
        /\ Delivered(s)' = Append(Delivered(s), [seq |-> taken[s], n |-> nread[s]])
    BY <1>1, Sent DEF Sends, Deliver, Typed
  <2> QED BY <2>1, ProgressSends
<1>2. CASE Delivered(s)' = Delivered(s)
  <2>1. CASE taken'[s] = taken[s] /\ nread'[s] = nread[s] /\ run'[s] = run[s]
    BY <1>2, <2>1, ProgressStays
  <2>2. CASE taken'[s] = taken[s] /\ run'[s] \notin {"read", "deliver"}
    BY <1>2, <2>2, ProgressIdle
  <2>3. CASE Take(s) /\ queue[s] # <<>>
    BY <1>2, <2>3, ProgressTakes
  <2>4. CASE /\ run[s] = "read" /\ run'[s] = "deliver"
             /\ taken'[s] = taken[s] /\ nread'[s] = nread[s] + 1
    BY <1>2, <2>4, ProgressReads
  <2> QED BY <1>1, <2>1, <2>2, <2>3, <2>4, RunNext
<1> QED BY <1>1, <1>2, DeliveredNext

-----------------------------------------------------------------------------
(* A frame that is sent follows the one before it: the first of a newer    *)
(* group, or the next of the same.                                         *)
LEMMA OrderNext ==
  ASSUME Typed, \A s \in Subs : Progress(s), FramesInOrder, [Next]_vars
  PROVE  FramesInOrder'
<1> SUFFICES ASSUME NEW s \in Subs, NEW i \in 1 .. Len(Delivered(s)')
             PROVE  \/ /\ Delivered(s)'[i].n = 1
                       /\ i = 1 \/ Delivered(s)'[i - 1].seq < Delivered(s)'[i].seq
                    \/ /\ i > 1 /\ Delivered(s)'[i - 1].seq = Delivered(s)'[i].seq
                       /\ Delivered(s)'[i - 1].n = Delivered(s)'[i].n - 1
  BY DEF FramesInOrder
<1>1. CASE Delivered(s)' = Delivered(s)
  BY <1>1 DEF FramesInOrder
<1>2. CASE Sends(s)
  <2> DEFINE D == Delivered(s)
             f == [seq |-> taken[s], n |-> nread[s]]
  <2>1. run[s] = "deliver" /\ nread[s] \in Nat /\ nread[s] > 0 /\ f \in Frame
    BY <1>2 DEF Sends, Deliver, Progress, Typed, Frame
  <2>2. Delivered(s)' = Append(D, f)
    BY <1>2, Sent DEF Sends
  <2>3. /\ Len(Delivered(s)') = Len(D) + 1 /\ Len(D) \in Nat /\ Delivered(s)'[Len(D) + 1] = f
        /\ \A j \in 1 .. Len(D) : Delivered(s)'[j] = D[j]
    BY <2>1, <2>2, DeliveredTyped, Appended
  <2>4. CASE i # Len(D) + 1
    <3>1. i \in 1 .. Len(D) /\ (i = 1 \/ i - 1 \in 1 .. Len(D))
      BY <2>3, <2>4
    <3>2. Delivered(s)'[i] = D[i] /\ (i = 1 \/ Delivered(s)'[i - 1] = D[i - 1])
      BY <2>3, <3>1
    <3>3. \/ D[i].n = 1 /\ (i = 1 \/ D[i - 1].seq < D[i].seq)
          \/ i > 1 /\ D[i - 1].seq = D[i].seq /\ D[i - 1].n = D[i].n - 1
      BY <3>1 DEF FramesInOrder
    <3> HIDE DEF D
    <3> QED BY <3>1, <3>2, <3>3
  <2>5. CASE i = Len(D) + 1
    <3>1. i - 1 = Len(D) /\ (i = 1 \/ i - 1 \in 1 .. Len(D)) /\ Delivered(s)'[i] = f
      BY <2>3, <2>5
    <3>2. CASE nread[s] = 1
      <4>0. \A j \in 1 .. Len(D) : D[j].seq < taken[s]
        <5>1. Done(s) = 0
          BY <2>1, <3>2 DEF Done
        <5> QED BY <2>1, <5>1 DEF Progress
      <4>1. i = 1 \/ D[i - 1].seq < taken[s]
        BY <3>1, <4>0
      <4> QED BY <2>3, <3>1, <3>2, <4>1
    <3>3. CASE nread[s] # 1
      <4>1. D # <<>> /\ D[Len(D)] = [seq |-> taken[s], n |-> nread[s] - 1]
        BY <2>1, <3>3 DEF Progress, Done
      <4>2. Len(D) # 0
        BY <4>1, DeliveredTyped
      <4>3. i > 1 /\ Delivered(s)'[i - 1] = D[Len(D)]
        BY <2>3, <3>1, <4>2
      <4> HIDE DEF D
      <4> QED BY <3>1, <4>1, <4>3
    <3> QED BY <3>2, <3>3
  <2> QED BY <2>4, <2>5
<1> QED BY <1>1, <1>2, DeliveredNext

(* A group is left behind by the goroutine that read it, at its end or     *)
(* when it was cut short.                                                  *)
LEMMA LeftBehind ==
  ASSUME Typed, NEW x \in Streams, stream'[x].fate = "read", [Next]_vars
  PROVE  \/ stream'[x] = stream[x]
         \/ \E r \in Subs :
              /\ run[r] = "read" /\ x = Taken(r) /\ stream'[x].end = stream[x].end
              /\ \/ nread[r] = GroupFrames
                 \/ stream[x].end = "reset" \/ conn = "closed"
<1> USE DEF session, loop, drain, server
<1> DEFINE Same == stream'[x] = stream[x]
<1>0. ASSUME NEW y \in Streams, NEW fate \in Fates \ {"read"}, stream' = Fated(y, fate)
      PROVE  Same
  <2>1. stream'[y].fate = fate /\ (x # y => stream'[x] = stream[x])
    BY <1>0, FatedTyped
  <2> QED BY <2>1
<1>1. ASSUME NEW y \in Streams, NEW how \in {"fin", "reset"}, ServerOpens(y, how) PROVE Same
  BY <1>1 DEF ServerOpens, Typed
<1>2. CASE Accept
  <2>1. Head(wire) \in Streams
    BY <1>2, Dequeued DEF Accept, Typed
  <2>2. stream' = Fated(Head(wire), "accepted") \/ stream' = Fated(Head(wire), "cancelled")
    BY <1>2 DEF Accept
  <2> QED BY <1>0, <2>1, <2>2 DEF Fates
<1>3. CASE Enqueue
  <2>1. held \in Streams
    BY <1>3 DEF Enqueue, Typed
  <2>2. stream' = Fated(held, "queued") \/ stream' = Fated(held, "cancelled")
    BY <1>3 DEF Enqueue
  <2> QED BY <1>0, <2>1, <2>2 DEF Fates
<1>4. ASSUME NEW r \in Subs, Take(r) PROVE Same
  <2>1. CASE queue[r] = <<>>
    BY <1>4, <2>1 DEF Take
  <2>2. CASE queue[r] # <<>>
    <3>1. Head(queue[r]) \in Streams
      BY <2>2, Dequeued DEF Typed
    <3>2. stream' = Fated(Head(queue[r]), "reading")
      BY <1>4, <2>2 DEF Take, Dequeue
    <3> QED BY <1>0, <3>1, <3>2 DEF Fates
  <2> QED BY <2>1, <2>2
<1>5. ASSUME NEW r \in Subs, Drain(r) PROVE Same
  BY <1>5 DEF Drain, Typed
<1>6. ASSUME NEW r \in Subs, Oversized(r) \/ Deliver(r) PROVE Same
  <2>1. Taken(r) \in Streams
    BY <1>6, TakenStream DEF Oversized, Deliver
  <2>2. stream' = Fated(Taken(r), "cancelled") \/ UNCHANGED stream
    BY <1>6 DEF Oversized, Deliver
  <2> QED BY <1>0, <2>1, <2>2 DEF Fates
<1>7. ASSUME NEW r \in Subs, ReadGroup(r)
      PROVE  \/ Same
             \/ /\ run[r] = "read" /\ x = Taken(r) /\ stream'[x].end = stream[x].end
                /\ \/ nread[r] = GroupFrames
                   \/ stream[x].end = "reset" \/ conn = "closed"
  <2>1. Taken(r) \in Streams
    BY <1>7, TakenStream DEF ReadGroup
  <2>2. CASE UNCHANGED stream
    BY <2>2
  <2>3. CASE stream' = Fated(Taken(r), "read")
    <3>1. CASE x # Taken(r)
      BY <2>1, <2>3, <3>1, FatedTyped DEF Fates
    <3>2. CASE x = Taken(r) /\ ~UNCHANGED stream
      <4>1. stream'[x].end = stream[x].end
        BY <2>1, <2>3, <3>2, FatedTyped DEF Fates
      <4> QED BY <1>7, <3>2, <4>1 DEF ReadGroup
    <3> QED BY <2>2, <3>1, <3>2
  <2> QED BY <1>7, <2>2, <2>3 DEF ReadGroup
<1>8. ASSUME NEW r \in Subs,
        \/ Subscribe(r) \/ SubscribeFails(r) \/ CloseSub(r) \/ ControlEnds(r)
        \/ SubscribeOk(r) \/ Park(r) \/ Wake(r) \/ ReadFrame(r)
      PROVE  Same
  BY <1>8 DEF Subscribe, SubscribeFails, CloseSub, ControlEnds, SubscribeOk, Park, Wake, ReadFrame
<1>9. CASE ConnectionLost \/ FailAll \/ CloseConnection \/ AcceptFails \/ Kick \/ UNCHANGED vars
  BY <1>9 DEF ConnectionLost, FailAll, CloseConnection, AcceptFails, Kick, vars
<1> HIDE DEF Same
<1> QED
  BY <1>1, <1>2, <1>3, <1>4, <1>5, <1>6, <1>7, <1>8, <1>9, ClientAssumption
  DEF Next, Run, AcceptLoop, Same

(* What has ended stays ended.                                             *)
LEMMA EndsForGood ==
  ASSUME Typed, NEW s \in Subs, [Next]_vars
  PROVE  (ended[s] => ended'[s]) /\ (conn' = "open" => conn = "open")
<1> USE DEF session, loop, drain, server
<1>1. ASSUME NEW x \in Streams, NEW how \in {"fin", "reset"}, ServerOpens(x, how)
      PROVE  UNCHANGED <<ended, conn>>
  BY <1>1 DEF ServerOpens
<1>2. CASE ConnectionLost \/ FailAll \/ CloseConnection \/ AcceptFails
  BY <1>2 DEF ConnectionLost, FailAll, CloseConnection, AcceptFails, AllFailed
<1>3. ASSUME NEW r \in Subs, CloseSub(r) \/ ControlEnds(r) \/ Oversized(r)
      PROVE  (ended[s] => ended'[s]) /\ conn' = conn
  BY <1>3 DEF CloseSub, ControlEnds, Oversized, Typed
<1>4. ASSUME NEW r \in Subs,
        \/ Subscribe(r) \/ SubscribeFails(r) \/ SubscribeOk(r) \/ Park(r) \/ Wake(r)
        \/ Take(r) \/ Drain(r) \/ Deliver(r) \/ ReadGroup(r) \/ ReadFrame(r)
      PROVE  UNCHANGED <<ended, conn>>
  BY <1>4 DEF Subscribe, SubscribeFails, SubscribeOk, Park, Wake, Take, Drain, Deliver,
              ReadGroup, ReadFrame
<1>5. CASE Kick \/ Accept \/ Enqueue \/ UNCHANGED vars
  BY <1>5 DEF Kick, Accept, Enqueue, vars
<1> QED
  BY <1>1, <1>2, <1>3, <1>4, <1>5, ClientAssumption DEF Next, Run, AcceptLoop

(* A finished group that is left behind was delivered to its last frame.   *)
LEMMA WholeNext ==
  ASSUME Typed, \A s \in Subs : Progress(s), NothingSkipped, [Next]_vars
  PROVE  NothingSkipped'
<1> SUFFICES ASSUME NEW s \in Subs, NEW x \in Streams, x.sub = s, ~ended'[s], conn' = "open",
                    stream'[x].fate = "read", stream'[x].end = "fin",
                    NEW n \in 1 .. GroupFrames
             PROVE  \E i \in 1 .. Len(Delivered(s)') : Delivered(s)'[i] = [seq |-> x.seq, n |-> n]
  BY DEF NothingSkipped
<1> DEFINE f == [seq |-> x.seq, n |-> n]
<1>1. ~ended[s] /\ conn = "open"
  BY EndsForGood
<1>2. \E i \in 1 .. Len(Delivered(s)) : Delivered(s)[i] = f
  <2>1. CASE stream'[x] = stream[x]
    BY <1>1, <2>1 DEF NothingSkipped
  <2>2. CASE \E r \in Subs :
              /\ run[r] = "read" /\ x = Taken(r) /\ stream'[x].end = stream[x].end
              /\ \/ nread[r] = GroupFrames
                 \/ stream[x].end = "reset" \/ conn = "closed"
    <3>1. PICK r \in Subs :
              /\ run[r] = "read" /\ x = Taken(r) /\ stream'[x].end = stream[x].end
              /\ \/ nread[r] = GroupFrames
                 \/ stream[x].end = "reset" \/ conn = "closed"
      BY <2>2
    <3>2. r = s /\ x.seq = taken[s]
      BY <3>1, TakenStream
    <3>3. nread[s] = GroupFrames /\ run[s] = "read"
      BY <1>1, <3>1, <3>2
    <3>4. Done(s) = GroupFrames
      BY <3>3 DEF Done
    <3>5. PICK i \in 1 .. Len(Delivered(s)) : Delivered(s)[i] = [seq |-> taken[s], n |-> n]
      BY <3>3, <3>4 DEF Progress
    <3> QED BY <3>2, <3>5
  <2> QED BY <2>1, <2>2, LeftBehind
<1> HIDE DEF f
<1>3. CASE Delivered(s)' = Delivered(s)
  BY <1>2, <1>3 DEF f
<1>4. CASE Sends(s)
  <2> DEFINE g == [seq |-> taken[s], n |-> nread[s]]
  <2>1. g \in Frame /\ Delivered(s)' = Append(Delivered(s), g)
    BY <1>4, Sent DEF Sends, Typed, Frame
  <2> HIDE DEF g
  <2>2. /\ Len(Delivered(s)') = Len(Delivered(s)) + 1 /\ Len(Delivered(s)) \in Nat
        /\ \A j \in 1 .. Len(Delivered(s)) : Delivered(s)'[j] = Delivered(s)[j]
    BY <2>1, DeliveredTyped, Appended
  <2> QED BY <1>2, <2>2 DEF f
<1> QED BY <1>3, <1>4, DeliveredNext

-----------------------------------------------------------------------------
(* Where the client starts: nobody subscribed, or a stalled application's  *)
(* channel full of the first frames of its first group.                    *)
LEMMA InitTyped == Init => Typed
<1> SUFFICES ASSUME Init PROVE Typed
  OBVIOUS
<1>1. MaxGroups \in Nat /\ MaxGroups > 0 /\ Cap \in Nat /\ Cap > 0
  BY ClientAssumption
<1>2. [n \in 1 .. Cap |-> [seq |-> 1, n |-> n]] \in Seq(Frame) /\ <<>> \in Seq(Frame)
  <2>1. \A n \in 1 .. Cap : [seq |-> 1, n |-> n] \in Frame
    BY <1>1 DEF Frame
  <2> QED BY <1>1, <2>1
<1>3. frames \in [Subs -> Seq(Frame)] /\ got \in [Subs -> Seq(Frame)]
  BY <1>2 DEF Init, OfStalled
<1>4. stream \in [Streams -> [fate : Fates, end : {"fin", "reset"}]]
  BY DEF Init, Fates
<1>5. wire \in Seq(Streams) /\ queue \in [Subs -> Seq(Streams)]
  BY DEF Init
<1>6. /\ run \in [Subs -> {"off", "take", "idle", "wait", "read", "deliver", "after", "done"}]
      /\ taken \in [Subs -> 0 .. MaxGroups] /\ nread \in [Subs -> Nat]
      /\ \A s \in Subs : run[s] \in {"read", "deliver"} => taken[s] > 0
  BY <1>1 DEF Init, OfStalled
<1> QED BY <1>3, <1>4, <1>5, <1>6 DEF Init, Typed

(* What is delivered there.                                                *)
LEMMA InitDelivered ==
  ASSUME Init, NEW s \in Subs
  PROVE  /\ s \in Stalled => /\ Len(Delivered(s)) = Cap
                             /\ \A n \in 1 .. Cap : Delivered(s)[n] = [seq |-> 1, n |-> n]
         /\ s \notin Stalled => Len(Delivered(s)) = 0
<1>1. Cap \in Nat
  BY ClientAssumption
<1>2. got[s] = <<>> /\ frames[s] \in Seq(Frame)
  BY InitTyped DEF Init, Typed
<1>3. Delivered(s) = frames[s]
  BY <1>2, ConcatEmptySeq DEF Delivered
<1>4. CASE s \in Stalled
  <2>1. frames[s] = [n \in 1 .. Cap |-> [seq |-> 1, n |-> n]]
    BY <1>4 DEF Init, OfStalled
  <2> QED BY <1>1, <1>2, <1>3, <1>4, <2>1
<1>5. CASE s \notin Stalled
  <2>1. frames[s] = <<>>
    BY <1>5 DEF Init, OfStalled
  <2> QED BY <1>3, <1>5, <2>1
<1> QED BY <1>4, <1>5

(* The invariant holds there.                                              *)
LEMMA InitInv == Init => IInv
<1> SUFFICES ASSUME Init PROVE IInv
  OBVIOUS
<1>1. MaxGroups \in Nat /\ MaxGroups > 0 /\ Cap \in Nat /\ Cap > 0
  BY ClientAssumption
<1>2. Typed
  BY InitTyped
<1>3. ASSUME NEW s \in Subs PROVE Seen(s)
  BY DEF Init, OfStalled, Seen
<1>4. ASSUME NEW s \in Subs PROVE Way(s)
  <2>1. Queued(s) = {} /\ InHand(s) = {} /\ OnWire(s) = {} /\ Len(queue[s]) = 0 /\ Len(wire) = 0
    BY DEF Init, Queued, InHand, OnWire
  <2>2. Past(s, Unopened(s))
    <3> SUFFICES ASSUME NEW x \in Streams, x.sub = s, x \notin Opened PROVE taken[s] < x.seq
      BY DEF Past, Unopened
    <3>1. x.seq \in Nat /\ x.seq > 0 /\ x.sub \in Subs
      BY <1>1 DEF Streams
    <3>2. CASE s \in Stalled
      <4>1. taken[s] = 1
        BY <3>2 DEF Init, OfStalled
      <4>2. x.seq # 1
        BY <3>2 DEF Init, Opened
      <4> QED BY <3>1, <4>1, <4>2
    <3>3. CASE s \notin Stalled
      <4>1. taken[s] = 0
        BY <3>3 DEF Init, OfStalled
      <4> QED BY <3>1, <4>1
    <3> QED BY <3>2, <3>3
  <2> QED BY <2>1, <2>2 DEF Way, Past, Before
<1>5. ASSUME NEW s \in Subs PROVE Progress(s)
  <2>1. CASE s \in Stalled
    <3>1. taken[s] = 1 /\ run[s] = "deliver" /\ nread[s] = Cap + 1
      BY <2>1 DEF Init, OfStalled
    <3>2. /\ Len(Delivered(s)) = Cap
          /\ \A n \in 1 .. Cap : Delivered(s)[n] = [seq |-> 1, n |-> n]
      BY <2>1, InitDelivered
    <3>3. Delivered(s) # <<>>
      BY <1>1, <3>2
    <3>4. Done(s) = Cap
      BY <1>1, <3>1 DEF Done
    <3> QED BY <1>1, <3>1, <3>2, <3>3, <3>4 DEF Progress
  <2>2. CASE s \notin Stalled
    <3>1. run[s] = "off" /\ Len(Delivered(s)) = 0
      BY <2>2, InitDelivered DEF Init, OfStalled
    <3> QED BY <3>1 DEF Progress
  <2> QED BY <2>1, <2>2
<1>6. FramesInOrder
  <2> SUFFICES ASSUME NEW s \in Subs, NEW i \in 1 .. Len(Delivered(s))
               PROVE  \/ Delivered(s)[i].n = 1 /\ i = 1
                      \/ /\ i > 1 /\ Delivered(s)[i - 1].seq = Delivered(s)[i].seq
                         /\ Delivered(s)[i - 1].n = Delivered(s)[i].n - 1
    BY DEF FramesInOrder
  <2>1. /\ Len(Delivered(s)) = Cap
        /\ \A n \in 1 .. Cap : Delivered(s)[n] = [seq |-> 1, n |-> n]
    BY InitDelivered
  <2>2. i \in 1 .. Cap /\ (i = 1 \/ i - 1 \in 1 .. Cap)
    BY <1>1, <2>1
  <2> QED BY <2>1, <2>2
<1>7. NothingSkipped
  BY DEF Init, NothingSkipped
<1> QED BY <1>2, <1>3, <1>4, <1>5, <1>6, <1>7 DEF IInv

(* IInv holds in every reachable state.                                    *)
LEMMA Invariant == Spec => []IInv
<1>1. IInv /\ [Next]_vars => IInv'
  <2> SUFFICES ASSUME IInv, [Next]_vars PROVE IInv'
    OBVIOUS
  <2>1. Typed /\ Typed'
    BY TypedNext DEF IInv
  <2>2. ASSUME NEW s \in Subs PROVE Seen(s)' /\ Way(s)' /\ Progress(s)'
    BY <2>1, SeenNext, WayNext, ProgressNext DEF IInv
  <2>3. FramesInOrder' /\ NothingSkipped'
    BY OrderNext, WholeNext DEF IInv
  <2> QED BY <2>1, <2>2, <2>3 DEF IInv
<1> QED BY <1>1, InitInv, PTL DEF Spec

(* Frames reach the application in the order they were published, whatever *)
(* the server, the connection and the other applications do.               *)
THEOREM DeliveredInOrder == Spec => []FramesInOrder
<1>1. IInv => FramesInOrder
  BY DEF IInv
<1> QED BY <1>1, Invariant, PTL

(* A finished group that a live subscription's goroutine has left behind   *)
(* was delivered to the last frame.                                        *)
THEOREM GroupsWhole == Spec => []NothingSkipped
<1>1. IInv => NothingSkipped
  BY DEF IInv
<1> QED BY <1>1, Invariant, PTL

(* A queued stream is never forgotten: its goroutine is there, and is      *)
(* awake or about to be woken.                                             *)
THEOREM NoStreamForgotten == Spec => []QueuedIsSeen
<1>1. IInv => QueuedIsSeen
  BY DEF IInv, Seen, QueuedIsSeen
<1> QED BY <1>1, Invariant, PTL

=============================================================================
