---------------------------- MODULE ReplayProofs ----------------------------
(***************************************************************************)
(* Machine-checked proofs about Replay.tla, for every number of            *)
(* subscribers and every bound of the publisher under them.                *)
(***************************************************************************)
EXTENDS Replay, LitePublisherProofs

Stages == {"detached", "backfill", "handoff", "live"}

SubTyped ==
  sub \in [Subscribers ->
             [stage : Stages, start : Nat, next : Nat,
              pos : Nat \cup {NoSeq}, taken : Seq(Nat)]]

(* The cache is the upper end of what can be read: it ends with the open   *)
(* group, and a stored group outside it is older than all of it.  Nobody   *)
(* is subscribed while the process is down.                                *)
CacheShape ==
  /\ phase = "down" => ram = {} /\ sub = [s \in Subscribers |-> Detached]
  /\ phase # "down" => cur \in ram /\ \A y \in ram : y <= cur
  /\ \A x \in SeqsOf(store) \ ram : \A y \in ram : x < y
  /\ phase = "store" => cur - 1 \in ram \/ \A y \in ram : cur - 1 < y

(* What a subscriber was served lies at or before its place in the cache,  *)
(* or below the whole cache.                                               *)
Ordered(s) ==
  LET taken == sub[s].taken IN
  /\ \A i \in 1 .. Len(taken) : sub[s].start <= taken[i]
  /\ \A i, j \in 1 .. Len(taken) : i < j => taken[i] < taken[j]
  /\ \A i \in 1 .. Len(taken) :
       taken[i] <= sub[s].pos \/ \A y \in ram : taken[i] < y
  /\ sub[s].stage # "live" => sub[s].pos = NoSeq
  /\ sub[s].stage = "backfill" =>
       /\ sub[s].start <= sub[s].next
       /\ \A i \in 1 .. Len(taken) : taken[i] < sub[s].next

OrderInv == SubTyped /\ CacheShape /\ \A s \in Subscribers : Ordered(s)

-----------------------------------------------------------------------------
(* The first sequence that is not in the store and may still get there.    *)
Top == IF phase = "store" THEN cur - 1 ELSE cur

(* Groups the store has, now or later.                                     *)
Storable(x) == x \in SeqsOf(store) \/ x >= Top

(* The backfill has not run past a cached group that it may have to serve  *)
(* once the cache has lost it, and has served what it passed.              *)
Behind(s) ==
  /\ sub[s].next <= sub[s].start \/ sub[s].next <= cur
  /\ \A x \in ram : sub[s].start <= x /\ Storable(x) => sub[s].next <= x
  /\ \A x \in Readable \ ram :
       sub[s].start <= x /\ x < sub[s].next => x \in Taken(s)

(* In the hand-off, all that is left lies in the cache.                    *)
LeftToCache(s) ==
  \A x \in Readable \ ram : sub[s].start <= x => x < sub[s].next

(* A live subscriber has every group from its start on, or has it ahead in *)
(* the cache.                                                              *)
Ahead(s) ==
  /\ sub[s].pos <= cur
  /\ \A x \in Readable \cup ram :
       sub[s].start <= x => x \in Taken(s) \/ (x \in ram /\ sub[s].pos < x)

Complete(s) ==
  /\ sub[s].stage = "detached" => sub[s] = Detached
  /\ sub[s].stage \in {"backfill", "handoff"} => Behind(s)
  /\ sub[s].stage = "handoff" => LeftToCache(s)
  /\ sub[s].stage = "live" => Ahead(s)

GapInv ==
  /\ OrderInv
  /\ phase = "store" => cur - 1 \in ram
  /\ \A s \in Subscribers : Complete(s)

-----------------------------------------------------------------------------
(* The lowest element of a set of sequences exists.                        *)
LEMMA LowestIs ==
  ASSUME NEW S \in SUBSET Nat, S # {}
  PROVE  Lowest(S) \in S /\ \A y \in S : Lowest(S) <= y
<1> QED BY LeastExists DEF Lowest

(* A step of the system is a step of the publisher or leaves it alone.     *)
LEMMA StepsOfPublisher == ReplayNext => [Next]_vars
<1> QED BY DEF ReplayNext, PublisherStep, Subscribe, SubscriberStep, Backfill,
             EndBackfill, TakeLive, AwaitLive, Unsubscribe

(* The subscribers change nothing in the publisher: under them it behaves  *)
(* as it does alone, so that all that is proved of it holds here.          *)
THEOREM PublisherUndisturbed == ReplaySpec => Spec
<1>1. ReplayInit => Init
  BY DEF ReplayInit
<1>2. [ReplayNext]_replayVars => [Next]_vars
  BY StepsOfPublisher DEF replayVars
<1> QED BY <1>1, <1>2, PTL DEF ReplaySpec, Spec

(* What the publisher's invariant says of sequences.                       *)
LEMMA Sequences ==
  ASSUME SafetyInv
  PROVE  /\ SeqsOf(store) \subseteq Nat /\ ram \subseteq Nat
         /\ cur \in Nat \cup {NoSeq}
         /\ phase # "down" => cur \in Nat /\ \A x \in Indexed : x < cur
         /\ phase = "store" => cur - 1 \in Nat /\ \A x \in Indexed : x < cur - 1
         /\ Readable \subseteq SeqsOf(store) /\ SeqsOf(store) \subseteq Indexed
         /\ Indexed \subseteq Nat
<1> USE PublisherAssumption
<1>1. /\ SeqsOf(store) \subseteq Nat /\ SeqsOf(misplaced) \subseteq Nat
      /\ ram \subseteq Nat /\ cur \in Nat \cup {NoSeq}
  BY DEF SafetyInv, TypeOK, Groups, SeqsOf, Seqs
<1>2. \A x \in Indexed : \E g \in store \cup misplaced : x = g.seq
  BY DEF Indexed, SeqsOf
<1>3. phase # "down" => cur \in Nat /\ \A x \in Indexed : x < cur
  BY <1>2 DEF SafetyInv, OpenGroup, Seqs
<1>4. phase = "store" => cur - 1 \in Nat /\ \A x \in Indexed : x < cur - 1
  BY <1>2, <1>3 DEF SafetyInv, OpenGroup, Seqs
<1>5. /\ Readable \subseteq SeqsOf(store) /\ SeqsOf(store) \subseteq Indexed
      /\ Indexed \subseteq Nat
  BY <1>1 DEF Readable, Indexed, SeqsOf
<1> QED BY <1>1, <1>3, <1>4, <1>5

(* Any step but a publisher's leaves the publisher alone and finds it up.  *)
LEMMA SubscriberSteps ==
  ASSUME CacheShape, ReplayNext, ~PublisherStep
  PROVE  UNCHANGED vars /\ phase # "down"
<1>1. CASE \E s \in Subscribers, request \in 0 .. MaxSeq \cup {Latest} : Subscribe(s, request)
  BY <1>1 DEF Subscribe, Accepting
<1>2. CASE \E s \in Subscribers : SubscriberStep(s) \/ Unsubscribe(s)
  <2>1. PICK s \in Subscribers : SubscriberStep(s) \/ Unsubscribe(s)
    BY <1>2
  <2>2. UNCHANGED vars /\ (sub[s] # Detached \/ sub[s].stage # "detached")
    BY <2>1 DEF SubscriberStep, Backfill, EndBackfill, TakeLive, AwaitLive, Unsubscribe
  <2>3. sub[s] # Detached
    BY <2>2 DEF Detached
  <2> QED BY <2>2, <2>3 DEF CacheShape
<1> QED BY <1>1, <1>2 DEF ReplayNext

(* What a publisher's step does to the cache.  The store grows by the      *)
(* finished group only, and the cache by the group that is opened.         *)
LEMMA PublisherMoves ==
  ASSUME SafetyInv, SafetyInv', CacheShape, Next, phase # "down", phase' # "down"
  PROVE  /\ \/ cur' = cur /\ ram' = ram
            \/ /\ phase = "rotate" /\ phase' = "store" /\ cur' = cur + 1
               /\ \E floor \in Nat : ram' = {x \in ram : x >= floor} \cup {cur + 1}
         /\ \/ SeqsOf(store') \subseteq SeqsOf(store) /\ Readable' \subseteq Readable
            \/ /\ phase = "store" /\ cur' = cur /\ ram' = ram
               /\ SeqsOf(store') = SeqsOf(store) \cup {cur - 1}
               /\ Readable' \subseteq Readable \cup {cur - 1}
         /\ phase' = "store" => phase = "rotate" /\ cur' = cur + 1 /\ store' = store
<1>1. CASE Persist
  BY <1>1 DEF Persist, memory, segments, SeqsOf, Readable
<1>2. CASE Write
  BY <1>2 DEF Write, disk, segments, SeqsOf, Readable
<1>3. CASE Rotate
  <2>1. PICK floor \in 0 .. cur' : ram' = {x \in ram : x >= floor} \cup {cur'}
    BY <1>3 DEF Rotate
  <2>2. floor \in Nat
    BY <2>1, Sequences DEF NoSeq
  <2> QED BY <1>3, <2>1, <2>2 DEF Rotate, disk, segments, SeqsOf, Readable
<1>4. CASE StoreFinished
  <2>1. /\ phase = "store" /\ phase' = "persist" /\ cur' = cur /\ ram' = ram
        /\ AppendToStore(cur - 1)
    BY <1>4 DEF StoreFinished
  <2>2. CASE store' = store
    BY <2>1, <2>2 DEF Readable
  <2>3. CASE store' = store \cup {Finished(cur - 1)}
    BY <2>1, <2>3 DEF SeqsOf, Readable, Finished
  <2> QED BY <2>1, <2>2, <2>3 DEF AppendToStore, AppendInPlace, AppendBehind, AppendFails
<1>5. ASSUME NEW g \in store \cup misplaced, Gc(g)
      PROVE /\ cur' = cur /\ ram' = ram /\ phase' # "store"
            /\ SeqsOf(store') \subseteq SeqsOf(store) /\ Readable' \subseteq Readable
  BY <1>5 DEF Gc, memory, SeqsOf, Readable
<1>6. ~ (\E m \in NoSeq .. MaxSeq : Boot(m)) /\ ~Finish /\ ~Crash
  BY DEF Boot, Finish, Crash, Reset
<1> QED BY <1>1, <1>2, <1>3, <1>4, <1>5, <1>6 DEF Next

(* The cache keeps its shape: a start reloads the newest stored groups,    *)
(* and a rotation evicts the oldest.                                       *)
LEMMA CacheKept ==
  ASSUME SafetyInv, SafetyInv', CacheShape, ReplayNext
  PROVE  CacheShape'
<1>1. CASE ~PublisherStep
  BY <1>1, SubscriberSteps DEF CacheShape, vars, memory, disk, segments, history, SeqsOf
<1>2. CASE PublisherStep /\ phase' = "down"
  <2>1. ram' = {} /\ sub' = [s \in Subscribers |-> Detached]
    <3>1. CASE Next /\ phase = "down"
      BY <1>2, <3>1 DEF PublisherStep, Next, Boot, Persist, Write, Rotate, StoreFinished,
                        Gc, Finish, Crash, Reset
    <3>2. CASE Next /\ phase # "down"
      BY <1>2, <3>2 DEF PublisherStep, Next, Boot, Persist, Write, Rotate, StoreFinished,
                        Gc, Finish, Crash, Reset
    <3> QED BY <1>2, <3>1, <3>2 DEF PublisherStep
  <2> QED BY <1>2, <2>1 DEF CacheShape
<1>3. CASE PublisherStep /\ phase = "down" /\ phase' # "down"
  <2>1. PICK m \in NoSeq .. MaxSeq : Boot(m)
    BY <1>3 DEF PublisherStep, Next, Persist, Write, Rotate, StoreFinished,
                Gc, Finish, Crash, Reset
  <2>2. PICK floor \in 0 .. cur' :
          ram' = {x \in SeqsOf(store') : x >= floor} \cup {cur'}
    BY <2>1 DEF Boot
  <2>3. /\ phase' = "persist" /\ SeqsOf(store') \subseteq Nat
        /\ cur' \in Nat /\ \A x \in SeqsOf(store') : x < cur'
    <3>1. phase' = "persist"
      BY <2>1 DEF Boot
    <3>2. \A g \in store' : g.seq < cur' /\ g.seq \in Nat
      BY <1>3, PublisherAssumption DEF SafetyInv, OpenGroup, TypeOK, Groups, Seqs
    <3>3. cur' \in Nat
      BY <1>3, PublisherAssumption DEF SafetyInv, OpenGroup, Seqs
    <3> QED BY <3>1, <3>2, <3>3 DEF SeqsOf
  <2>4. floor \in Nat
    BY <2>2, <2>3
  <2>5. cur' \in ram' /\ \A y \in ram' : y <= cur'
    BY <2>2, <2>3
  <2>6. \A x \in SeqsOf(store') \ ram' : \A y \in ram' : x < y
    BY <2>2, <2>3, <2>4
  <2> QED BY <1>3, <2>3, <2>5, <2>6 DEF CacheShape, SeqsOf
<1>4. CASE PublisherStep /\ phase # "down" /\ phase' # "down"
  <2>1. /\ \/ cur' = cur /\ ram' = ram
           \/ /\ phase = "rotate" /\ phase' = "store" /\ cur' = cur + 1
              /\ \E floor \in Nat : ram' = {x \in ram : x >= floor} \cup {cur + 1}
        /\ \/ SeqsOf(store') \subseteq SeqsOf(store)
           \/ /\ phase = "store" /\ cur' = cur /\ ram' = ram
              /\ SeqsOf(store') = SeqsOf(store) \cup {cur - 1}
        /\ phase' = "store" => phase = "rotate" /\ cur' = cur + 1 /\ store' = store
    BY <1>4, PublisherMoves DEF PublisherStep
  <2>2. /\ SeqsOf(store) \subseteq Nat /\ ram \subseteq Nat /\ cur \in Nat
        /\ \A x \in SeqsOf(store) : x < cur
        /\ cur \in ram /\ \A y \in ram : y <= cur
        /\ \A x \in SeqsOf(store) \ ram : \A y \in ram : x < y
        /\ phase = "store" => cur - 1 \in ram \/ \A y \in ram : cur - 1 < y
    BY <1>4, Sequences DEF CacheShape
  <2>3. CASE cur' = cur /\ ram' = ram
    <3>1. phase' # "store"
      BY <2>1, <2>2, <2>3
    <3>2. CASE SeqsOf(store') \subseteq SeqsOf(store)
      BY <1>4, <2>2, <2>3, <3>1, <3>2 DEF CacheShape, SeqsOf
    <3>3. CASE phase = "store" /\ SeqsOf(store') = SeqsOf(store) \cup {cur - 1}
      <4>1. \A x \in SeqsOf(store') \ ram' : \A y \in ram' : x < y
        BY <2>2, <2>3, <3>3
      <4> QED BY <1>4, <2>2, <2>3, <3>1, <4>1 DEF CacheShape, SeqsOf
    <3> QED BY <2>1, <3>2, <3>3
  <2>4. CASE phase' = "store" /\ cur' = cur + 1
    <3>1. PICK floor \in Nat : ram' = {x \in ram : x >= floor} \cup {cur + 1}
      BY <2>1, <2>2, <2>4
    <3>2. SeqsOf(store') = SeqsOf(store)
      BY <2>1, <2>4
    <3>3. cur' \in ram' /\ \A y \in ram' : y <= cur'
      BY <2>2, <2>4, <3>1
    <3>4. \A x \in SeqsOf(store') \ ram' : \A y \in ram' : x < y
      BY <2>2, <3>1, <3>2
    <3>5. cur' - 1 \in ram' \/ \A y \in ram' : cur' - 1 < y
      BY <2>2, <2>4, <3>1
    <3> QED BY <1>4, <3>3, <3>4, <3>5 DEF CacheShape, SeqsOf
  <2> QED BY <2>1, <2>3, <2>4
<1> QED BY <1>1, <1>2, <1>3, <1>4

(* The groups a live loop has yet to take: the lowest is one of them.      *)
LEMMA NextLive ==
  ASSUME SafetyInv, NEW s \in Subscribers, Untaken(s) # {}
  PROVE  /\ Lowest(Untaken(s)) \in ram /\ Lowest(Untaken(s)) \in Nat
         /\ sub[s].start <= Lowest(Untaken(s)) /\ sub[s].pos < Lowest(Untaken(s))
         /\ \A x \in Untaken(s) : Lowest(Untaken(s)) <= x
<1>1. ram \subseteq Nat
  BY Sequences
<1>2. Untaken(s) \in SUBSET Nat
  BY <1>1 DEF Untaken
<1>3. Lowest(Untaken(s)) \in Untaken(s) /\ \A x \in Untaken(s) : Lowest(Untaken(s)) <= x
  BY <1>2, LowestIs
<1>4. \A x \in Untaken(s) : x \in ram /\ x >= sub[s].start /\ x > sub[s].pos
  BY DEF Untaken
<1>5. Lowest(Untaken(s)) \in ram /\ Lowest(Untaken(s)) \in Nat
  BY <1>1, <1>3, <1>4
<1> DEFINE x == Lowest(Untaken(s))
<1>6. x >= sub[s].start /\ x > sub[s].pos
  BY <1>3, <1>4
<1>7. sub[s].start <= x /\ sub[s].pos < x
  BY <1>6
<1> QED BY <1>3, <1>5, <1>7

(* Where a backfill begins: at the request, or at the oldest of the index. *)
LEMMA FirstIs ==
  ASSUME SafetyInv, NEW start \in Nat
  PROVE  /\ FirstFromStore(start) \in Nat /\ start <= FirstFromStore(start)
         /\ \/ FirstFromStore(start) = start
            \/ FirstFromStore(start) \in Indexed
         /\ \A x \in Indexed : start <= x => FirstFromStore(start) <= x
<1>1. Indexed \in SUBSET Nat
  BY Sequences
<1>2. CASE Indexed = {}
  BY <1>2 DEF FirstFromStore
<1>3. CASE Indexed # {}
  <2>1. /\ Lowest(Indexed) \in Indexed
        /\ \A x \in Indexed : Lowest(Indexed) <= x
    BY <1>1, <1>3, LowestIs
  <2>2. FirstFromStore(start) = Higher(start, Lowest(Indexed))
    BY <1>3 DEF FirstFromStore
  <2>3. Lowest(Indexed) \in Nat
    BY <1>1, <2>1
  <2>4. CASE start > Lowest(Indexed)
    <3>1. FirstFromStore(start) = start
      BY <2>2, <2>4 DEF Higher
    <3> QED BY <3>1
  <2>5. CASE ~(start > Lowest(Indexed))
    <3>1. FirstFromStore(start) = Lowest(Indexed)
      BY <2>2, <2>5 DEF Higher
    <3> QED BY <2>1, <2>3, <2>5, <3>1
  <2> QED BY <2>4, <2>5
<1> QED BY <1>2, <1>3

(* Subscriptions keep their type.                                          *)
LEMMA TypesKept ==
  ASSUME SafetyInv, SubTyped, CacheShape, ReplayNext
  PROVE  SubTyped'
<1>1. Detached \in [stage : Stages, start : Nat, next : Nat,
                    pos : Nat \cup {NoSeq}, taken : Seq(Nat)]
  BY DEF Detached, Stages, NoSeq
<1>2. CASE PublisherStep
  BY <1>1, <1>2 DEF PublisherStep, SubTyped
<1>3. ASSUME NEW s \in Subscribers, NEW request \in 0 .. MaxSeq \cup {Latest},
             Subscribe(s, request)
      PROVE SubTyped'
  <2>1. phase # "down" /\ cur \in Nat
    BY <1>3, Sequences DEF Subscribe, Accepting
  <2>2. CASE request = Latest
    BY <1>1, <1>3, <2>1, <2>2 DEF Subscribe, SubTyped, Stages, Detached
  <2>3. CASE request # Latest
    <3>1. request \in Nat
      BY <1>3, <2>3
    <3>2. FirstFromStore(request) \in Nat
      BY <3>1, FirstIs
    <3> QED BY <1>1, <1>3, <2>3, <3>1, <3>2 DEF Subscribe, SubTyped, Stages, Detached
  <2> QED BY <2>2, <2>3
<1>4. ASSUME NEW s \in Subscribers, SubscriberStep(s)
      PROVE SubTyped'
  <2>1. CASE Backfill(s)
    <3>1. \A x \in SeqsOf(store) : x \in Nat
      BY Sequences
    <3>2. \A x \in Nat : Append(sub[s].taken, x) \in Seq(Nat)
      BY DEF SubTyped
    <3>0. PICK served \in {Readable, SeqsOf(store)} :
            sub' = [sub EXCEPT ![s].next = AfterBackfill(@),
                               ![s].taken = IF sub[s].next \in served
                                            THEN Append(@, sub[s].next) ELSE @]
      BY <2>1 DEF Backfill
    <3> DEFINE t == IF sub[s].next \in served
                    THEN Append(sub[s].taken, sub[s].next) ELSE sub[s].taken
    <3>3. t \in Seq(Nat) /\ sub[s].next + 1 \in Nat
      BY <3>1, <3>2 DEF SubTyped
    <3>4. sub' = [sub EXCEPT ![s].next = sub[s].next + 1, ![s].taken = t]
      BY <3>0 DEF AfterBackfill, SubTyped
    <3> HIDE DEF t
    <3> QED BY <3>3, <3>4 DEF SubTyped
  <2>2. CASE EndBackfill(s)
    BY <2>2 DEF EndBackfill, SubTyped, Stages
  <2>3. CASE TakeLive(s)
    <3>1. Lowest(Untaken(s)) \in Nat
      BY <2>3, NextLive DEF TakeLive
    <3> DEFINE x == Lowest(Untaken(s))
               t == Append(sub[s].taken, x)
    <3>2. t \in Seq(Nat)
      BY <3>1 DEF SubTyped
    <3>3. sub' = [sub EXCEPT ![s].stage = "live", ![s].pos = x, ![s].taken = t]
      BY <2>3 DEF TakeLive, SubTyped
    <3> HIDE DEF x, t
    <3>4. x \in Nat
      BY <3>1 DEF x
    <3> QED BY ZenonT(60), <3>2, <3>3, <3>4 DEF SubTyped, Stages
  <2>4. CASE AwaitLive(s)
    BY <2>4 DEF AwaitLive, SubTyped, Stages
  <2> QED BY <1>4, <2>1, <2>2, <2>3, <2>4 DEF SubscriberStep
<1>5. ASSUME NEW s \in Subscribers, Unsubscribe(s)
      PROVE SubTyped'
  BY <1>1, <1>5 DEF Unsubscribe, SubTyped
<1> QED BY <1>2, <1>3, <1>4, <1>5 DEF ReplayNext

(* A subscription that is not open has been served nothing.                *)
LEMMA DetachedOrdered ==
  ASSUME NEW s \in Subscribers, sub[s] = Detached
  PROVE  Ordered(s)
<1> QED BY DEF Ordered, Detached

(* The publisher's steps only raise the cache, so what was below it stays  *)
(* below.                                                                  *)
LEMMA PublisherOrdered ==
  ASSUME SafetyInv, SafetyInv', OrderInv, CacheShape', PublisherStep,
         NEW s \in Subscribers
  PROVE  Ordered(s)'
<1>1. CASE phase' = "down"
  <2>1. sub'[s] = Detached
    BY <1>1 DEF PublisherStep
  <2> QED BY <2>1 DEF Ordered, Detached
<1>2. CASE phase = "down" /\ phase' # "down"
  <2>1. sub'[s] = Detached
    BY <1>2 DEF PublisherStep, OrderInv, CacheShape
  <2> QED BY <2>1 DEF Ordered, Detached
<1>3. CASE phase # "down" /\ phase' # "down"
  <2>1. sub' = sub
    BY <1>3 DEF PublisherStep
  <2>2. \A y \in ram' : y \in ram \/ y = cur + 1
    BY <1>3, PublisherMoves DEF PublisherStep, OrderInv
  <2>3. cur \in Nat /\ cur \in ram
    BY <1>3, Sequences DEF OrderInv, CacheShape
  <2>4. \A i \in 1 .. Len(sub[s].taken) : sub[s].taken[i] \in Nat
    BY DEF OrderInv, SubTyped
  <2>5. ASSUME NEW i \in 1 .. Len(sub[s].taken)
        PROVE  sub[s].taken[i] <= sub[s].pos \/ \A y \in ram' : sub[s].taken[i] < y
    <3>1. sub[s].taken[i] <= sub[s].pos \/ \A y \in ram : sub[s].taken[i] < y
      BY DEF OrderInv, Ordered
    <3>2. CASE \A y \in ram : sub[s].taken[i] < y
      <4>1. sub[s].taken[i] \in Nat /\ sub[s].taken[i] < cur
        BY <2>3, <2>4, <3>2
      <4>2. ASSUME NEW y \in ram' PROVE sub[s].taken[i] < y
        <5>1. CASE y \in ram
          BY <3>2, <5>1
        <5>2. CASE y = cur + 1
          BY <2>3, <4>1, <5>2
        <5> QED BY <2>2, <5>1, <5>2
      <4> QED BY <4>2
    <3> QED BY <3>1, <3>2
  <2>6. Ordered(s)
    BY DEF OrderInv
  <2> QED BY <2>1, <2>5, <2>6 DEF Ordered
<1> QED BY <1>1, <1>2, <1>3

(* Serving one more group that lies above all that was served.             *)
LEMMA ServeNext ==
  ASSUME NEW taken \in Seq(Nat), NEW start \in Nat, NEW x \in Nat, start <= x,
         \A i \in 1 .. Len(taken) : start <= taken[i] /\ taken[i] < x,
         \A i, j \in 1 .. Len(taken) : i < j => taken[i] < taken[j]
  PROVE  LET t == Append(taken, x) IN
         /\ \A i \in 1 .. Len(t) : start <= t[i] /\ t[i] <= x
         /\ \A i, j \in 1 .. Len(t) : i < j => t[i] < t[j]
<1> DEFINE t == Append(taken, x)
<1>1. /\ Len(t) = Len(taken) + 1 /\ Len(taken) \in Nat /\ t[Len(taken) + 1] = x
      /\ \A i \in 1 .. Len(taken) : t[i] = taken[i] /\ taken[i] \in Nat
  OBVIOUS
<1> HIDE DEF t
<1>2. ASSUME NEW i \in 1 .. Len(t) PROVE start <= t[i] /\ t[i] <= x
  <2>1. CASE i = Len(taken) + 1
    BY <1>1, <2>1
  <2>2. CASE i # Len(taken) + 1
    <3>1. i \in 1 .. Len(taken)
      BY <1>1, <2>2
    <3> QED BY <1>1, <3>1
  <2> QED BY <2>1, <2>2
<1>3. ASSUME NEW i \in 1 .. Len(t), NEW j \in 1 .. Len(t), i < j PROVE t[i] < t[j]
  <2>1. i \in 1 .. Len(taken)
    BY <1>1, <1>3
  <2>2. CASE j = Len(taken) + 1
    BY <1>1, <2>1, <2>2
  <2>3. CASE j # Len(taken) + 1
    <3>1. j \in 1 .. Len(taken)
      BY <1>1, <2>3
    <3> QED BY <1>1, <1>3, <2>1, <3>1
  <2> QED BY <2>2, <2>3
<1> QED BY <1>2, <1>3 DEF t

(* The steps of a subscription itself.  A backfill serves what lies above  *)
(* all it served and below the cache; the live loop what lies above its    *)
(* place.                                                                  *)
LEMMA SubscriptionOrdered ==
  ASSUME SafetyInv, OrderInv, NEW s \in Subscribers, UNCHANGED vars, phase # "down",
         \/ \E request \in 0 .. MaxSeq \cup {Latest} : Subscribe(s, request)
         \/ SubscriberStep(s) \/ Unsubscribe(s)
  PROVE  Ordered(s)'
<1> DEFINE taken == sub[s].taken
<1>0. /\ taken \in Seq(Nat) /\ sub[s].start \in Nat /\ sub[s].next \in Nat
      /\ sub[s].pos \in Nat \cup {NoSeq} /\ ram' = ram /\ ram \subseteq Nat
      /\ s \in DOMAIN sub /\ DOMAIN sub[s] = {"stage", "start", "next", "pos", "taken"}
  BY Sequences DEF OrderInv, SubTyped, vars, memory
<1>00. /\ \A i \in 1 .. Len(taken) : sub[s].start <= taken[i] /\ taken[i] \in Nat
       /\ \A i, j \in 1 .. Len(taken) : i < j => taken[i] < taken[j]
       /\ \A i \in 1 .. Len(taken) :
            taken[i] <= sub[s].pos \/ \A y \in ram : taken[i] < y
       /\ sub[s].stage # "live" => sub[s].pos = NoSeq
       /\ sub[s].stage = "backfill" =>
            /\ sub[s].start <= sub[s].next
            /\ \A i \in 1 .. Len(taken) : taken[i] < sub[s].next
  BY SMTT(40), <1>0 DEF OrderInv, Ordered
<1>1. ASSUME NEW request \in 0 .. MaxSeq \cup {Latest}, Subscribe(s, request)
      PROVE  Ordered(s)'
  <2>1. CASE request = Latest
    <3>1. sub'[s] = [Detached EXCEPT !.stage = "live", !.start = cur, !.next = cur]
      BY <1>0, <1>1, <2>1 DEF Subscribe
    <3> QED BY <3>1 DEF Ordered, Detached
  <2>2. CASE request # Latest
    <3>1. request \in Nat
      BY <1>1, <2>2
    <3>2. sub'[s] = [Detached EXCEPT !.stage = "backfill", !.start = request,
                                     !.next = FirstFromStore(request)]
      BY <1>0, <1>1, <2>2 DEF Subscribe
    <3>3. request <= FirstFromStore(request)
      BY <3>1, FirstIs
    <3> QED BY <3>2, <3>3 DEF Ordered, Detached
  <2> QED BY <2>1, <2>2
<1>2. CASE Backfill(s)
  <2> DEFINE next == sub[s].next
  <2>0. PICK served \in {Readable, SeqsOf(store)} :
          sub' = [sub EXCEPT ![s].next = AfterBackfill(@),
                             ![s].taken = IF sub[s].next \in served
                                          THEN Append(@, sub[s].next) ELSE @]
    BY <1>2 DEF Backfill
  <2>1. /\ sub'[s].start = sub[s].start /\ sub'[s].pos = sub[s].pos
        /\ sub'[s].stage = "backfill" /\ sub'[s].next = next + 1
        /\ sub[s].stage = "backfill"
        /\ sub'[s].taken = IF next \in served THEN Append(taken, next) ELSE taken
    BY <1>0, <1>2, <2>0 DEF Backfill, AfterBackfill
  <2>2. \A y \in ram : next < y
    <3>1. ram # {} /\ ram \in SUBSET Nat
      BY <1>0 DEF OrderInv, CacheShape
    <3>2. Lowest(ram) \in Nat /\ \A y \in ram : Lowest(ram) <= y
      BY <1>0, <3>1, LowestIs
    <3>3. next < Lowest(ram)
      BY <1>2 DEF Backfill, BelowCache
    <3> QED BY <1>0, <3>2, <3>3
  <2>3. CASE next \in served
    <3>1. sub'[s].taken = Append(taken, next)
      BY <2>1, <2>3
    <3>2. /\ \A i \in 1 .. Len(sub'[s].taken) :
               /\ sub[s].start <= sub'[s].taken[i] /\ sub'[s].taken[i] <= next
               /\ sub'[s].taken[i] \in Nat
          /\ \A i, j \in 1 .. Len(sub'[s].taken) : i < j => sub'[s].taken[i] < sub'[s].taken[j]
      <4>1. \A i \in 1 .. Len(Append(taken, next)) : Append(taken, next)[i] \in Nat
        BY <1>0
      <4>2. /\ next \in Nat /\ sub[s].start <= next
            /\ \A i \in 1 .. Len(taken) : sub[s].start <= taken[i] /\ taken[i] < next
            /\ \A i, j \in 1 .. Len(taken) : i < j => taken[i] < taken[j]
        BY <1>0, <1>00, <2>1
      <4>3. LET t == Append(taken, next) IN
            /\ \A i \in 1 .. Len(t) : sub[s].start <= t[i] /\ t[i] <= next
            /\ \A i, j \in 1 .. Len(t) : i < j => t[i] < t[j]
        BY <1>0, <4>2, ServeNext, Zenon
      <4>4. sub'[s].taken = Append(taken, next)
        BY <3>1
      <4> HIDE DEF taken, next
      <4> QED BY <4>1, <4>3, <4>4, Zenon
    <3>3. \A i \in 1 .. Len(sub'[s].taken) :
            sub'[s].taken[i] < next + 1 /\ \A y \in ram : sub'[s].taken[i] < y
      <4>1. \A v \in Nat : v <= next => v < next + 1 /\ \A y \in ram : v < y
        BY <1>0, <2>2
      <4> QED BY <3>2, <4>1, Zenon
    <3>4. sub'[s].stage # "live" => sub'[s].pos = NoSeq
      BY <1>00, <2>1
    <3>5. sub'[s].start <= sub'[s].next
      BY <1>0, <1>00, <2>1
    <3>6. \A i \in 1 .. Len(sub'[s].taken) : sub'[s].taken[i] < sub'[s].next
      BY <2>1, <3>3
    <3>7. \A i \in 1 .. Len(sub'[s].taken) : sub'[s].start <= sub'[s].taken[i]
      BY <2>1, <3>2
    <3>8. \A i \in 1 .. Len(sub'[s].taken) : \A y \in ram' : sub'[s].taken[i] < y
      BY <1>0, <3>3
    <3> QED BY <3>2, <3>4, <3>5, <3>6, <3>7, <3>8, Zenon DEF Ordered
  <2>4. CASE next \notin served
    <3>1. sub'[s].taken = taken
      BY <2>1, <2>4
    <3>2. sub[s].start <= next + 1 /\ \A i \in 1 .. Len(taken) : taken[i] < next + 1
      BY <1>0, <1>00, <2>1
    <3> QED BY <1>0, <1>00, <2>1, <3>1, <3>2 DEF Ordered
  <2> QED BY <2>3, <2>4
<1>3. CASE EndBackfill(s)
  <2>1. sub'[s] = [sub[s] EXCEPT !.stage = "handoff"] /\ sub[s].stage = "backfill"
    BY <1>0, <1>3 DEF EndBackfill
  <2> QED BY <1>0, <1>00, <2>1 DEF Ordered
<1>4. CASE TakeLive(s)
  <2> DEFINE x == Lowest(Untaken(s))
  <2>1. /\ sub'[s].start = sub[s].start /\ sub'[s].pos = x /\ sub'[s].stage = "live"
        /\ sub'[s].taken = Append(taken, x)
    BY <1>0, <1>4 DEF TakeLive
  <2>2. x \in ram /\ x \in Nat /\ sub[s].start <= x /\ sub[s].pos < x
    BY <1>4, NextLive DEF TakeLive
  <2> HIDE DEF x
  <2>3. \A i \in 1 .. Len(taken) : sub[s].start <= taken[i] /\ taken[i] < x
    BY <1>0, <1>00, <2>2 DEF NoSeq
  <2>4. /\ \A i \in 1 .. Len(sub'[s].taken) :
             sub[s].start <= sub'[s].taken[i] /\ sub'[s].taken[i] <= x
        /\ \A i, j \in 1 .. Len(sub'[s].taken) : i < j => sub'[s].taken[i] < sub'[s].taken[j]
    BY <1>0, <1>00, <2>1, <2>2, <2>3, ServeNext
  <2> QED BY <2>1, <2>4 DEF Ordered
<1>5. CASE AwaitLive(s)
  <2>1. sub'[s] = [sub[s] EXCEPT !.stage = "live"]
    BY <1>0, <1>5 DEF AwaitLive
  <2> QED BY <1>0, <1>00, <2>1 DEF Ordered
<1>6. CASE Unsubscribe(s)
  <2>1. sub'[s] = Detached
    BY <1>0, <1>6 DEF Unsubscribe
  <2> QED BY <2>1 DEF Ordered, Detached
<1> QED BY <1>1, <1>2, <1>3, <1>4, <1>5, <1>6 DEF SubscriberStep

(* Every step keeps the order of every subscriber.                         *)
LEMMA OrderKept ==
  ASSUME SafetyInv, SafetyInv', OrderInv, ReplayNext
  PROVE  OrderInv'
<1>1. SubTyped' /\ CacheShape'
  BY TypesKept, CacheKept DEF OrderInv
<1>2. ASSUME NEW s \in Subscribers PROVE Ordered(s)'
  <2>1. CASE PublisherStep
    BY <1>1, <2>1, PublisherOrdered
  <2>2. CASE ~PublisherStep
    <3>1. UNCHANGED vars /\ phase # "down" /\ ram' = ram
      BY <2>2, SubscriberSteps DEF OrderInv, vars, memory
    <3>2. PICK t \in Subscribers :
            \/ \E request \in 0 .. MaxSeq \cup {Latest} : Subscribe(t, request)
            \/ SubscriberStep(t) \/ Unsubscribe(t)
      BY <2>2 DEF ReplayNext
    <3>3. CASE s = t
      BY <3>1, <3>2, <3>3, SubscriptionOrdered
    <3>4. CASE s # t
      <4>1. sub'[s] = sub[s]
        BY <3>2, <3>4 DEF Subscribe, SubscriberStep, Backfill, EndBackfill, TakeLive,
                          AwaitLive, Unsubscribe, OrderInv, SubTyped
      <4>2. Ordered(s)
        BY DEF OrderInv
      <4> QED BY <3>1, <4>1, <4>2 DEF Ordered
    <3> QED BY <3>3, <3>4
  <2> QED BY <2>1, <2>2
<1> QED BY <1>1, <1>2 DEF OrderInv

(* At the start nobody is subscribed and nothing is cached.                *)
LEMMA OrderInit == ReplayInit => OrderInv
<1> SUFFICES ASSUME ReplayInit PROVE OrderInv
  OBVIOUS
<1>1. /\ sub = [s \in Subscribers |-> Detached]
      /\ phase = "down" /\ ram = {}
  BY DEF ReplayInit, Init
<1>2. SubTyped
  BY <1>1 DEF SubTyped, Detached, Stages, NoSeq
<1>3. CacheShape
  BY <1>1 DEF CacheShape
<1> QED BY <1>1, <1>2, <1>3, DetachedOrdered DEF OrderInv

(* Replay and live delivery together serve every group at most once, the   *)
(* oldest first and none from before the request, whatever the publisher   *)
(* evicts, drops or fails to store meanwhile.                              *)
THEOREM ServedInOrder == ReplaySpec => []ServedOnceInOrder
<1>1. SafetyInv /\ SafetyInv' /\ OrderInv /\ [ReplayNext]_replayVars => OrderInv'
  <2> SUFFICES ASSUME SafetyInv, SafetyInv', OrderInv, [ReplayNext]_replayVars
               PROVE  OrderInv'
    OBVIOUS
  <2>1. CASE ReplayNext
    BY <2>1, OrderKept
  <2>2. CASE UNCHANGED replayVars
    BY <2>2 DEF replayVars, vars, memory, disk, segments, history, OrderInv, SubTyped,
                CacheShape, Ordered, SeqsOf
  <2> QED BY <2>1, <2>2
<1>2. OrderInv => ServedOnceInOrder
  BY DEF OrderInv, Ordered, ServedOnceInOrder, SubTyped
<1> QED BY <1>1, <1>2, OrderInit, PublisherUndisturbed, SafetyInvariant, PTL DEF ReplaySpec

-----------------------------------------------------------------------------
(* The finished group stays in the cache until it is appended.             *)
LEMMA FinishedCached ==
  ASSUME Races = {}, SafetyInv, SafetyInv', GapInv, ReplayNext
  PROVE  phase' = "store" => cur' - 1 \in ram'
<1> SUFFICES ASSUME phase' = "store" PROVE cur' - 1 \in ram'
  OBVIOUS
<1>1. CASE ~PublisherStep
  BY <1>1, SubscriberSteps DEF GapInv, OrderInv, vars, memory
<1>2. CASE PublisherStep
  <2>1. phase # "down"
    BY <1>2 DEF PublisherStep, Next, Boot, Persist, Write, Rotate, StoreFinished,
                Gc, Finish, Crash, Reset
  <2>2. phase = "rotate" /\ cur' = cur + 1
    BY <1>2, <2>1, PublisherMoves DEF PublisherStep, GapInv, OrderInv
  <2>3. cur \in ram'
    BY <1>2, <2>2 DEF PublisherStep, Prompt
  <2>4. cur \in Nat
    BY <2>1, Sequences
  <2> QED BY <2>2, <2>3, <2>4
<1> QED BY <1>1, <1>2

(* A publisher's step takes nothing from a subscriber: a group that leaves *)
(* the cache is in the store and ahead of every backfill, or was taken.    *)
LEMMA PublisherComplete ==
  ASSUME Races = {}, SafetyInv, SafetyInv', GapInv, PublisherStep,
         NEW s \in Subscribers
  PROVE  Complete(s)'
<1>1. CASE sub'[s] = Detached
  BY <1>1 DEF Complete, Detached
<1>2. CASE phase' = "down"
  BY <1>1, <1>2 DEF PublisherStep
<1>3. CASE phase = "down" /\ phase' # "down"
  BY <1>1, <1>3 DEF PublisherStep, GapInv, OrderInv, CacheShape
<1>4. CASE phase # "down" /\ phase' # "down"
  <2>1. /\ \/ cur' = cur /\ ram' = ram
           \/ /\ phase = "rotate" /\ phase' = "store" /\ cur' = cur + 1
              /\ \E floor \in Nat : ram' = {x \in ram : x >= floor} \cup {cur + 1}
        /\ \/ SeqsOf(store') \subseteq SeqsOf(store) /\ Readable' \subseteq Readable
           \/ /\ phase = "store" /\ cur' = cur /\ ram' = ram
              /\ SeqsOf(store') = SeqsOf(store) \cup {cur - 1}
              /\ Readable' \subseteq Readable \cup {cur - 1}
        /\ phase' = "store" => phase = "rotate" /\ cur' = cur + 1 /\ store' = store
    BY <1>4, PublisherMoves DEF PublisherStep, GapInv, OrderInv
  <2>2. /\ SeqsOf(store) \subseteq Nat /\ ram \subseteq Nat /\ cur \in Nat
        /\ Readable \subseteq SeqsOf(store)
        /\ sub[s].start \in Nat /\ sub[s].next \in Nat /\ sub[s].pos \in Nat \cup {NoSeq}
        /\ sub[s].stage # "live" => sub[s].pos = NoSeq
    BY <1>4, Sequences DEF GapInv, OrderInv, SubTyped, Ordered
  <2>3. sub' = sub /\ Taken(s)' = Taken(s)
    BY <1>4 DEF PublisherStep, Taken
  <2>4. Complete(s)
    BY DEF GapInv
  <2>5. CASE /\ cur' = cur /\ ram' = ram
             /\ SeqsOf(store') \subseteq SeqsOf(store) /\ Readable' \subseteq Readable
    <3>1. \A x \in ram : Storable(x)' => Storable(x)
      <4>1. phase' # "store" /\ SeqsOf(store)' \subseteq SeqsOf(store)
        <5>1. cur # cur + 1
          BY <2>2
        <5>2. SeqsOf(store)' = SeqsOf(store')
          BY DEF SeqsOf
        <5> QED BY <2>1, <2>5, <5>1, <5>2
      <4>2. Top' = cur /\ Top \in Int /\ Top <= cur
        BY <2>2, <2>5, <4>1 DEF Top
      <4>3. \A x \in ram : x >= cur => x >= Top
        BY <2>2, <4>2
      <4>4. ASSUME NEW x \in ram, Storable(x)' PROVE Storable(x)
        <5>1. x \in SeqsOf(store)' \/ x >= cur
          BY <4>2, <4>4 DEF Storable
        <5> QED BY <4>1, <4>3, <5>1 DEF Storable
      <4> QED BY <4>4
    <3>2. Behind(s) => Behind(s)'
      BY <2>3, <2>5, <3>1 DEF Behind
    <3>3. LeftToCache(s) => LeftToCache(s)'
      BY <2>3, <2>5 DEF LeftToCache
    <3>4. Ahead(s) => Ahead(s)'
      BY <2>3, <2>5 DEF Ahead
    <3> QED BY <2>3, <2>4, <3>2, <3>3, <3>4 DEF Complete
  <2>6. CASE /\ phase = "store" /\ cur' = cur /\ ram' = ram
             /\ SeqsOf(store') = SeqsOf(store) \cup {cur - 1}
             /\ Readable' \subseteq Readable \cup {cur - 1}
    <3>1. cur - 1 \in ram /\ phase' # "store"
      BY <2>1, <2>2, <2>6 DEF GapInv
    <3>2. \A x \in ram : Storable(x)' => Storable(x)
      BY <2>2, <2>6, <3>1 DEF Storable, Top, SeqsOf
    <3>3. /\ Readable' \ ram' \subseteq Readable \ ram
          /\ Readable' \cup ram' \subseteq Readable \cup ram
      BY <2>6, <3>1
    <3>4. Behind(s) => Behind(s)'
      BY <2>3, <2>6, <3>2, <3>3 DEF Behind
    <3>5. LeftToCache(s) => LeftToCache(s)'
      BY <2>3, <3>3 DEF LeftToCache
    <3>6. Ahead(s) => Ahead(s)'
      BY <2>3, <2>6, <3>3 DEF Ahead
    <3> QED BY <2>3, <2>4, <3>4, <3>5, <3>6 DEF Complete
  <2>7. CASE phase' = "store" /\ cur' = cur + 1
    <3>1. PICK floor \in Nat : ram' = {x \in ram : x >= floor} \cup {cur + 1}
      BY <2>1, <2>2, <2>7
    <3>2. phase = "rotate" /\ SeqsOf(store') = SeqsOf(store) /\ Readable' = Readable
      BY <2>1, <2>7 DEF Readable
    <3>3. \A x : Storable(x)' <=> Storable(x)
      <4>1. Top' = Top /\ SeqsOf(store)' = SeqsOf(store)
        <5>1. cur' - 1 = cur
          BY <2>2, <2>7
        <5>2. Top' = cur /\ Top = cur
          BY <2>7, <3>2, <5>1 DEF Top
        <5>3. SeqsOf(store)' = SeqsOf(store)
          BY <3>2 DEF SeqsOf
        <5> QED BY <5>2, <5>3
      <4>2. \A x : Storable(x)' <=> x \in SeqsOf(store)' \/ x >= Top'
        BY DEF Storable
      <4>3. \A x : Storable(x) <=> x \in SeqsOf(store) \/ x >= Top
        BY DEF Storable
      <4> QED BY <4>1, <4>2, <4>3, Zenon
    <3>4. sub[s].stage \in {"live", "handoff"} => Untaken(s) \subseteq ram'
      BY <1>4 DEF PublisherStep, Prompt
    <3>5. Behind(s) => Behind(s)'
      <4> SUFFICES ASSUME Behind(s) PROVE Behind(s)'
        OBVIOUS
      <4>1. sub[s].next <= sub[s].start \/ sub[s].next <= cur
        BY DEF Behind
      <4>2. \A x \in ram' : sub[s].start <= x /\ Storable(x) => sub[s].next <= x
        BY <2>2, <3>1, <4>1 DEF Behind
      <4>3. ASSUME NEW x \in Readable \ ram', sub[s].start <= x, x < sub[s].next
            PROVE  x \in Taken(s)
        <5>1. CASE x \in ram
          BY <2>2, <4>3, <5>1 DEF Behind, Storable
        <5>2. CASE x \notin ram
          BY <4>3, <5>2 DEF Behind
        <5> QED BY <5>1, <5>2
      <4>4. sub[s].next <= sub[s].start \/ sub[s].next <= cur'
        BY <2>2, <2>7, <4>1
      <4> QED BY <2>3, <3>2, <3>3, <4>2, <4>3, <4>4 DEF Behind
    <3>6. sub[s].stage = "handoff" /\ LeftToCache(s) => LeftToCache(s)'
      <4> SUFFICES ASSUME sub[s].stage = "handoff", LeftToCache(s),
                          NEW x \in Readable \ ram', sub[s].start <= x
                   PROVE  x < sub[s].next
        BY <2>3, <3>2 DEF LeftToCache
      <4>1. x \notin ram
        BY <2>2, <3>4 DEF Untaken, NoSeq
      <4> QED BY <4>1 DEF LeftToCache
    <3>7. sub[s].stage = "live" /\ Ahead(s) => Ahead(s)'
      <4> SUFFICES ASSUME sub[s].stage = "live", Ahead(s) PROVE Ahead(s)'
        OBVIOUS
      <4>1. sub[s].pos <= cur /\ sub[s].pos <= cur'
        BY <2>2, <2>7 DEF Ahead, NoSeq
      <4>2. ASSUME NEW x \in Readable \cup ram', sub[s].start <= x
            PROVE  x \in Taken(s) \/ (x \in ram' /\ sub[s].pos < x)
        <5>1. CASE x = cur + 1
          BY <2>2, <3>1, <4>1, <5>1 DEF NoSeq
        <5>2. CASE x # cur + 1
          <6>1. x \in Readable \cup ram
            BY <3>1, <4>2, <5>2
          <6>2. x \in Taken(s) \/ (x \in ram /\ sub[s].pos < x)
            BY <4>2, <6>1 DEF Ahead
          <6> QED BY <2>2, <3>4, <4>2, <6>2 DEF Untaken, NoSeq
        <5> QED BY <5>1, <5>2
      <4> QED BY <2>3, <3>2, <4>1, <4>2 DEF Ahead
    <3> QED BY <2>3, <2>4, <3>5, <3>6, <3>7 DEF Complete
  <2> QED BY <2>1, <2>5, <2>6, <2>7
<1> QED BY <1>2, <1>3, <1>4

(* Serving a group adds it to what was taken and removes nothing.          *)
LEMMA TakenGrows ==
  ASSUME SubTyped, NEW s \in Subscribers, NEW x,
         sub'[s].taken = Append(sub[s].taken, x)
  PROVE  Taken(s)' = Taken(s) \cup {x}
<1> DEFINE t == sub[s].taken
<1>1. t \in Seq(Nat)
  BY DEF SubTyped
<1>2. /\ Len(Append(t, x)) = Len(t) + 1 /\ Len(t) \in Nat
      /\ Append(t, x)[Len(t) + 1] = x
      /\ \A i \in 1 .. Len(t) : Append(t, x)[i] = t[i]
  BY <1>1
<1>3. ASSUME NEW y \in Taken(s) \cup {x}
      PROVE  \E i \in 1 .. Len(t) + 1 : Append(t, x)[i] = y
  <2>1. CASE y = x
    BY <1>2, <2>1
  <2>2. CASE y # x
    <3>1. PICK i \in 1 .. Len(t) : t[i] = y
      BY <1>3, <2>2 DEF Taken
    <3> QED BY <1>2, <3>1
  <2> QED BY <2>1, <2>2
<1>4. ASSUME NEW i \in 1 .. Len(t) + 1
      PROVE  Append(t, x)[i] \in Taken(s) \cup {x}
  <2>1. CASE i = Len(t) + 1
    BY <1>2, <2>1
  <2>2. CASE i # Len(t) + 1
    <3>1. i \in 1 .. Len(t)
      BY <1>2, <2>2
    <3> QED BY <1>2, <3>1 DEF Taken
  <2> QED BY <2>1, <2>2
<1>5. Taken(s)' = {Append(t, x)[i] : i \in 1 .. Len(t) + 1}
  BY <1>2 DEF Taken
<1> QED BY <1>3, <1>4, <1>5

(* The steps of a subscription itself: a backfill passes no group it did   *)
(* not serve, the hand-off leaves only the cache, and the live loop takes  *)
(* the lowest group it has yet to take.                                    *)
LEMMA SubscriptionComplete ==
  ASSUME SafetyInv, GapInv, NEW s \in Subscribers, UNCHANGED vars, phase # "down",
         \/ \E request \in 0 .. MaxSeq \cup {Latest} : Subscribe(s, request)
         \/ SubscriberStep(s) \/ Unsubscribe(s)
  PROVE  Complete(s)'
<1>0. /\ sub[s].start \in Nat /\ sub[s].next \in Nat /\ sub[s].pos \in Nat \cup {NoSeq}
      /\ sub[s].stage # "live" => sub[s].pos = NoSeq
      /\ s \in DOMAIN sub /\ DOMAIN sub[s] = {"stage", "start", "next", "pos", "taken"}
      /\ SubTyped
  BY DEF GapInv, OrderInv, SubTyped, Ordered
<1>00. /\ cur' = cur /\ ram' = ram /\ SeqsOf(store') = SeqsOf(store) /\ phase' = phase
       /\ Readable' = Readable /\ Readable \subseteq SeqsOf(store)
       /\ Indexed \subseteq Nat /\ SeqsOf(store) \subseteq Indexed
       /\ \A x \in Indexed : x < cur /\ x < Top
       /\ SeqsOf(store) \subseteq Nat /\ ram \in SUBSET Nat /\ cur \in Nat
       /\ \A x \in SeqsOf(store) : x < cur /\ x < Top
       /\ cur \in ram /\ \A y \in ram : y <= cur
       /\ \A x \in SeqsOf(store) \ ram : \A y \in ram : x < y
       /\ Top \in Nat /\ \A x \in Nat : Storable(x)' <=> Storable(x)
  BY Sequences DEF GapInv, OrderInv, CacheShape, vars, memory, disk, segments, Top, Storable,
                   SeqsOf, Readable
<1>000. Complete(s)
  BY DEF GapInv
<1>1. ASSUME NEW request \in 0 .. MaxSeq \cup {Latest}, Subscribe(s, request)
      PROVE  Complete(s)'
  <2>1. CASE request = Latest
    <3>1. sub'[s] = [Detached EXCEPT !.stage = "live", !.start = cur, !.next = cur]
      BY <1>0, <1>1, <2>1 DEF Subscribe
    <3>2. Ahead(s)'
      BY <1>00, <3>1 DEF Ahead, Detached, NoSeq
    <3> QED BY <3>1, <3>2 DEF Complete, Detached
  <2>2. CASE request # Latest
    <3> DEFINE first == FirstFromStore(request)
    <3>1. request \in Nat
      BY <1>1, <2>2
    <3>2. sub'[s] = [Detached EXCEPT !.stage = "backfill", !.start = request, !.next = first]
      BY <1>0, <1>1, <2>2 DEF Subscribe
    <3>3. /\ first \in Nat /\ request <= first
          /\ first = request \/ first \in Indexed
          /\ \A x \in Indexed : request <= x => first <= x
      BY <3>1, FirstIs
    <3> HIDE DEF first
    <3>4. \A x \in ram : request <= x /\ Storable(x) => first <= x
      BY <1>00, <3>1, <3>3 DEF Storable
    <3>5. first <= request \/ first <= cur
      BY <1>00, <3>1, <3>3
    <3>6. \A x \in SeqsOf(store) : request <= x => ~(x < first)
      BY <1>00, <3>3
    <3>7. Behind(s)'
      BY <1>00, <3>2, <3>4, <3>5, <3>6 DEF Behind, Detached
    <3> QED BY <3>2, <3>7 DEF Complete, Detached
  <2> QED BY <2>1, <2>2
<1>2. CASE Backfill(s)
  <2> DEFINE next == sub[s].next
  <2>0. PICK served \in {Readable, SeqsOf(store)} :
          sub' = [sub EXCEPT ![s].next = AfterBackfill(@),
                             ![s].taken = IF sub[s].next \in served
                                          THEN Append(@, sub[s].next) ELSE @]
    BY <1>2 DEF Backfill
  <2>1. /\ sub'[s].start = sub[s].start /\ sub'[s].stage = "backfill"
        /\ sub'[s].next = next + 1 /\ Behind(s) /\ Readable \subseteq served
        /\ sub'[s].taken = IF next \in served THEN Append(sub[s].taken, next)
                           ELSE sub[s].taken
    BY <1>0, <1>00, <1>000, <1>2, <2>0 DEF Backfill, AfterBackfill, Complete
  <2>2. \A y \in ram : next < y
    <3>1. Lowest(ram) \in Nat /\ \A y \in ram : Lowest(ram) <= y
      BY <1>00, LowestIs
    <3>2. next < Lowest(ram)
      BY <1>2 DEF Backfill, BelowCache
    <3> QED BY <1>0, <1>00, <3>1, <3>2
  <2>3. Taken(s) \subseteq Taken(s)' /\ (next \in Readable => next \in Taken(s)')
    <3>1. CASE next \in served
      <4>1. sub'[s].taken = Append(sub[s].taken, next)
        BY <2>1, <3>1
      <4>2. Taken(s)' = Taken(s) \cup {next}
        BY <1>0, <4>1, TakenGrows
      <4> QED BY <4>2
    <3>2. CASE next \notin served
      BY <2>1, <3>2 DEF Taken
    <3> QED BY <3>1, <3>2
  <2>4. \A x \in ram : next + 1 <= x
    BY <1>0, <1>00, <2>2
  <2>5. ASSUME NEW x \in Readable \ ram, sub[s].start <= x, x < next + 1
        PROVE  x \in Taken(s)'
    <3>1. CASE x = next
      BY <2>3, <3>1
    <3>2. CASE x # next
      BY <1>0, <1>00, <2>1, <2>3, <2>5, <3>2 DEF Behind
    <3> QED BY <3>1, <3>2
  <2>6. Behind(s)'
    BY <1>0, <1>00, <2>1, <2>4, <2>5 DEF Behind
  <2> QED BY <2>1, <2>6 DEF Complete
<1>3. CASE EndBackfill(s)
  <2>1. /\ sub'[s] = [sub[s] EXCEPT !.stage = "handoff"] /\ sub[s].stage = "backfill"
        /\ ~(sub[s].next < Lowest(ram))
    BY <1>0, <1>3 DEF EndBackfill, BelowCache
  <2>2. Lowest(ram) \in ram
    BY <1>00, LowestIs
  <2>3. \A x \in SeqsOf(store) \ ram : x < sub[s].next
    BY <1>0, <1>00, <2>1, <2>2
  <2>4. sub'[s].stage = "handoff" /\ Taken(s)' = Taken(s)
        /\ sub'[s].start = sub[s].start /\ sub'[s].next = sub[s].next
    BY <1>0, <2>1 DEF Taken
  <2>5. LeftToCache(s)'
    BY <1>00, <2>3, <2>4 DEF LeftToCache
  <2>6. Behind(s)'
    BY <1>00, <1>000, <2>1, <2>4 DEF Behind, Complete
  <2> QED BY <2>4, <2>5, <2>6 DEF Complete
<1>4. CASE TakeLive(s)
  <2> DEFINE v == Lowest(Untaken(s))
  <2>1. /\ sub'[s].start = sub[s].start /\ sub'[s].pos = v /\ sub'[s].stage = "live"
        /\ sub'[s].taken = Append(sub[s].taken, v) /\ sub[s].stage \in {"handoff", "live"}
    BY <1>0, <1>4 DEF TakeLive
  <2>2. /\ v \in ram /\ v \in Nat /\ \A x \in Untaken(s) : v <= x
    BY <1>4, NextLive DEF TakeLive
  <2>3. Taken(s)' = Taken(s) \cup {v}
    BY <1>0, <2>1, TakenGrows
  <2> HIDE DEF v
  <2>4. ASSUME NEW x \in Readable \cup ram, sub[s].start <= x
        PROVE  x \in Taken(s)' \/ (x \in ram /\ v < x)
    <3>1. x \in Taken(s) \/ x \in Untaken(s)
      <4>1. CASE sub[s].stage = "live"
        BY <1>0, <1>00, <1>000, <2>4, <4>1 DEF Complete, Ahead, Untaken, NoSeq
      <4>2. CASE sub[s].stage = "handoff" /\ x \in ram
        <5>1. sub[s].pos = NoSeq /\ x \in Nat
          BY <1>0, <1>00, <4>2
        <5>2. x >= sub[s].start /\ x > sub[s].pos
          BY <1>0, <2>4, <5>1 DEF NoSeq
        <5> QED BY <4>2, <5>2 DEF Untaken
      <4>3. CASE sub[s].stage = "handoff" /\ x \notin ram
        BY <1>000, <2>4, <4>3 DEF Complete, LeftToCache, Behind
      <4> QED BY <2>1, <4>1, <4>2, <4>3
    <3>2. x \in Untaken(s) => x \in ram /\ x \in Nat
      BY <1>00 DEF Untaken
    <3> QED BY <2>2, <2>3, <3>1, <3>2
  <2>5. Ahead(s)'
    BY <1>00, <2>1, <2>2, <2>4 DEF Ahead
  <2> QED BY <2>1, <2>5 DEF Complete
<1>5. CASE AwaitLive(s)
  <2>1. /\ sub'[s] = [sub[s] EXCEPT !.stage = "live"] /\ sub[s].stage = "handoff"
        /\ Untaken(s) = {} /\ sub[s].pos = NoSeq
    BY <1>0, <1>5 DEF AwaitLive
  <2>2. /\ sub'[s].start = sub[s].start /\ sub'[s].pos = NoSeq /\ sub'[s].stage = "live"
        /\ Taken(s)' = Taken(s)
    BY <1>0, <2>1 DEF Taken
  <2>3. ASSUME NEW x \in Readable \cup ram, sub[s].start <= x
        PROVE  x \in Taken(s)
    <3>1. x \notin ram
      BY <1>0, <1>00, <2>1, <2>3 DEF Untaken, NoSeq
    <3> QED BY <1>000, <2>1, <2>3, <3>1 DEF Complete, LeftToCache, Behind
  <2>4. Ahead(s)'
    BY <1>00, <2>2, <2>3 DEF Ahead, NoSeq
  <2> QED BY <2>2, <2>4 DEF Complete
<1>6. CASE Unsubscribe(s)
  <2>1. sub'[s] = Detached
    BY <1>0, <1>6 DEF Unsubscribe
  <2> QED BY <2>1 DEF Complete, Detached
<1> QED BY <1>1, <1>2, <1>3, <1>4, <1>5, <1>6 DEF SubscriberStep

(* Every step keeps every subscriber complete.                             *)
LEMMA GapInvKept ==
  ASSUME Races = {}, SafetyInv, SafetyInv', GapInv, ReplayNext
  PROVE  GapInv'
<1>1. OrderInv' /\ (phase' = "store" => cur' - 1 \in ram')
  BY OrderKept, FinishedCached DEF GapInv
<1>2. ASSUME NEW s \in Subscribers PROVE Complete(s)'
  <2>1. CASE PublisherStep
    BY <2>1, PublisherComplete
  <2>2. CASE ~PublisherStep
    <3>1. UNCHANGED vars /\ phase # "down"
      BY <2>2, SubscriberSteps DEF GapInv, OrderInv
    <3>2. PICK t \in Subscribers :
            \/ \E request \in 0 .. MaxSeq \cup {Latest} : Subscribe(t, request)
            \/ SubscriberStep(t) \/ Unsubscribe(t)
      BY <2>2 DEF ReplayNext
    <3>3. CASE s = t
      BY <3>1, <3>2, <3>3, SubscriptionComplete
    <3>4. CASE s # t
      <4>1. sub'[s] = sub[s]
        BY <3>2, <3>4 DEF Subscribe, SubscriberStep, Backfill, EndBackfill, TakeLive,
                          AwaitLive, Unsubscribe, GapInv, OrderInv, SubTyped
      <4>2. Complete(s)
        BY DEF GapInv
      <4> QED BY <3>1, <4>1, <4>2 DEF Complete, Behind, LeftToCache, Ahead, Taken, Storable,
                                      Top, SeqsOf, Readable, vars, memory, disk, segments
    <3> QED BY <3>3, <3>4
  <2> QED BY <2>1, <2>2
<1> QED BY <1>1, <1>2 DEF GapInv

(* The live stream takes over from the replay without a gap, in a relay    *)
(* whose cache loses no group that a subscriber is about to read, and      *)
(* keeps the finished group until it is stored (Prompt with no races).     *)
THEOREM ServedWithoutGap == ASSUME Races = {} PROVE ReplaySpec => []NoGap
<1>1. ReplayInit => GapInv
  <2> SUFFICES ASSUME ReplayInit PROVE GapInv
    OBVIOUS
  <2>1. phase = "down" /\ \A s \in Subscribers : sub[s] = Detached
    BY DEF ReplayInit, Init
  <2> QED BY <2>1, OrderInit DEF GapInv, Complete, Detached
<1>2. SafetyInv /\ SafetyInv' /\ GapInv /\ [ReplayNext]_replayVars => GapInv'
  <2> SUFFICES ASSUME SafetyInv, SafetyInv', GapInv, [ReplayNext]_replayVars
               PROVE  GapInv'
    OBVIOUS
  <2>1. CASE ReplayNext
    BY <2>1, GapInvKept
  <2>2. CASE UNCHANGED replayVars
    <3>1. /\ sub' = sub /\ phase' = phase /\ cur' = cur /\ ram' = ram /\ store' = store
      BY <2>2 DEF replayVars, vars, memory, disk, segments
    <3>2. OrderInv'
      BY <3>1 DEF GapInv, OrderInv, SubTyped, CacheShape, Ordered, SeqsOf
    <3>3. ASSUME NEW s \in Subscribers PROVE Complete(s)'
      BY <3>1 DEF GapInv, Complete, Behind, LeftToCache, Ahead, Taken, Storable, Top,
                  SeqsOf, Readable
    <3> QED BY <3>1, <3>2, <3>3 DEF GapInv
  <2> QED BY <2>1, <2>2
<1>3. SafetyInv /\ GapInv => NoGap
  <2> SUFFICES ASSUME SafetyInv, GapInv, NEW s \in Subscribers, sub[s] # Detached,
                      NEW x \in Readable \cup ram,
                      sub[s].start <= x, MovedPast(s, x)
               PROVE  x \in Taken(s)
    BY DEF NoGap
  <2>1. Complete(s) /\ sub[s].stage \in Stages /\ sub[s].pos \in Nat \cup {NoSeq}
    BY DEF GapInv, OrderInv, SubTyped
  <2>2. CASE sub[s].stage = "live"
    <3>1. x <= sub[s].pos
      BY <2>2 DEF MovedPast
    <3>2. x \in Taken(s) \/ sub[s].pos < x
      BY <2>1, <2>2 DEF Complete, Ahead
    <3>3. x \in Nat
      BY Sequences
    <3> QED BY <2>1, <3>1, <3>2, <3>3 DEF NoSeq
  <2>3. CASE sub[s].stage \in {"backfill", "handoff"}
    BY <2>1, <2>3 DEF MovedPast, Complete, Behind
  <2> QED BY <2>1, <2>2, <2>3 DEF Complete, Stages
<1> QED BY <1>1, <1>2, <1>3, PublisherUndisturbed, SafetyInvariant, PTL DEF ReplaySpec
=============================================================================
