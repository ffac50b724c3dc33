-------------------------- MODULE DidRouterProofs --------------------------
(***************************************************************************)
(* Machine-checked proofs about DidRouter.tla, for all sets of clients and *)
(* names, every cap and any number of tracks.                              *)
(***************************************************************************)
EXTENDS DidRouter, FiniteSetTheorems, SequenceTheorems, TLAPS

States == {"none", "watching", "idle", "done"}

Typed ==
  /\ made \in 0 .. MaxMade
  /\ name \in [Tracks -> Names]
  /\ on \in [Clients -> 0 .. made]
  /\ lookup \in [Names -> 0 .. made]
  /\ requests \in Seq(Tracks) /\ \A i \in 1 .. Len(requests) : requests[i] <= made
  /\ netWatch \in [Tracks -> States]
  /\ hand \in 0 .. made
  /\ active \in [Names -> [track : 0 .. made, generation : -1 .. MaxMade]]
  /\ watch \in [Tracks -> [state : States, generation : -1 .. MaxMade]]
  /\ aborted \subseteq 1 .. made
  /\ nextGen \in Nat /\ opened \in Nat /\ closed \in Nat /\ refused \in Nat

(* Every request is decided once: each generation, and so each count of    *)
(* the counters, stands for a track that was made and is decided.          *)
Counted ==
  /\ nextGen + Len(requests) + (IF hand = NoTrack THEN 0 ELSE 1) <= made
  /\ opened + refused <= nextGen
  /\ IsFiniteSet(Served) /\ Served \subseteq Dids
  /\ Cardinality(Served) <= MaxTracks
  /\ closed + Cardinality(Served) <= opened

CapInv == Typed /\ Counted

(* A track is pending once, and before it is registered; the entry of a    *)
(* name is a track of that name whose watcher is alive and holds the same  *)
(* generation, and generations belong to one track each.                   *)
PendingOnce ==
  /\ \A i, j \in 1 .. Len(requests) : i # j => requests[i] # requests[j]
  /\ \A i \in 1 .. Len(requests) : requests[i] # hand
  /\ \A t \in Tracks : Pending(t) => watch[t].state = "none" /\ t \notin aborted

Alive(t) == watch[t].state \in {"watching", "idle"}

Materialized ==
  /\ \A d \in Names : active[d] # NoEntry =>
       /\ active[d].track # NoTrack /\ name[active[d].track] = d
       /\ Alive(active[d].track)
       /\ watch[active[d].track].generation = active[d].generation
  /\ \A t \in Tracks : watch[t].state # "none" =>
       t <= made /\ watch[t].generation < nextGen
  /\ \A t, u \in Tracks :
       watch[t].state # "none" /\ watch[u].state # "none"
         /\ watch[t].generation = watch[u].generation => t = u

(* What the lookup names is a track of that name whose clean-up is not     *)
(* done.                                                                   *)
Named ==
  \A n \in Names : lookup[n] # NoTrack =>
    name[lookup[n]] = n /\ netWatch[lookup[n]] \in {"watching", "idle"}

(* Without races: an open track somebody consumes is the one new           *)
(* subscribers find, and a pending track has a consumer.                   *)
Shared ==
  \A c \in Clients : on[c] # NoTrack /\ IsOpen(on[c]) =>
    lookup[name[on[c]]] = on[c] /\ netWatch[on[c]] = "watching"

(* The watched track the lookup names is the one frames are routed to.     *)
Routed ==
  \A t \in Tracks : Alive(t) /\ lookup[name[t]] = t => active[name[t]].track = t

Wanted == \A t \in Tracks : Pending(t) => \E c \in Clients : on[c] = t

IInv ==
  /\ CapInv /\ PendingOnce /\ Materialized /\ Named
  /\ Shared /\ Wanted /\ Routed

-----------------------------------------------------------------------------
(* What the queue of requests is after one was added.                      *)
LEMMA Appended ==
  ASSUME NEW S, NEW q \in Seq(S), NEW x \in S
  PROVE  /\ Append(q, x) \in Seq(S)
         /\ Len(Append(q, x)) = Len(q) + 1 /\ Len(q) \in Nat
         /\ \A i \in 1 .. Len(q) : Append(q, x)[i] = q[i] /\ q[i] \in S
         /\ Append(q, x)[Len(q) + 1] = x
  OBVIOUS

(* What it is after the newest was popped.                                 *)
LEMMA Popped ==
  ASSUME NEW S, NEW q \in Seq(S), q # <<>>
  PROVE  /\ SubSeq(q, 1, Len(q) - 1) \in Seq(S)
         /\ Len(SubSeq(q, 1, Len(q) - 1)) = Len(q) - 1 /\ Len(q) \in Nat /\ Len(q) > 0
         /\ q[Len(q)] \in S
         /\ \A i \in 1 .. Len(q) - 1 : SubSeq(q, 1, Len(q) - 1)[i] = q[i]
<1>1. Len(q) \in Nat /\ Len(q) > 0
  OBVIOUS
<1>2. \A i \in 1 .. Len(q) - 1 : q[i] \in S
  BY <1>1
<1>3. q[Len(q)] \in S
  BY <1>1
<1>4. /\ SubSeq(q, 1, Len(q) - 1) \in Seq(S)
      /\ Len(SubSeq(q, 1, Len(q) - 1)) = IF 1 <= Len(q) - 1 THEN (Len(q) - 1) - 1 + 1 ELSE 0
      /\ \A i \in 1 .. (Len(q) - 1) - 1 + 1 : SubSeq(q, 1, Len(q) - 1)[i] = q[1 + i - 1]
  <2>1. 1 \in Int /\ Len(q) - 1 \in Int
    BY <1>1
  <2> QED BY <1>2, <2>1, SubSeqProperties
<1>5. (Len(q) - 1) - 1 + 1 = Len(q) - 1 /\ \A i \in 1 .. Len(q) - 1 : 1 + i - 1 = i
  BY <1>1
<1> QED BY <1>1, <1>3, <1>4, <1>5

(* What a new request does, in terms of its queue's elements.              *)
LEMMA Requested ==
  ASSUME Typed, NEW c \in Clients, NEW n \in Names, Request(c, n)
  PROVE  /\ made' = made + 1 /\ made + 1 \in Tracks /\ made \in Nat /\ MaxMade \in Nat
         /\ name' = [name EXCEPT ![made + 1] = n]
         /\ on' = [on EXCEPT ![c] = made + 1]
         /\ lookup' = [lookup EXCEPT ![n] = made + 1]
         /\ netWatch' = [netWatch EXCEPT ![made + 1] = "watching"]
         /\ requests' \in Seq(Tracks)
         /\ Len(requests') = Len(requests) + 1 /\ Len(requests) \in Nat
         /\ requests'[Len(requests) + 1] = made + 1
         /\ \A i \in 1 .. Len(requests) : requests'[i] = requests[i] /\ requests[i] \in Tracks
         /\ \A i \in 1 .. Len(requests') : i = Len(requests) + 1 \/ i \in 1 .. Len(requests)
<1>1. made' = made + 1 /\ made + 1 \in Tracks /\ made \in Nat /\ MaxMade \in Nat
  <2>1. made \in 0 .. MaxMade /\ MaxMade \in Nat
    BY RouterAssumption DEF Typed
  <2>2. made < MaxMade /\ made' = made + 1
    BY DEF Request
  <2> QED BY <2>1, <2>2 DEF Tracks
<1>2. requests' = Append(requests, made + 1) /\ requests \in Seq(Tracks)
  BY DEF Request, Typed
<1>3. /\ requests' \in Seq(Tracks)
      /\ Len(requests') = Len(requests) + 1 /\ Len(requests) \in Nat
      /\ requests'[Len(requests) + 1] = made + 1
      /\ \A i \in 1 .. Len(requests) : requests'[i] = requests[i] /\ requests[i] \in Tracks
  BY <1>1, <1>2, Appended
<1>4. \A i \in 1 .. Len(requests') : i = Len(requests) + 1 \/ i \in 1 .. Len(requests)
  BY <1>3
<1> QED BY <1>1, <1>3, <1>4 DEF Request

(* And what taking one does.                                               *)
LEMMA TakenOne ==
  ASSUME Typed, Take
  PROVE  /\ hand = NoTrack /\ hand' = requests[Len(requests)] /\ hand' \in Tracks
         /\ requests' \in Seq(Tracks)
         /\ Len(requests') = Len(requests) - 1 /\ Len(requests) \in Nat /\ Len(requests) > 0
         /\ \A i \in 1 .. Len(requests) - 1 : requests'[i] = requests[i]
         /\ \A i \in 1 .. Len(requests) : i = Len(requests) \/ i \in 1 .. Len(requests')
         /\ UNCHANGED <<net, on, active, watch, nextGen, aborted, counters>>
<1>1. /\ hand = NoTrack /\ hand' = requests[Len(requests)]
      /\ requests' = SubSeq(requests, 1, Len(requests) - 1) /\ requests # <<>>
      /\ UNCHANGED <<net, on, active, watch, nextGen, aborted, counters>>
  BY DEF Take
<1>2. requests \in Seq(Tracks)
  BY DEF Typed
<1>3. /\ hand' \in Tracks /\ requests' \in Seq(Tracks)
      /\ Len(requests') = Len(requests) - 1 /\ Len(requests) \in Nat /\ Len(requests) > 0
      /\ \A i \in 1 .. Len(requests) - 1 : requests'[i] = requests[i]
  BY <1>1, <1>2, Popped
<1>4. \A i \in 1 .. Len(requests) : i = Len(requests) \/ i \in 1 .. Len(requests')
  BY <1>3
<1> QED BY <1>1, <1>3, <1>4

-----------------------------------------------------------------------------
(* Type correctness, action by action.                                     *)
LEMMA TypedNext == CapInv /\ [Next]_vars => Typed'
<1> SUFFICES ASSUME CapInv, [Next]_vars PROVE Typed'
  OBVIOUS
<1> USE DEF net, counters
<1>0. Typed /\ Counted /\ MaxMade \in Nat
  BY RouterAssumption DEF CapInv
<1>1. ASSUME NEW c \in Clients, NEW n \in Names, Subscribe(c, n) PROVE Typed'
  <2>1. CASE Share(c, n)
    BY <1>0, <1>1, <2>1 DEF Subscribe, Share, Typed
  <2>2. CASE Request(c, n)
    <3>1. \A i \in 1 .. Len(requests') : requests'[i] <= made'
      <4> SUFFICES ASSUME NEW i \in 1 .. Len(requests') PROVE requests'[i] <= made'
        OBVIOUS
      <4>1. CASE i = Len(requests) + 1
        BY <1>0, <2>2, <4>1, Requested
      <4>2. CASE i \in 1 .. Len(requests)
        <5>1. requests'[i] = requests[i] /\ requests[i] \in Tracks /\ requests[i] <= made
          BY <1>0, <2>2, <4>2, Requested DEF Typed
        <5> QED BY <1>0, <2>2, <5>1, Requested DEF Tracks
      <4> QED BY <1>0, <2>2, <4>1, <4>2, Requested
    <3>2. made' \in 0 .. MaxMade /\ 0 .. made \subseteq 0 .. made' /\ 1 .. made \subseteq 1 .. made'
          /\ made + 1 \in 0 .. made'
      BY <1>0, <2>2, Requested DEF Tracks
    <3>3. on' \in [Clients -> 0 .. made'] /\ lookup' \in [Names -> 0 .. made']
      BY <1>0, <2>2, <3>2, Requested DEF Typed
    <3>4. name' \in [Tracks -> Names] /\ netWatch' \in [Tracks -> States]
      <4>1. name' \in [Tracks -> Names]
        <5>1. name \in [Tracks -> Names]
          BY <1>0 DEF Typed
        <5>2. name' = [name EXCEPT ![made + 1] = n]
          BY <1>0, <2>2, Requested
        <5> QED BY <5>1, <5>2
      <4>2. "watching" \in States
        BY DEF States
      <4>3. netWatch' \in [Tracks -> States]
        BY <1>0, <2>2, <4>2, Requested DEF Typed
      <4> QED BY <4>1, <4>3
    <3>5. active' \in [Names -> [track : 0 .. made', generation : -1 .. MaxMade]]
      <4>1. \A d \in Names : active[d] \in [track : 0 .. made', generation : -1 .. MaxMade]
        BY <1>0, <3>2 DEF Typed
      <4> QED BY <1>0, <1>1, <4>1 DEF Subscribe, Typed
    <3>6. /\ requests' \in Seq(Tracks) /\ hand' \in 0 .. made' /\ aborted' \subseteq 1 .. made'
          /\ watch' = watch /\ UNCHANGED <<nextGen, opened, closed, refused>>
      BY <1>0, <1>1, <2>2, <3>2, Requested DEF Subscribe, Typed
    <3> QED BY <1>0, <3>1, <3>2, <3>3, <3>4, <3>5, <3>6 DEF Typed
  <2> QED BY <1>1, <2>1, <2>2 DEF Subscribe
<1>2. ASSUME NEW c \in Clients, Leave(c) \/ TrackEnded(c) PROVE Typed'
  <2>1. NoTrack \in 0 .. made /\ on \in [Clients -> 0 .. made]
    BY <1>0 DEF Typed, NoTrack
  <2>2. on' = [on EXCEPT ![c] = NoTrack]
    BY <1>2 DEF Leave, TrackEnded
  <2>3. on' \in [Clients -> 0 .. made]
    BY <2>1, <2>2
  <2>4. UNCHANGED <<net, requests, hand, active, watch, nextGen, aborted, counters>>
    BY <1>2 DEF Leave, TrackEnded
  <2> QED BY <1>0, <2>3, <2>4 DEF Typed
<1>3. ASSUME NEW t \in Tracks, NetUnused(t) \/ NetCleanup(t) PROVE Typed'
  <2>1. NoTrack \in 0 .. made /\ lookup \in [Names -> 0 .. made] /\ netWatch \in [Tracks -> States]
        /\ "idle" \in States /\ "done" \in States
    BY <1>0 DEF Typed, NoTrack, States
  <2>2. netWatch' = [netWatch EXCEPT ![t] = "idle"] \/ netWatch' = [netWatch EXCEPT ![t] = "done"]
    BY <1>3 DEF NetUnused, NetCleanup
  <2>3. lookup' = lookup \/ lookup' = [lookup EXCEPT ![name[t]] = NoTrack]
    BY <1>3 DEF NetUnused, NetCleanup
  <2>4. netWatch' \in [Tracks -> States] /\ lookup' \in [Names -> 0 .. made]
    BY <2>1, <2>2, <2>3
  <2>5. UNCHANGED <<made, name, on, requests, hand, active, watch, nextGen, aborted, counters>>
    BY <1>3 DEF NetUnused, NetCleanup
  <2> QED BY <1>0, <2>4, <2>5 DEF Typed
<1>4. ASSUME NEW t \in Tracks, Unused(t) PROVE Typed'
  BY <1>0, <1>4 DEF Unused, Typed, States
<1>5. ASSUME NEW t \in Tracks, DropIdle(t) PROVE Typed'
  <2>1. NoEntry \in [track : 0 .. made, generation : -1 .. MaxMade]
    BY <1>0 DEF NoEntry, NoTrack, Typed
  <2>2. active' \in [Names -> [track : 0 .. made, generation : -1 .. MaxMade]]
    BY <1>0, <1>5, <2>1 DEF DropIdle, Typed
  <2>3. closed' \in Nat
    BY <1>0, <1>5 DEF DropIdle, Typed
  <2>4. watch' \in [Tracks -> [state : States, generation : -1 .. MaxMade]]
    BY <1>0, <1>5 DEF DropIdle, Typed, States
  <2>5. UNCHANGED <<net, on, requests, hand, nextGen, aborted, opened, refused>>
    BY <1>5 DEF DropIdle
  <2> QED BY <1>0, <2>2, <2>3, <2>4, <2>5 DEF Typed
<1>6. CASE Take
  <2>0. \A i \in 1 .. Len(requests) : requests[i] <= made
    BY <1>0 DEF Typed
  <2>1. \A i \in 1 .. Len(requests') : requests'[i] <= made
    <3> SUFFICES ASSUME NEW i \in 1 .. Len(requests') PROVE requests'[i] <= made
      OBVIOUS
    <3>1. i \in 1 .. Len(requests) - 1 /\ i \in 1 .. Len(requests)
      BY <1>0, <1>6, TakenOne
    <3> QED BY <1>0, <1>6, <2>0, <3>1, TakenOne
  <2>2. hand' \in 0 .. made
    <3>1. Len(requests) \in 1 .. Len(requests)
      BY <1>0, <1>6, TakenOne
    <3>2. hand' <= made /\ hand' \in Tracks
      BY <1>0, <1>6, <2>0, <3>1, TakenOne
    <3>3. made \in 0 .. MaxMade
      BY <1>0 DEF Typed
    <3> QED BY <1>0, <3>2, <3>3 DEF Tracks
  <2>3. /\ UNCHANGED <<net, on, active, watch, nextGen, aborted, counters>>
        /\ requests' \in Seq(Tracks)
    BY <1>0, <1>6, TakenOne
  <2> QED BY <1>0, <2>1, <2>2, <2>3 DEF Typed
<1>7. CASE Reject \/ Refuse
  <2>1. /\ aborted' = aborted \cup {hand} /\ hand' = 0 /\ hand # 0
        /\ nextGen' = nextGen \/ nextGen' = nextGen + 1
        /\ refused' = refused \/ refused' = refused + 1
        /\ UNCHANGED <<net, on, requests, active, watch, opened, closed>>
    BY <1>7 DEF Reject, Refuse, NoTrack
  <2>2. /\ nextGen \in Nat /\ refused \in Nat /\ hand \in 0 .. made /\ aborted \subseteq 1 .. made
        /\ made \in 0 .. MaxMade
    BY <1>0 DEF Typed
  <2>3. nextGen' \in Nat /\ refused' \in Nat
    BY <2>1, <2>2
  <2>4. aborted' \subseteq 1 .. made /\ hand' \in 0 .. made
    BY <1>0, <2>1, <2>2
  <2> QED BY <1>0, <2>1, <2>3, <2>4 DEF Typed
<1>8. CASE Register
  <2>1. hand \in 1 .. made /\ hand \in Tracks /\ name[hand] \in Names
    <3>1. hand # 0 /\ hand \in 0 .. made /\ made \in 0 .. MaxMade /\ name \in [Tracks -> Names]
      BY <1>0, <1>8 DEF Register, Typed, NoTrack
    <3>2. hand \in 1 .. made /\ hand \in Tracks
      BY <1>0, <3>1 DEF Tracks
    <3> QED BY <3>1, <3>2
  <2>2. nextGen \in -1 .. MaxMade
    BY <1>0, <1>8 DEF Register, Typed, Counted
  <2>3. [track |-> hand, generation |-> nextGen] \in [track : 0 .. made, generation : -1 .. MaxMade]
    BY <2>1, <2>2
  <2>4. [state |-> "watching", generation |-> nextGen] \in [state : States, generation : -1 .. MaxMade]
    BY <2>2 DEF States
  <2>5. active' \in [Names -> [track : 0 .. made, generation : -1 .. MaxMade]]
    BY <1>0, <1>8, <2>1, <2>3 DEF Register, Typed
  <2>6. watch' \in [Tracks -> [state : States, generation : -1 .. MaxMade]]
    BY <1>0, <1>8, <2>1, <2>4 DEF Register, Typed
  <2> QED BY <1>0, <1>8, <2>5, <2>6 DEF Register, Typed, NoTrack
<1>9. CASE UNCHANGED vars
  BY <1>0, <1>9 DEF vars, Typed
<1> QED BY <1>1, <1>2, <1>3, <1>4, <1>5, <1>6, <1>7, <1>8, <1>9 DEF Next, RouterTask

(* The counts: a registration opens, and fills an entry or replaces one; a *)
(* watcher that removes an entry closes.                                   *)
LEMMA CountedNext == CapInv /\ [Next]_vars => Counted'
<1> SUFFICES ASSUME CapInv, [Next]_vars PROVE Counted'
  OBVIOUS
<1> USE DEF net, counters
<1>0. /\ Typed /\ Counted /\ MaxTracks \in Nat
      /\ nextGen \in Nat /\ opened \in Nat /\ closed \in Nat /\ refused \in Nat /\ made \in Nat /\ Len(requests) \in Nat
      /\ Cardinality(Served) \in Nat
  BY SMTT(40), RouterAssumption, FS_CardinalityType DEF CapInv, Typed, Counted
<1>1. active' = active => Served' = Served
  BY DEF Served
<1>2. CASE UNCHANGED <<made, requests, hand, active, nextGen, counters>>
  BY <1>0, <1>1, <1>2 DEF Counted
<1>3. ASSUME NEW c \in Clients, NEW n \in Names, Request(c, n), Subscribe(c, n) PROVE Counted'
  BY <1>0, <1>1, <1>3, Requested DEF Subscribe, Counted
<1>4. CASE Take
  <2>1. hand' # NoTrack
    BY <1>0, <1>4, TakenOne DEF Tracks, NoTrack
  <2> QED BY <1>0, <1>1, <1>4, <2>1, TakenOne DEF Counted
<1>5. CASE Reject \/ Refuse
  BY <1>0, <1>1, <1>5 DEF Reject, Refuse, Counted
<1>6. CASE Register
  <2>1. name[hand] \in Names /\ name[hand] \in Dids /\ Cardinality(Served) < MaxTracks
    BY <1>0, <1>6, RouterAssumption DEF Register, IsDid, AtCap
  <2>2. active'[name[hand]] # NoEntry
    BY <1>0, <1>6, <2>1 DEF Register, NoEntry, NoTrack, Typed
  <2>3. Served' = Served \cup {name[hand]}
    BY <1>0, <1>6, <2>1, <2>2 DEF Register, Served, Typed
  <2>4. IsFiniteSet(Served')
    BY <1>0, <2>3, FS_AddElement DEF Counted
  <2>5. Cardinality(Served') \in Nat
    BY <2>4, FS_CardinalityType
  <2>6. IF name[hand] \in Served THEN Cardinality(Served') = Cardinality(Served)
        ELSE Cardinality(Served') = Cardinality(Served) + 1
    BY <1>0, <2>3, FS_AddElement DEF Counted
  <2>7. /\ hand # NoTrack /\ hand' = NoTrack /\ nextGen' = nextGen + 1 /\ opened' = opened + 1
        /\ UNCHANGED <<made, requests, closed, refused>>
    BY <1>6 DEF Register
  <2> QED BY <1>0, <2>1, <2>3, <2>4, <2>5, <2>6, <2>7 DEF Counted
<1>7. ASSUME NEW t \in Tracks, DropIdle(t) PROVE Counted'
  <2>1. CASE SameMaterialization(t)
    <3>1. name[t] \in Served
      BY <1>0, <2>1 DEF SameMaterialization, Served, Typed
    <3>2. Served' = Served \ {name[t]}
      BY <1>0, <1>7, <2>1 DEF DropIdle, Served, Typed
    <3>3. IsFiniteSet(Served') /\ Cardinality(Served') = Cardinality(Served) - 1
      BY <1>0, <3>1, <3>2, FS_RemoveElement DEF Counted
    <3> QED BY <1>0, <1>7, <2>1, <3>2, <3>3 DEF DropIdle, Counted
  <2>2. CASE ~SameMaterialization(t)
    BY <1>0, <1>1, <1>7, <2>2 DEF DropIdle, Counted
  <2> QED BY <2>1, <2>2
<1>8. ASSUME NEW c \in Clients, NEW n \in Names, Subscribe(c, n)
      PROVE  Request(c, n) \/ UNCHANGED <<made, requests, hand, active, nextGen, counters>>
  BY <1>8 DEF Subscribe, Share
<1>9. ASSUME NEW c \in Clients, Leave(c) \/ TrackEnded(c)
      PROVE  UNCHANGED <<made, requests, hand, active, nextGen, counters>>
  BY <1>9 DEF Leave, TrackEnded
<1>10. ASSUME NEW t \in Tracks, NetUnused(t) \/ NetCleanup(t) \/ Unused(t)
       PROVE  UNCHANGED <<made, requests, hand, active, nextGen, counters>>
  BY <1>10 DEF NetUnused, NetCleanup, Unused
<1>11. CASE UNCHANGED vars
  BY <1>2, <1>11 DEF vars
<1> QED BY <1>2, <1>3, <1>4, <1>5, <1>6, <1>7, <1>8, <1>9, <1>10, <1>11 DEF Next, RouterTask

(* The initial state.                                                      *)
LEMMA InitCap == Init => CapInv
<1> SUFFICES ASSUME Init PROVE CapInv
  OBVIOUS
<1>1. MaxMade \in Nat /\ MaxTracks \in Nat /\ \E n \in Names : TRUE
  BY RouterAssumption
<1>2. Typed
  BY <1>1 DEF Init, Typed, NoTrack, NoEntry, NoWatch, States
<1>3. Served = {}
  BY DEF Init, Served
<1>4. IsFiniteSet(Served) /\ Cardinality(Served) = 0
  BY <1>3, FS_EmptySet
<1>5. Counted
  BY <1>1, <1>3, <1>4 DEF Init, Counted, NoTrack
<1> QED BY <1>2, <1>5 DEF CapInv

(* Every variable keeps its type, and at no time are more accounts served  *)
(* than the cap allows, under every race.                                  *)
THEOREM CapHolds == Spec => []TypeOK
<1>1. CapInv /\ [Next]_vars => CapInv'
  BY TypedNext, CountedNext DEF CapInv
<1>2. CapInv => TypeOK
  <2> SUFFICES ASSUME CapInv PROVE TypeOK
    OBVIOUS
  <2>1. Typed /\ Counted /\ MaxMade \in Nat
    BY RouterAssumption DEF CapInv
  <2>2. /\ Cardinality(Served) \in Nat /\ Len(requests) \in Nat /\ nextGen \in Nat
        /\ opened \in Nat /\ closed \in Nat /\ refused \in Nat
        /\ made \in Nat
    BY <2>1, FS_CardinalityType DEF Typed, Counted
  <2>3. opened \in 0 .. made /\ closed \in 0 .. opened /\ refused \in 0 .. made
    <3>1. nextGen + Len(requests) <= made /\ opened + refused <= nextGen
          /\ closed + Cardinality(Served) <= opened
      BY <2>1, <2>2 DEF Counted
    <3> QED BY <2>2, <3>1
  <2>4. \A i \in 1 .. Len(requests) : requests[i] \in 1 .. made
    <3>1. requests \in Seq(Tracks) /\ \A i \in 1 .. Len(requests) : requests[i] <= made
      BY <2>1 DEF Typed
    <3>2. \A i \in 1 .. Len(requests) : requests[i] \in Tracks
      BY <3>1
    <3> QED BY <2>1, <2>2, <3>1, <3>2 DEF Tracks
  <2> QED BY <2>1, <2>3, <2>4 DEF Typed, Counted, TypeOK, States
<1> QED BY <1>1, <1>2, InitCap, PTL DEF Spec

-----------------------------------------------------------------------------
(* What the types say, for use below.                                      *)
LEMMA Facts ==
  ASSUME Typed
  PROVE  /\ made \in Nat /\ MaxMade \in Nat /\ made <= MaxMade
         /\ \A t \in 1 .. made : t \in Tracks /\ t # NoTrack /\ name[t] \in Names
         /\ \A c \in Clients : on[c] # NoTrack => on[c] \in 1 .. made
         /\ \A n \in Names : lookup[n] # NoTrack => lookup[n] \in 1 .. made
         /\ \A d \in Names : active[d].track # NoTrack => active[d].track \in 1 .. made
         /\ hand # NoTrack => hand \in 1 .. made
         /\ Len(requests) \in Nat
         /\ \A i \in 1 .. Len(requests) : requests[i] \in 1 .. made
<1>1. made \in 0 .. MaxMade /\ MaxMade \in Nat
  BY RouterAssumption DEF Typed
<1>2. \A t \in 1 .. made : t \in Tracks /\ t # NoTrack /\ name[t] \in Names
  BY <1>1 DEF Typed, Tracks, NoTrack
<1>3. \A c \in Clients : on[c] \in 0 .. made
  BY DEF Typed
<1>4. \A n \in Names : lookup[n] \in 0 .. made
  BY DEF Typed
<1>5. \A d \in Names : active[d].track \in 0 .. made
  BY DEF Typed
<1>6. hand \in 0 .. made
  BY DEF Typed
<1>7. /\ Len(requests) \in Nat
      /\ \A i \in 1 .. Len(requests) : requests[i] \in 1 .. made
  <2>1. requests \in Seq(Tracks) /\ \A i \in 1 .. Len(requests) : requests[i] <= made
    BY DEF Typed
  <2>2. \A i \in 1 .. Len(requests) : requests[i] \in Tracks
    BY <2>1
  <2> QED BY <1>1, <2>1, <2>2 DEF Tracks
<1> QED BY <1>1, <1>2, <1>3, <1>4, <1>5, <1>6, <1>7 DEF NoTrack

(* A track is open while it is pending or its watcher is alive.            *)
LEMMA OpenIff ==
  ASSUME Typed, Materialized, NEW t \in Tracks
  PROVE  IsOpen(t) <=> t \notin aborted /\ (Pending(t) \/ Alive(t))
<1>1. t # NoTrack
  BY DEF Tracks, NoTrack
<1>2. ASSUME NEW d \in Names, active[d].track = t PROVE Alive(t)
  BY <1>1, <1>2 DEF Materialized, NoEntry
<1> QED BY <1>2 DEF IsOpen, Alive

(* How the set of pending tracks changes.  By taking one into the hand:    *)
LEMMA PendingTake ==
  ASSUME Typed, Take, NEW t \in Tracks
  PROVE  Pending(t)' <=> Pending(t)
<1>1. hand # t
  BY TakenOne DEF Tracks, NoTrack
<1>2. ASSUME Pending(t)' PROVE Pending(t)
  <2>1. CASE hand' = t
    <3>1. Len(requests) \in 1 .. Len(requests) /\ requests[Len(requests)] = t
      BY <2>1, TakenOne
    <3> QED BY <3>1 DEF Pending
  <2>2. CASE hand' # t
    <3>1. PICK i \in 1 .. Len(requests') : requests'[i] = t
      BY <1>2, <2>2 DEF Pending
    <3>2. i \in 1 .. Len(requests) - 1 /\ i \in 1 .. Len(requests)
      BY <3>1, TakenOne
    <3>3. requests[i] = t
      BY <3>1, <3>2, TakenOne
    <3> QED BY <3>2, <3>3 DEF Pending
  <2> QED BY <2>1, <2>2
<1>3. ASSUME Pending(t) PROVE Pending(t)'
  <2>1. PICK i \in 1 .. Len(requests) : requests[i] = t
    BY <1>1, <1>3 DEF Pending
  <2>2. CASE i = Len(requests)
    BY <2>1, <2>2, TakenOne DEF Pending
  <2>3. CASE i # Len(requests)
    <3>1. i \in 1 .. Len(requests') /\ i \in 1 .. Len(requests) - 1
      BY <2>1, <2>3, TakenOne
    <3>2. requests'[i] = t
      BY <2>1, <3>1, TakenOne
    <3> QED BY <3>1, <3>2 DEF Pending
  <2> QED BY <2>2, <2>3
<1> QED BY <1>2, <1>3

(* By a new request;                                                       *)
LEMMA PendingRequest ==
  ASSUME Typed, NEW c \in Clients, NEW n \in Names, Request(c, n), hand' = hand,
         NEW t \in Tracks
  PROVE  Pending(t)' <=> Pending(t) \/ t = made + 1
<1>1. ASSUME Pending(t)' PROVE Pending(t) \/ t = made + 1
  BY <1>1, Requested DEF Pending
<1>2. ASSUME Pending(t) PROVE Pending(t)'
  <2>1. CASE hand = t
    BY <2>1 DEF Pending
  <2>2. CASE hand # t
    <3>1. PICK i \in 1 .. Len(requests) : requests[i] = t
      BY <1>2, <2>2 DEF Pending
    <3>2. i \in 1 .. Len(requests') /\ requests'[i] = t
      BY <3>1, Requested
    <3> QED BY <3>2 DEF Pending
  <2> QED BY <2>1, <2>2
<1>3. ASSUME t = made + 1 PROVE Pending(t)'
  <2>1. Len(requests) + 1 \in 1 .. Len(requests') /\ requests'[Len(requests) + 1] = t
    BY <1>3, Requested
  <2> QED BY <2>1 DEF Pending
<1> QED BY <1>1, <1>2, <1>3

(* The track the router decides on is one of them.                         *)
LEMMA Decided ==
  ASSUME Typed, Reject \/ Refuse \/ Register
  PROVE  hand \in 1 .. made /\ hand \in Tracks /\ name[hand] \in Names /\ Pending(hand)
<1>1. hand # NoTrack
  BY DEF Reject, Refuse, Register
<1> QED BY <1>1, Facts DEF Pending

(* It is pending no longer;                                                *)
LEMMA PendingDecided ==
  ASSUME Typed, PendingOnce, Reject \/ Refuse \/ Register, NEW t \in Tracks
  PROVE  Pending(t)' <=> Pending(t) /\ t # hand
<1>1. hand # NoTrack /\ hand' = NoTrack /\ requests' = requests
  BY DEF Reject, Refuse, Register
<1>2. t # NoTrack
  BY DEF Tracks, NoTrack
<1> QED BY <1>1, <1>2 DEF Pending, PendingOnce

(* and otherwise the set stays what it is.                                 *)
LEMMA PendingSame ==
  ASSUME UNCHANGED <<hand, requests>>, NEW t
  PROVE  Pending(t)' <=> Pending(t)
BY DEF Pending

-----------------------------------------------------------------------------
(* Steps that do not concern the queue of requests or the watchers.        *)
LEMMA Kept ==
  ASSUME [Next]_vars
  PROVE  \/ \E c \in Clients, n \in Names : Subscribe(c, n) /\ Request(c, n)
         \/ Take \/ Reject \/ Refuse \/ Register
         \/ \E t \in Tracks : Unused(t) \/ DropIdle(t)
         \/ UNCHANGED <<made, name, requests, hand, active, watch, nextGen, aborted>>
<1> USE DEF net, counters
<1>1. ASSUME NEW c \in Clients, NEW n \in Names, Share(c, n), Subscribe(c, n)
      PROVE  UNCHANGED <<made, name, requests, hand, active, watch, nextGen, aborted>>
  BY <1>1 DEF Share, Subscribe
<1>2. ASSUME NEW c \in Clients, Leave(c) \/ TrackEnded(c)
      PROVE  UNCHANGED <<made, name, requests, hand, active, watch, nextGen, aborted>>
  BY <1>2 DEF Leave, TrackEnded
<1>3. ASSUME NEW t \in Tracks, NetUnused(t) \/ NetCleanup(t)
      PROVE  UNCHANGED <<made, name, requests, hand, active, watch, nextGen, aborted>>
  BY <1>3 DEF NetUnused, NetCleanup
<1>4. ASSUME NEW c \in Clients, NEW n \in Names, Subscribe(c, n)
      PROVE  Share(c, n) \/ Request(c, n)
  BY <1>4 DEF Subscribe
<1> QED BY <1>1, <1>2, <1>3, <1>4 DEF Next, RouterTask, vars

(* A request is pending once, until it is decided.                         *)
LEMMA PendingOnceNext ==
  ASSUME Typed, Typed', PendingOnce, Materialized, [Next]_vars
  PROVE  PendingOnce'
<1> USE DEF net, counters
<1>0. /\ \A i, j \in 1 .. Len(requests) : i # j => requests[i] # requests[j]
      /\ \A i \in 1 .. Len(requests) : requests[i] # hand
      /\ \A t \in Tracks : Pending(t) => watch[t].state = "none" /\ t \notin aborted
  BY DEF PendingOnce
<1>1. CASE UNCHANGED <<made, name, requests, hand, active, watch, nextGen, aborted>>
  BY <1>1 DEF PendingOnce, Pending
<1>2. ASSUME NEW c \in Clients, NEW n \in Names, Subscribe(c, n), Request(c, n)
      PROVE  PendingOnce'
  <2>1. UNCHANGED <<hand, watch, aborted>>
    BY <1>2 DEF Subscribe
  <2>2. \A i \in 1 .. Len(requests) : requests[i] < made + 1
    BY Facts
  <2>3. hand < made + 1
    BY Facts DEF NoTrack
  <2>4. \A i, j \in 1 .. Len(requests') : i # j => requests'[i] # requests'[j]
    <3> SUFFICES ASSUME NEW i \in 1 .. Len(requests'), NEW j \in 1 .. Len(requests'), i # j
                 PROVE  requests'[i] # requests'[j]
      OBVIOUS
    <3>1. CASE i \in 1 .. Len(requests) /\ j \in 1 .. Len(requests)
      BY <1>0, <1>2, <3>1, Requested
    <3>2. CASE i = Len(requests) + 1 /\ j \in 1 .. Len(requests)
      BY <1>2, <2>2, <3>2, Requested, Facts
    <3>3. CASE j = Len(requests) + 1 /\ i \in 1 .. Len(requests)
      BY <1>2, <2>2, <3>3, Requested, Facts
    <3> QED BY <1>2, <3>1, <3>2, <3>3, Requested
  <2>5. \A i \in 1 .. Len(requests') : requests'[i] # hand
    BY <1>0, <1>2, <2>3, Requested, Facts DEF NoTrack
  <2>6. watch[made + 1].state = "none" /\ made + 1 \notin aborted
    <3>1. made + 1 \in Tracks /\ ~(made + 1 <= made) /\ made + 1 \notin 1 .. made
      BY <1>2, Requested
    <3> QED BY <3>1 DEF Materialized, Typed
  <2>7. \A t \in Tracks : Pending(t)' => watch[t].state = "none" /\ t \notin aborted
    BY <1>0, <1>2, <2>1, <2>6, PendingRequest
  <2> QED BY <2>1, <2>4, <2>5, <2>7 DEF PendingOnce
<1>3. CASE Take
  <2>1. \A i, j \in 1 .. Len(requests') : i # j => requests'[i] # requests'[j]
    <3> SUFFICES ASSUME NEW i \in 1 .. Len(requests'), NEW j \in 1 .. Len(requests'), i # j
                 PROVE  requests'[i] # requests'[j]
      OBVIOUS
    <3>1. /\ i \in 1 .. Len(requests) - 1 /\ j \in 1 .. Len(requests) - 1
          /\ i \in 1 .. Len(requests) /\ j \in 1 .. Len(requests)
      BY <1>3, TakenOne
    <3> QED BY <1>0, <1>3, <3>1, TakenOne
  <2>2. \A i \in 1 .. Len(requests') : requests'[i] # hand'
    <3> SUFFICES ASSUME NEW i \in 1 .. Len(requests') PROVE requests'[i] # requests[Len(requests)]
      BY <1>3, TakenOne
    <3>1. /\ i \in 1 .. Len(requests) - 1 /\ i \in 1 .. Len(requests)
          /\ Len(requests) \in 1 .. Len(requests) /\ i # Len(requests)
      BY <1>3, TakenOne
    <3> QED BY <1>0, <1>3, <3>1, TakenOne
  <2>3. UNCHANGED <<watch, aborted>>
    BY <1>3, TakenOne
  <2>4. \A t \in Tracks : Pending(t)' => watch[t].state = "none" /\ t \notin aborted
    BY <1>0, <1>3, PendingTake
  <2> QED BY <2>1, <2>2, <2>3, <2>4 DEF PendingOnce
<1>4. CASE Reject \/ Refuse \/ Register
  <2>1. requests' = requests /\ hand' = NoTrack
    BY <1>4 DEF Reject, Refuse, Register
  <2>2. \A t \in Tracks : t # hand => watch'[t] = watch[t] /\ (t \in aborted' => t \in aborted)
    BY <1>4 DEF Reject, Refuse, Register, Typed
  <2>3. \A t \in Tracks : Pending(t)' => watch'[t].state = "none" /\ t \notin aborted'
    BY <1>0, <1>4, <2>2, PendingDecided
  <2>4. \A i \in 1 .. Len(requests) : requests[i] # NoTrack
    BY Facts
  <2> QED BY <1>0, <2>1, <2>3, <2>4 DEF PendingOnce
<1>5. ASSUME NEW t \in Tracks, Unused(t) \/ DropIdle(t) PROVE PendingOnce'
  <2>1. UNCHANGED <<requests, hand, aborted>>
    BY <1>5 DEF Unused, DropIdle
  <2>2. watch[t].state # "none" /\ \A u \in Tracks : u # t => watch'[u] = watch[u]
    BY <1>5 DEF Unused, DropIdle, Typed
  <2>3. \A u \in Tracks : Pending(u)' => watch'[u].state = "none" /\ u \notin aborted'
    BY <1>0, <2>1, <2>2, PendingSame
  <2> QED BY <1>0, <2>1, <2>3 DEF PendingOnce
<1> QED BY <1>1, <1>2, <1>3, <1>4, <1>5, Kept

(* The routing map and the watchers agree.                                 *)
LEMMA MaterializedNext ==
  ASSUME Typed, Typed', Counted, PendingOnce, Materialized, [Next]_vars
  PROVE  Materialized'
<1> USE DEF net, counters
<1>0. nextGen \in Nat
  BY DEF Typed
<1>1. CASE UNCHANGED <<made, name, requests, hand, active, watch, nextGen, aborted>>
  BY <1>1 DEF Materialized, Alive
<1>2. ASSUME NEW c \in Clients, NEW n \in Names, Subscribe(c, n), Request(c, n)
      PROVE  Materialized'
  <2>1. UNCHANGED <<active, watch, nextGen>>
    BY <1>2 DEF Subscribe
  <2>2. \A t \in Tracks : t <= made => t <= made' /\ name'[t] = name[t]
    <3>1. /\ made' = made + 1 /\ made \in Nat /\ name' = [name EXCEPT ![made + 1] = n]
      BY <1>2, Requested
    <3>2. name \in [Tracks -> Names] /\ \A t \in Tracks : t \in Nat
      BY SMTT(40) DEF Typed, Tracks
    <3> QED BY <3>1, <3>2
  <2>3. \A d \in Names : active[d] # NoEntry => active[d].track \in Tracks /\ active[d].track <= made
    BY Facts DEF Materialized
  <2> QED BY <2>1, <2>2, <2>3 DEF Materialized, Alive
<1>3. CASE Take
  BY <1>3, TakenOne DEF Materialized, Alive
<1>4. CASE Reject \/ Refuse
  <2>1. UNCHANGED <<net, active, watch>> /\ nextGen <= nextGen'
    BY <1>0, <1>4 DEF Reject, Refuse
  <2>2. \A t \in Tracks : watch[t].generation \in Int
    BY DEF Typed
  <2> QED BY <1>0, <2>1, <2>2 DEF Materialized, Alive, Typed
<1>5. CASE Register
  <2>1. /\ hand \in 1 .. made /\ hand \in Tracks /\ name[hand] \in Names /\ hand # NoTrack
        /\ watch[hand].state = "none"
    <3>1. hand \in 1 .. made /\ hand \in Tracks /\ Pending(hand)
      BY <1>5, Decided
    <3> QED BY <3>1, Facts DEF PendingOnce
  <2>2. /\ active' = [active EXCEPT ![name[hand]] = [track |-> hand, generation |-> nextGen]]
        /\ watch' = [watch EXCEPT ![hand] = [state |-> "watching", generation |-> nextGen]]
        /\ nextGen' = nextGen + 1 /\ UNCHANGED <<made, name>>
    BY <1>5 DEF Register
  <2>3. /\ watch'[hand] = [state |-> "watching", generation |-> nextGen]
        /\ \A u \in Tracks : u # hand => watch'[u] = watch[u]
    BY <2>1, <2>2 DEF Typed
  <2>4. /\ active'[name[hand]] = [track |-> hand, generation |-> nextGen]
        /\ \A d \in Names : d # name[hand] => active'[d] = active[d]
    BY <2>1, <2>2 DEF Typed
  <2>5. \A u \in Tracks : watch[u].state # "none" => u <= made /\ watch[u].generation < nextGen
    BY DEF Materialized
  <2>6. \A u \in Tracks : watch[u].generation \in Int
    BY DEF Typed
  <2>7. ASSUME NEW d \in Names, active'[d] # NoEntry
        PROVE  /\ active'[d].track # NoTrack /\ name'[active'[d].track] = d
               /\ watch'[active'[d].track].state \in {"watching", "idle"}
               /\ watch'[active'[d].track].generation = active'[d].generation
    <3>1. CASE d = name[hand]
      BY <2>1, <2>2, <2>3, <2>4, <3>1 DEF Alive
    <3>2. CASE d # name[hand]
      <4>1. /\ active[d].track # NoTrack /\ name[active[d].track] = d
            /\ Alive(active[d].track) /\ watch[active[d].track].generation = active[d].generation
        BY <2>4, <2>7, <3>2 DEF Materialized
      <4>2. active[d].track \in Tracks
        BY <4>1, Facts
      <4>3. active[d].track # hand
        BY <2>1, <4>1 DEF Alive
      <4> QED BY <2>2, <2>3, <2>4, <3>2, <4>1, <4>2, <4>3 DEF Alive
    <3> QED BY <3>1, <3>2
  <2>8. \A u \in Tracks : watch'[u].state # "none" => u <= made /\ watch'[u].generation < nextGen'
    BY <1>0, <2>1, <2>2, <2>3, <2>5, <2>6, Facts
  <2>9. ASSUME NEW t \in Tracks, NEW u \in Tracks, watch'[t].state # "none",
               watch'[u].state # "none", watch'[t].generation = watch'[u].generation
        PROVE  t = u
    <3>1. CASE t # hand /\ u # hand
      BY <2>3, <2>9, <3>1 DEF Materialized
    <3>2. CASE t = hand /\ u # hand
      BY <1>0, <2>3, <2>5, <2>6, <2>9, <3>2
    <3>3. CASE t # hand /\ u = hand
      BY <1>0, <2>3, <2>5, <2>6, <2>9, <3>3
    <3> QED BY <3>1, <3>2, <3>3
  <2> QED BY <2>2, <2>7, <2>8, <2>9 DEF Materialized, Alive
<1>6. ASSUME NEW t \in Tracks, Unused(t) PROVE Materialized'
  <2>1. /\ UNCHANGED <<net, active, nextGen>>
        /\ watch'[t].generation = watch[t].generation
        /\ watch[t].state = "watching" /\ watch'[t].state = "idle"
        /\ \A u \in Tracks : u # t => watch'[u] = watch[u]
    BY <1>6 DEF Unused, Typed
  <2>2. \A u \in Tracks : /\ watch'[u].generation = watch[u].generation
                          /\ watch'[u].state # "none" <=> watch[u].state # "none"
                          /\ Alive(u)' <=> Alive(u)
    BY <2>1 DEF Alive
  <2>3. \A d \in Names : active[d] # NoEntry => active[d].track \in Tracks
    BY Facts DEF Materialized
  <2> QED BY <2>1, <2>2, <2>3 DEF Materialized
<1>7. ASSUME NEW t \in Tracks, DropIdle(t) PROVE Materialized'
  <2>1. /\ UNCHANGED <<net, nextGen>>
        /\ watch'[t].generation = watch[t].generation
        /\ watch[t].state = "idle" /\ watch'[t].state = "done"
        /\ \A u \in Tracks : u # t => watch'[u] = watch[u]
    BY <1>7 DEF DropIdle, Typed
  <2>2. \A u \in Tracks : /\ watch'[u].generation = watch[u].generation
                          /\ watch'[u].state # "none" <=> watch[u].state # "none"
    BY <2>1
  <2>3. ASSUME NEW d \in Names, active'[d] # NoEntry
        PROVE  active'[d] = active[d] /\ active[d].track # t
    <3>1. active'[d] = active[d]
      BY <1>7, <2>3 DEF DropIdle, Typed
    <3>2. /\ name[active[d].track] = d
          /\ watch[active[d].track].generation = active[d].generation
      BY <2>3, <3>1 DEF Materialized
    <3>3. ASSUME active[d].track = t PROVE FALSE
      <4>1. SameMaterialization(t) /\ d = name[t]
        BY <2>3, <3>1, <3>2, <3>3 DEF SameMaterialization
      <4>2. active'[d] = NoEntry
        BY <1>7, <4>1 DEF DropIdle, Typed
      <4> QED BY <2>3, <4>2
    <3> QED BY <3>1, <3>3
  <2>4. \A d \in Names : active[d] # NoEntry => active[d].track \in Tracks
    BY Facts DEF Materialized
  <2>5. ASSUME NEW d \in Names, active'[d] # NoEntry
        PROVE  /\ active'[d].track # NoTrack /\ name'[active'[d].track] = d
               /\ watch'[active'[d].track].state \in {"watching", "idle"}
               /\ watch'[active'[d].track].generation = active'[d].generation
    <3>1. /\ active[d].track # NoTrack /\ name[active[d].track] = d
          /\ Alive(active[d].track) /\ watch[active[d].track].generation = active[d].generation
          /\ active[d].track \in Tracks /\ active[d].track # t /\ active'[d] = active[d]
      <4>1. active'[d] = active[d] /\ active[d].track # t /\ active[d] # NoEntry
        BY <2>3, <2>5
      <4> QED BY <2>4, <4>1 DEF Materialized
    <3> QED BY <2>1, <3>1 DEF Alive
  <2> QED BY <2>1, <2>2, <2>5 DEF Materialized, Alive
<1> QED BY <1>1, <1>2, <1>3, <1>4, <1>5, <1>6, <1>7, Kept

-----------------------------------------------------------------------------
(* The lookup names tracks by their names, and a track leaves it when its  *)
(* clean-up is done.                                                       *)
LEMMA NamedNext ==
  ASSUME Typed, Typed', Named, [Next]_vars
  PROVE  Named'
<1> USE DEF net, counters
<1>0. \A n \in Names : lookup[n] # NoTrack =>
        /\ name[lookup[n]] = n /\ netWatch[lookup[n]] \in {"watching", "idle"}
        /\ lookup[n] \in Tracks /\ lookup[n] <= made
  BY Facts DEF Named
<1>1. CASE UNCHANGED net
  BY <1>0, <1>1 DEF Named
<1>2. ASSUME NEW c \in Clients, NEW n \in Names, Request(c, n) PROVE Named'
  <2>1. /\ name' = [name EXCEPT ![made + 1] = n] /\ lookup' = [lookup EXCEPT ![n] = made + 1]
        /\ netWatch' = [netWatch EXCEPT ![made + 1] = "watching"]
        /\ made \in Nat /\ made + 1 \in Tracks
    BY <1>2, Requested
  <2>2. name \in [Tracks -> Names] /\ netWatch \in [Tracks -> States] /\ lookup \in [Names -> 0 .. made]
    BY DEF Typed
  <2> SUFFICES ASSUME NEW m \in Names, lookup'[m] # NoTrack
               PROVE  name'[lookup'[m]] = m /\ netWatch'[lookup'[m]] \in {"watching", "idle"}
    BY DEF Named
  <2>3. CASE m = n
    BY <2>1, <2>2, <2>3
  <2>4. CASE m # n
    <3>1. lookup'[m] = lookup[m] /\ lookup[m] \in Tracks /\ lookup[m] <= made
      BY <1>0, <2>1, <2>2, <2>4
    <3>2. lookup[m] # made + 1
      BY <2>1, <3>1 DEF Tracks
    <3> QED BY <1>0, <2>1, <2>2, <3>1, <3>2
  <2> QED BY <2>3, <2>4
<1>3. ASSUME NEW t \in Tracks, NetUnused(t) PROVE Named'
  <2>1. netWatch' = [netWatch EXCEPT ![t] = "idle"] /\ UNCHANGED <<made, name, lookup>>
        /\ netWatch \in [Tracks -> States]
    BY <1>3 DEF NetUnused, Typed
  <2> QED BY <1>0, <2>1 DEF Named
<1>4. ASSUME NEW t \in Tracks, NetCleanup(t) PROVE Named'
  <2>1. /\ netWatch' = [netWatch EXCEPT ![t] = "done"] /\ UNCHANGED <<made, name>>
        /\ lookup' = IF lookup[name[t]] = t THEN [lookup EXCEPT ![name[t]] = NoTrack] ELSE lookup
        /\ netWatch \in [Tracks -> States] /\ lookup \in [Names -> 0 .. made]
        /\ name[t] \in Names
    BY <1>4 DEF NetCleanup, Typed
  <2> SUFFICES ASSUME NEW m \in Names, lookup'[m] # NoTrack
               PROVE  name[lookup'[m]] = m /\ netWatch'[lookup'[m]] \in {"watching", "idle"}
    BY <2>1 DEF Named
  <2>2. lookup'[m] = lookup[m] /\ (m = name[t] => lookup[m] # t)
    BY <2>1
  <2>3. lookup[m] # t
    BY <1>0, <2>2
  <2> QED BY <1>0, <2>1, <2>2, <2>3
<1>5. ASSUME NEW c \in Clients, NEW n \in Names, Subscribe(c, n)
      PROVE  Request(c, n) \/ UNCHANGED net
  BY <1>5 DEF Subscribe, Share
<1>6. ASSUME NEW c \in Clients, Leave(c) \/ TrackEnded(c) PROVE UNCHANGED net
  BY <1>6 DEF Leave, TrackEnded
<1>7. ASSUME NEW t \in Tracks, Unused(t) \/ DropIdle(t) PROVE UNCHANGED net
  BY <1>7 DEF Unused, DropIdle
<1>8. CASE RouterTask \/ UNCHANGED vars
  BY <1>1, <1>8, TakenOne DEF RouterTask, Reject, Refuse, Register, vars
<1> QED BY <1>1, <1>2, <1>3, <1>4, <1>5, <1>6, <1>7, <1>8 DEF Next

(* A track that is not open never opens again.                             *)
LEMMA OpenShrinks ==
  ASSUME Typed, Typed', PendingOnce, Materialized, Materialized', [Next]_vars,
         NEW t \in Tracks, t <= made, IsOpen(t)'
  PROVE  IsOpen(t)
<1> USE DEF net, counters
<1>0. t \notin aborted' /\ (Pending(t)' \/ Alive(t)')
  <2>1. t # NoTrack
    BY DEF Tracks, NoTrack
  <2>2. ASSUME NEW d \in Names, active'[d].track = t PROVE Alive(t)'
    BY <2>1, <2>2 DEF Materialized, NoEntry, Alive
  <2> QED BY <2>2 DEF IsOpen, Alive
<1>00. IsOpen(t) <=> t \notin aborted /\ (Pending(t) \/ Alive(t))
  BY OpenIff
<1>1. CASE UNCHANGED <<made, name, requests, hand, active, watch, nextGen, aborted>>
  BY <1>0, <1>00, <1>1, PendingSame DEF Alive
<1>2. ASSUME NEW c \in Clients, NEW n \in Names, Subscribe(c, n), Request(c, n)
      PROVE  IsOpen(t)
  <2>1. UNCHANGED <<hand, watch, aborted>>
    BY <1>2 DEF Subscribe
  <2>2. t # made + 1
    BY Facts DEF Tracks
  <2> QED BY <1>0, <1>00, <1>2, <2>1, <2>2, PendingRequest DEF Alive
<1>3. CASE Take
  BY <1>0, <1>00, <1>3, TakenOne, PendingTake DEF Alive
<1>4. CASE Reject \/ Refuse
  <2>1. aborted' = aborted \cup {hand} /\ watch' = watch
    BY <1>4 DEF Reject, Refuse
  <2> QED BY <1>0, <1>00, <1>4, <2>1, PendingDecided DEF Alive
<1>5. CASE Register
  <2>1. /\ watch' = [watch EXCEPT ![hand] = [state |-> "watching", generation |-> nextGen]]
        /\ aborted' = aborted
    BY <1>5 DEF Register
  <2>2. t # hand => watch'[t] = watch[t]
    BY <2>1 DEF Typed
  <2> QED BY <1>0, <1>00, <1>5, <2>1, <2>2, Decided, PendingDecided DEF Alive
<1>6. ASSUME NEW u \in Tracks, Unused(u) \/ DropIdle(u) PROVE IsOpen(t)
  <2>1. UNCHANGED <<requests, hand, aborted>>
    BY <1>6 DEF Unused, DropIdle
  <2>2. Alive(t)' => Alive(t)
    BY <1>6 DEF Unused, DropIdle, Alive, Typed
  <2> QED BY <1>0, <1>00, <2>1, <2>2, PendingSame
<1> QED BY <1>1, <1>2, <1>3, <1>4, <1>5, <1>6, Kept

(* Subscribers of an open track are on the one the lookup names.           *)
LEMMA SharedNext ==
  ASSUME Races = {}, Typed, Typed', PendingOnce, Materialized, Materialized', Named, Shared,
         [Next]_vars
  PROVE  Shared'
<1> USE DEF net, counters
<1> SUFFICES ASSUME NEW c \in Clients, NEW u \in Tracks, on'[c] = u, IsOpen(u)'
             PROVE  lookup'[name'[u]] = u /\ netWatch'[u] = "watching"
  <2>1. \A c \in Clients : on'[c] # NoTrack => on'[c] \in Tracks
    <3>1. made' \in 0 .. MaxMade /\ on' \in [Clients -> 0 .. made'] /\ MaxMade \in Nat
      BY RouterAssumption DEF Typed
    <3> QED BY <3>1 DEF Tracks, NoTrack
  <2> QED BY <2>1 DEF Shared
<1>0. on[c] = u /\ u <= made => /\ IsOpen(u) /\ lookup[name[u]] = u /\ netWatch[u] = "watching"
                                /\ name[u] \in Names
  <2> SUFFICES ASSUME on[c] = u, u <= made
               PROVE  /\ IsOpen(u) /\ lookup[name[u]] = u /\ netWatch[u] = "watching"
                      /\ name[u] \in Names
    OBVIOUS
  <2>1. IsOpen(u)
    BY OpenShrinks
  <2>2. u # NoTrack /\ name[u] \in Names
    BY DEF Tracks, NoTrack, Typed
  <2> QED BY <2>1, <2>2 DEF Shared
<1>00. on[c] = u => u <= made
  BY Facts DEF Tracks, NoTrack
<1>1. CASE UNCHANGED <<net, on>>
  BY <1>0, <1>00, <1>1
<1>2. ASSUME NEW d \in Clients, NEW n \in Names, Subscribe(d, n), Share(d, n)
      PROVE  lookup'[name'[u]] = u /\ netWatch'[u] = "watching"
  <2>1. /\ on' = [on EXCEPT ![d] = lookup[n]] /\ UNCHANGED net
        /\ lookup[n] # NoTrack /\ netWatch[lookup[n]] # "idle"
    BY <1>2 DEF Share
  <2>2. CASE c = d
    <3>1. u = lookup[n]
      BY <2>1, <2>2 DEF Typed
    <3> QED BY <2>1, <3>1 DEF Named
  <2>3. CASE c # d
    <3>1. on[c] = u
      BY <2>1, <2>3 DEF Typed
    <3> QED BY <1>0, <1>00, <2>1, <3>1
  <2> QED BY <2>2, <2>3
<1>3. ASSUME NEW d \in Clients, NEW n \in Names, Subscribe(d, n), Request(d, n)
      PROVE  lookup'[name'[u]] = u /\ netWatch'[u] = "watching"
  <2>1. /\ name' = [name EXCEPT ![made + 1] = n] /\ lookup' = [lookup EXCEPT ![n] = made + 1]
        /\ netWatch' = [netWatch EXCEPT ![made + 1] = "watching"]
        /\ on' = [on EXCEPT ![d] = made + 1] /\ made \in Nat /\ made + 1 \in Tracks
    BY <1>3, Requested
  <2>2. /\ name \in [Tracks -> Names] /\ netWatch \in [Tracks -> States]
        /\ lookup \in [Names -> 0 .. made] /\ on \in [Clients -> 0 .. made]
    BY DEF Typed
  <2>3. CASE c = d
    BY <2>1, <2>2, <2>3
  <2>4. CASE c # d
    <3>1. on[c] = u /\ u <= made /\ u # made + 1
      BY <1>00, <2>1, <2>2, <2>4 DEF Tracks
    <3>2. IsOpen(u) /\ lookup[name[u]] = u /\ netWatch[u] = "watching" /\ name[u] \in Names
      BY <1>0, <3>1
    <3>3. name[u] # n
      <4>1. u # NoTrack
        BY DEF Tracks, NoTrack
      <4> QED BY <1>3, <3>2, <4>1 DEF Request
    <3> QED BY <2>1, <2>2, <3>1, <3>2, <3>3
  <2> QED BY <2>3, <2>4
<1>4. ASSUME NEW d \in Clients, Leave(d) \/ TrackEnded(d)
      PROVE  lookup'[name'[u]] = u /\ netWatch'[u] = "watching"
  <2>1. on' = [on EXCEPT ![d] = NoTrack] /\ UNCHANGED net
    BY <1>4 DEF Leave, TrackEnded
  <2>2. u # NoTrack
    BY DEF Tracks, NoTrack
  <2>3. on[c] = u
    BY <2>1, <2>2 DEF Typed
  <2> QED BY <1>0, <1>00, <2>1, <2>3
<1>5. ASSUME NEW t \in Tracks, NetUnused(t) \/ NetCleanup(t)
      PROVE  lookup'[name'[u]] = u /\ netWatch'[u] = "watching"
  <2>1. on' = on /\ name' = name
    BY <1>5 DEF NetUnused, NetCleanup
  <2>2. IsOpen(u) /\ lookup[name[u]] = u /\ netWatch[u] = "watching" /\ name[u] \in Names
    BY <1>0, <1>00, <2>1
  <2>3. t # u
    BY <1>5, <2>1, <2>2 DEF NetUnused, NetCleanup, Consumers
  <2>4. netWatch'[u] = netWatch[u]
    BY <1>5, <2>3 DEF NetUnused, NetCleanup, Typed
  <2>5. lookup'[name[u]] = lookup[name[u]]
    <3>1. /\ lookup' = lookup
             \/ (lookup[name[t]] = t /\ lookup' = [lookup EXCEPT ![name[t]] = NoTrack])
      BY <1>5 DEF NetUnused, NetCleanup
    <3>2. lookup[name[t]] = t => name[t] # name[u]
      BY <2>2, <2>3
    <3> QED BY <2>2, <3>1, <3>2 DEF Typed
  <2> QED BY <2>1, <2>2, <2>4, <2>5
<1>6. ASSUME NEW d \in Clients, NEW n \in Names, Subscribe(d, n)
      PROVE  Share(d, n) \/ Request(d, n)
  BY <1>6 DEF Subscribe
<1>7. ASSUME NEW t \in Tracks, Unused(t) \/ DropIdle(t) PROVE UNCHANGED <<net, on>>
  BY <1>7 DEF Unused, DropIdle
<1>8. ASSUME RouterTask \/ UNCHANGED vars PROVE UNCHANGED <<net, on>>
  BY <1>8, TakenOne DEF RouterTask, Reject, Refuse, Register, vars
<1> QED BY <1>1, <1>2, <1>3, <1>4, <1>5, <1>6, <1>7, <1>8 DEF Next

(* A pending track is waited for: its subscriber does not leave before.    *)
LEMMA WantedNext ==
  ASSUME Races = {}, Typed, Typed', PendingOnce, Materialized, Wanted, [Next]_vars
  PROVE  Wanted'
<1> USE DEF net, counters
<1> SUFFICES ASSUME NEW t \in Tracks, Pending(t)' PROVE \E c \in Clients : on'[c] = t
  BY DEF Wanted
<1>0. t # NoTrack
  BY DEF Tracks, NoTrack
<1>1. ASSUME Pending(t), UNCHANGED on PROVE \E c \in Clients : on'[c] = t
  BY <1>1 DEF Wanted
<1>2. ASSUME NEW d \in Clients, NEW n \in Names, Subscribe(d, n), Share(d, n)
      PROVE  \E c \in Clients : on'[c] = t
  <2>1. on[d] = NoTrack /\ UNCHANGED <<hand, requests>> /\ on' = [on EXCEPT ![d] = lookup[n]]
    BY <1>2 DEF Subscribe, Share
  <2>2. PICK c \in Clients : on[c] = t
    BY <2>1, PendingSame DEF Wanted
  <2> QED BY <1>0, <2>1, <2>2 DEF Typed
<1>3. ASSUME NEW d \in Clients, NEW n \in Names, Subscribe(d, n), Request(d, n)
      PROVE  \E c \in Clients : on'[c] = t
  <2>1. on[d] = NoTrack /\ hand' = hand /\ on' = [on EXCEPT ![d] = made + 1]
    BY <1>3, Requested DEF Subscribe
  <2>2. on \in [Clients -> 0 .. made]
    BY DEF Typed
  <2>3. CASE t = made + 1
    BY <2>1, <2>2, <2>3
  <2>4. CASE t # made + 1
    <3>1. Pending(t)
      BY <1>3, <2>1, <2>4, PendingRequest
    <3>2. PICK c \in Clients : on[c] = t
      BY <3>1 DEF Wanted
    <3> QED BY <1>0, <2>1, <2>2, <3>2
  <2> QED BY <2>3, <2>4
<1>4. ASSUME NEW d \in Clients, Leave(d) \/ TrackEnded(d)
      PROVE  \E c \in Clients : on'[c] = t
  <2>1. UNCHANGED <<hand, requests>> /\ on' = [on EXCEPT ![d] = NoTrack]
    BY <1>4 DEF Leave, TrackEnded
  <2>2. Pending(t)
    BY <2>1, PendingSame
  <2>3. PICK c \in Clients : on[c] = t
    BY <2>2 DEF Wanted
  <2>4. IsOpen(t)
    BY <2>2 DEF IsOpen, PendingOnce
  <2>5. on[d] # t
    BY <1>4, <2>2, <2>4 DEF Leave, TrackEnded
  <2> QED BY <2>1, <2>3, <2>5 DEF Typed
<1>5. ASSUME NEW u \in Tracks, NetUnused(u) \/ NetCleanup(u) \/ Unused(u) \/ DropIdle(u)
      PROVE  UNCHANGED <<hand, requests, on>>
  BY <1>5 DEF NetUnused, NetCleanup, Unused, DropIdle
<1>6. CASE Take
  BY <1>1, <1>6, TakenOne, PendingTake
<1>7. CASE Reject \/ Refuse \/ Register
  <2>1. on' = on
    BY <1>7 DEF Reject, Refuse, Register
  <2>2. Pending(t)
    BY <1>7, PendingDecided
  <2> QED BY <1>1, <2>1, <2>2
<1>8. ASSUME UNCHANGED <<hand, requests, on>> PROVE \E c \in Clients : on'[c] = t
  BY <1>1, <1>8, PendingSame
<1>9. ASSUME NEW d \in Clients, NEW n \in Names, Subscribe(d, n)
      PROVE  Share(d, n) \/ Request(d, n)
  BY <1>9 DEF Subscribe
<1>10. CASE UNCHANGED vars
  BY <1>8, <1>10 DEF vars
<1> QED BY <1>2, <1>3, <1>4, <1>5, <1>6, <1>7, <1>8, <1>9, <1>10 DEF Next, RouterTask

-----------------------------------------------------------------------------
(* A track registered over another of its name is the one the lookup has,  *)
(* and a watcher removes no entry but its own.                             *)
LEMMA RoutedNext ==
  ASSUME Typed, Typed', PendingOnce, Materialized, Materialized', Named, Shared,
         Wanted, Routed, [Next]_vars
  PROVE  Routed'
<1> USE DEF net, counters
<1> SUFFICES ASSUME NEW t \in Tracks, Alive(t)', lookup'[name'[t]] = t
             PROVE  active'[name'[t]].track = t
  BY DEF Routed
<1>0. t # NoTrack /\ name[t] \in Names
  BY SMTT(40) DEF Tracks, NoTrack, Typed
<1>1. Alive(t) /\ lookup[name[t]] = t => active[name[t]].track = t
  BY DEF Routed
<1>2. CASE UNCHANGED <<net, active, watch>>
  BY <1>1, <1>2 DEF Alive
<1>3. ASSUME NEW c \in Clients, NEW n \in Names, Subscribe(c, n), Request(c, n)
      PROVE  active'[name'[t]].track = t
  <2>1. /\ name' = [name EXCEPT ![made + 1] = n] /\ lookup' = [lookup EXCEPT ![n] = made + 1]
        /\ made \in Nat /\ UNCHANGED <<active, watch>>
    BY <1>3, Requested DEF Subscribe
  <2>2. t <= made /\ t # made + 1
    <3>1. watch[t].state # "none"
      BY <2>1 DEF Alive
    <3> QED BY <2>1, <3>1 DEF Materialized, Tracks
  <2>3. name'[t] = name[t] /\ name[t] # n
    BY <2>1, <2>2 DEF Typed
  <2> QED BY <1>0, <1>1, <2>1, <2>3 DEF Typed, Alive
<1>4. ASSUME NEW u \in Tracks, NetUnused(u) \/ NetCleanup(u)
      PROVE  active'[name'[t]].track = t
  <2>1. UNCHANGED <<name, active, watch>>
    BY <1>4 DEF NetUnused, NetCleanup
  <2>2. \/ lookup' = lookup \/ lookup' = [lookup EXCEPT ![name[u]] = NoTrack]
    BY <1>4 DEF NetUnused, NetCleanup
  <2>3. lookup[name[t]] = t
    BY <1>0, <2>1, <2>2 DEF Typed
  <2> QED BY <1>1, <2>1, <2>3 DEF Alive
<1>5. ASSUME NEW u \in Tracks, Unused(u) PROVE active'[name'[t]].track = t
  <2>1. UNCHANGED <<name, lookup, active>>
    BY <1>5 DEF Unused
  <2>2. Alive(t)
    BY <1>5 DEF Unused, Alive, Typed
  <2> QED BY <1>1, <2>1, <2>2
<1>6. ASSUME NEW u \in Tracks, DropIdle(u) PROVE active'[name'[t]].track = t
  <2>1. /\ UNCHANGED <<name, lookup>> /\ watch[u].state = "idle"
        /\ watch' = [watch EXCEPT ![u].state = "done"]
        /\ \/ active' = active
           \/ SameMaterialization(u) /\ active' = [active EXCEPT ![name[u]] = NoEntry]
    BY <1>6 DEF DropIdle
  <2>2. Alive(t) /\ t # u
    BY <2>1 DEF Alive, Typed
  <2>3. active[name[t]].track = t
    BY <1>1, <2>1, <2>2
  <2>4. ASSUME SameMaterialization(u) PROVE name[u] # name[t]
    <3>1. active[name[t]] # NoEntry
      BY <1>0, <2>3 DEF NoEntry
    <3>2. watch[t].generation = active[name[t]].generation
      BY <1>0, <2>3, <3>1 DEF Materialized
    <3>3. watch[t].state # "none" /\ watch[u].state # "none"
      BY <2>1, <2>2 DEF Alive
    <3>4. watch[u].generation # watch[t].generation
      BY <2>2, <3>3 DEF Materialized
    <3> QED BY <2>4, <3>2, <3>4 DEF SameMaterialization
  <2> QED BY <1>0, <2>1, <2>3, <2>4 DEF Typed
<1>7. CASE Register
  <2>1. /\ active' = [active EXCEPT ![name[hand]] = [track |-> hand, generation |-> nextGen]]
        /\ watch' = [watch EXCEPT ![hand] = [state |-> "watching", generation |-> nextGen]]
        /\ UNCHANGED <<name, lookup>> /\ hand \in Tracks /\ hand # NoTrack
    BY <1>7, Decided DEF Register
  <2>2. CASE t = hand
    BY <1>0, <2>1, <2>2 DEF Typed
  <2>3. CASE t # hand
    <3>1. Alive(t)
      BY <2>1, <2>3 DEF Alive, Typed
    <3>2. PICK c \in Clients : on[c] = hand
      BY <2>1 DEF Wanted, Pending
    <3>3. IsOpen(hand)
      BY <2>1 DEF IsOpen, Pending, PendingOnce
    <3>4. lookup[name[hand]] = hand
      BY <2>1, <3>2, <3>3 DEF Shared
    <3>5. name[t] # name[hand]
      BY <2>1, <2>3, <3>4
    <3> QED BY <1>0, <1>1, <2>1, <3>1, <3>5 DEF Typed
  <2> QED BY <2>2, <2>3
<1>8. ASSUME NEW c \in Clients, NEW n \in Names, Subscribe(c, n), Share(c, n)
      PROVE  UNCHANGED <<net, active, watch>>
  BY <1>8 DEF Subscribe, Share
<1>9. ASSUME NEW c \in Clients, Leave(c) \/ TrackEnded(c)
      PROVE  UNCHANGED <<net, active, watch>>
  BY <1>9 DEF Leave, TrackEnded
<1>10. ASSUME Take \/ Reject \/ Refuse \/ UNCHANGED vars
       PROVE  UNCHANGED <<net, active, watch>>
  BY <1>10, TakenOne DEF Reject, Refuse, vars
<1>11. ASSUME NEW d \in Clients, NEW n \in Names, Subscribe(d, n)
       PROVE  Share(d, n) \/ Request(d, n)
  BY <1>11 DEF Subscribe
<1> QED BY <1>2, <1>3, <1>4, <1>5, <1>6, <1>7, <1>8, <1>9, <1>10, <1>11 DEF Next, RouterTask

(* The invariant holds at the start.                                       *)
LEMMA InitInv == Init => IInv
<1> SUFFICES ASSUME Init PROVE IInv
  OBVIOUS
<1>1. CapInv
  BY InitCap
<1>2. /\ on = [c \in Clients |-> NoTrack] /\ lookup = [n \in Names |-> NoTrack]
      /\ requests = <<>> /\ hand = NoTrack /\ active = [n \in Names |-> NoEntry]
      /\ watch = [t \in Tracks |-> NoWatch]
  BY DEF Init
<1>3. \A t \in Tracks : ~Pending(t) /\ watch[t].state = "none"
  BY <1>2 DEF Pending, NoWatch, Tracks, NoTrack
<1>4. PendingOnce
  BY <1>2, <1>3 DEF PendingOnce
<1>5. Materialized
  BY <1>2, <1>3 DEF Materialized
<1>6. Named /\ Shared
  BY <1>2 DEF Named, Shared
<1>7. Wanted /\ Routed
  BY <1>3 DEF Wanted, Routed, Alive
<1> QED BY <1>1, <1>4, <1>5, <1>6, <1>7 DEF IInv

(* An open track that is not pending is watched.                           *)
LEMMA SharedRouted == IInv => NeverStarved
<1> SUFFICES ASSUME IInv, NEW c \in Clients, on[c] # NoTrack, IsOpen(on[c]), ~Pending(on[c])
             PROVE  active[name[on[c]]].track = on[c]
  BY DEF NeverStarved
<1>1. Typed /\ Materialized /\ Shared /\ Routed
  BY DEF IInv, CapInv
<1>2. on[c] \in Tracks
  BY <1>1, Facts
<1>3. lookup[name[on[c]]] = on[c]
  BY <1>1 DEF Shared
<1>4. Alive(on[c])
  <2>1. ASSUME NEW d \in Names, active[d].track = on[c] PROVE Alive(on[c])
    BY <1>1, <2>1 DEF Materialized, NoEntry, NoTrack
  <2> QED BY <2>1 DEF IsOpen, Alive
<1> QED BY <1>1, <1>2, <1>3, <1>4 DEF Routed

(* Without the two races a step keeps the invariant.                       *)
LEMMA InvNext ==
  ASSUME Races = {}, IInv, [Next]_vars
  PROVE  IInv'
<1>1. CapInv'
  BY TypedNext, CountedNext DEF IInv, CapInv
<1>2. Typed /\ Typed' /\ PendingOnce /\ Materialized /\ Named /\ Shared /\ Wanted /\ Routed
  BY <1>1 DEF IInv, CapInv
<1>3. PendingOnce'
  BY <1>1, <1>2, PendingOnceNext DEF IInv
<1>4. Materialized'
  BY <1>1, <1>2, MaterializedNext DEF IInv, CapInv
<1>5. Named'
  BY <1>2, NamedNext
<1>6. Shared'
  BY <1>2, <1>4, SharedNext
<1>7. Wanted'
  BY <1>2, WantedNext
<1>8. Routed'
  BY <1>2, <1>4, RoutedNext
<1> QED BY <1>1, <1>3, <1>4, <1>5, <1>6, <1>7, <1>8 DEF IInv

(* Without the two races nobody is left on a track that gets no frames.    *)
THEOREM NobodyStarves ==
  ASSUME Races = {}
  PROVE  Spec => []NeverStarved
<1>1. Init => IInv
  BY InitInv
<1>2. IInv /\ [Next]_vars => IInv'
  BY InvNext
<1>3. IInv => NeverStarved
  BY SharedRouted
<1> QED BY <1>1, <1>2, <1>3, PTL DEF Spec

-----------------------------------------------------------------------------
(* The promise of SelectiveSync.tla.                                       *)

(* A refused track was never registered.                                   *)
Unserved == \A t \in aborted : watch[t].state = "none"

SyncInv == IInv /\ Unserved

LEMMA SyncInvNext ==
  ASSUME Races = {}, SyncInv, [Next]_vars
  PROVE  SyncInv'
<1>1. IInv'
  BY InvNext DEF SyncInv
<1> SUFFICES Unserved'
  BY <1>1 DEF SyncInv
<1>2. Typed /\ PendingOnce /\ Unserved /\ aborted \subseteq Tracks
  <2>1. Typed /\ PendingOnce /\ Unserved
    BY DEF SyncInv, IInv, CapInv
  <2>2. aborted \subseteq 1 .. made
    BY <2>1 DEF Typed
  <2> QED BY <2>1, <2>2, Facts
<1>3. CASE UNCHANGED <<made, name, requests, hand, active, watch, nextGen, aborted>>
  BY <1>2, <1>3 DEF Unserved
<1>4. ASSUME NEW c \in Clients, NEW n \in Names, Subscribe(c, n) PROVE Unserved'
  BY <1>2, <1>4 DEF Subscribe, Unserved
<1>5. CASE Take
  BY <1>2, <1>5 DEF Take, Unserved
<1>6. CASE Reject \/ Refuse
  <2>1. aborted' = aborted \cup {hand} /\ watch' = watch
    BY <1>6 DEF Reject, Refuse
  <2>2. watch[hand].state = "none"
    BY <1>2, <1>6, Decided DEF PendingOnce
  <2> QED BY <1>2, <2>1, <2>2 DEF Unserved
<1>7. CASE Register
  <2>1. aborted' = aborted /\ \A t \in Tracks : t # hand => watch'[t] = watch[t]
    BY <1>2, <1>7 DEF Register, Typed
  <2>2. hand \notin aborted
    BY <1>2, <1>7, Decided DEF PendingOnce
  <2> QED BY <1>2, <2>1, <2>2 DEF Unserved
<1>8. ASSUME NEW t \in Tracks, Unused(t) \/ DropIdle(t) PROVE Unserved'
  <2>1. /\ aborted' = aborted /\ watch[t].state # "none"
        /\ \A u \in Tracks : u # t => watch'[u] = watch[u]
    BY <1>2, <1>8 DEF Unused, DropIdle, Typed
  <2> QED BY <1>2, <2>1 DEF Unserved
<1> QED BY <1>3, <1>4, <1>5, <1>6, <1>7, <1>8, Kept

(* Where a client stands, once nobody starves: the place of its track is   *)
(* decided by the queue and the routing map alone.                         *)
Settled(c) ==
  LET t == on[c] IN
  IF t = NoTrack THEN Promise!Away
  ELSE IF Pending(t) THEN Promise!Waiting(name[t])
  ELSE IF active[name[t]].track = t THEN Promise!Fed(name[t])
  ELSE Promise!Ended

LEMMA StandsSettled == SyncInv => \A c \in Clients : Stands(c) = Settled(c)
<1> SUFFICES ASSUME SyncInv, NEW c \in Clients PROVE Stands(c) = Settled(c)
  OBVIOUS
<1>1. Typed /\ PendingOnce /\ Materialized /\ Unserved /\ NeverStarved
  BY SharedRouted DEF SyncInv, IInv, CapInv
<1>2. CASE on[c] = NoTrack
  BY <1>2 DEF Stands, Settled, Promise!Away
<1>3. CASE on[c] # NoTrack
  <2>1. on[c] \in Tracks /\ name[on[c]] \in Names
    BY <1>1, <1>3, Facts
  <2>2. CASE Pending(on[c])
    BY <1>3, <2>2 DEF Stands, Settled, Promise!Waiting
  <2>3. CASE ~Pending(on[c]) /\ active[name[on[c]]].track = on[c]
    <3>1. Alive(on[c])
      BY <1>1, <1>3, <2>1, <2>3 DEF Materialized, NoEntry
    <3>2. on[c] \notin aborted
      BY <1>1, <3>1 DEF Unserved, Alive
    <3>3. IsOpen(on[c])
      BY <3>1, <3>2 DEF IsOpen, Alive
    <3> QED BY <1>3, <2>3, <3>3 DEF Stands, Settled, Promise!Fed
  <2>4. CASE ~Pending(on[c]) /\ active[name[on[c]]].track # on[c]
    <3>1. ~IsOpen(on[c])
      BY <1>1, <1>3, <2>4 DEF NeverStarved
    <3> QED BY <1>3, <2>4, <3>1 DEF Stands, Settled, Promise!Ended
  <2> QED BY <2>2, <2>3, <2>4
<1> QED BY <1>2, <1>3

(* What the promise asks of a client, in terms of its track: it waits for  *)
(* a name when its track is pending, and is fed with one when the routing  *)
(* map has its track.                                                      *)
LEMMA Places ==
  ASSUME SyncInv, NEW c \in Clients
  PROVE  /\ Settled(c) = Promise!Away <=> on[c] = NoTrack
         /\ \A n \in Names :
              Settled(c) = Promise!Waiting(n) <=>
                on[c] # NoTrack /\ Pending(on[c]) /\ name[on[c]] = n
         /\ \A n \in Names :
              Settled(c) = Promise!Fed(n) <=> on[c] # NoTrack /\ active[n].track = on[c]
         /\ on[c] # NoTrack /\ ~Pending(on[c]) =>
              Settled(c).stage \in {"fed", "ended"}
<1> USE DEF Promise!Away, Promise!Waiting, Promise!Fed, Promise!Ended
<1>1. Typed /\ PendingOnce /\ Materialized
  BY DEF SyncInv, IInv, CapInv
<1>2. ASSUME NEW n \in Names, on[c] # NoTrack, active[n].track = on[c]
      PROVE  name[on[c]] = n /\ ~Pending(on[c])
  <2>1. active[n] # NoEntry
    BY <1>2 DEF NoEntry
  <2>2. name[on[c]] = n /\ Alive(on[c]) /\ on[c] \in Tracks
    BY <1>1, <1>2, <2>1, Facts DEF Materialized
  <2> QED BY <1>1, <2>2 DEF PendingOnce, Alive
<1>3. Settled(c) = Promise!Away <=> on[c] = NoTrack
  BY DEF Settled
<1>4. ASSUME NEW n \in Names
      PROVE  Settled(c) = Promise!Waiting(n) <=>
               on[c] # NoTrack /\ Pending(on[c]) /\ name[on[c]] = n
  BY DEF Settled
<1>5. ASSUME NEW n \in Names
      PROVE  Settled(c) = Promise!Fed(n) <=> on[c] # NoTrack /\ active[n].track = on[c]
  BY <1>2 DEF Settled
<1>6. on[c] # NoTrack /\ ~Pending(on[c]) => Settled(c).stage \in {"fed", "ended"}
  BY DEF Settled
<1> QED BY <1>3, <1>4, <1>5, <1>6

(* All who wait for a name or are fed with it are on one track, the one    *)
(* the lookup has.                                                         *)
LEMMA Together ==
  ASSUME SyncInv, NEW c \in Clients, NEW n \in Names, on[c] # NoTrack,
         (Pending(on[c]) /\ name[on[c]] = n) \/ active[n].track = on[c]
  PROVE  lookup[n] = on[c] /\ IsOpen(on[c]) /\ on[c] \in Tracks
<1>1. Typed /\ PendingOnce /\ Materialized /\ Shared /\ Unserved
  BY DEF SyncInv, IInv, CapInv
<1>2. on[c] \in Tracks
  BY <1>1, Facts
<1>3. name[on[c]] = n /\ on[c] \notin aborted /\ (Pending(on[c]) \/ Alive(on[c]))
  <2>1. CASE Pending(on[c]) /\ name[on[c]] = n
    BY <1>1, <1>2, <2>1 DEF PendingOnce
  <2>2. CASE active[n].track = on[c]
    <3>1. active[n] # NoEntry
      BY <2>2 DEF NoEntry
    <3>2. name[on[c]] = n /\ Alive(on[c])
      BY <1>1, <2>2, <3>1 DEF Materialized
    <3> QED BY <1>1, <3>2 DEF Unserved, Alive
  <2> QED BY <2>1, <2>2
<1>4. IsOpen(on[c])
  BY <1>3 DEF IsOpen, Alive
<1> QED BY <1>1, <1>2, <1>3, <1>4 DEF Shared

(* What a step that leaves the routing map does to the served accounts,    *)
(* and to the idle ones if it leaves the watchers as well.                 *)
LEMMA ServedSame ==
  ASSUME active' = active
  PROVE  Served' = Served /\ (watch' = watch => IdleServed' = IdleServed)
BY DEF Served, IdleServed

(* A client whose track stays what it is and where it is stands where it   *)
(* stood.                                                                  *)
LEMMA SettledSame ==
  ASSUME NEW c, NEW t, on[c] = t, on'[c] = t, Pending(t)' <=> Pending(t),
         t # NoTrack => name'[t] = name[t]
                        /\ (active'[name[t]].track = t <=> active[name[t]].track = t)
  PROVE  Settled(c)' = Settled(c)
<1>1. Pending(on[c])' <=> Pending(t)'
  BY DEF Pending
<1> QED BY <1>1 DEF Settled, Promise!Away, Promise!Waiting, Promise!Fed, Promise!Ended

(* What is proved of each step below, of the state before and after it.    *)
Agree == \A c \in Clients : Stands(c) = Settled(c)

Around == SyncInv /\ SyncInv' /\ Agree /\ Agree'

LEMMA AroundFacts ==
  ASSUME Around
  PROVE  /\ Typed /\ Typed' /\ PendingOnce /\ Materialized /\ Materialized' /\ Named
         /\ Shared /\ Wanted /\ Routed /\ Unserved /\ SyncInv
         /\ \A c \in Clients : Stands(c) = Settled(c) /\ Stands(c)' = Settled(c)'
BY DEF Around, Agree, SyncInv, IInv, CapInv

(* Steps that the promise hides: those that leave every subscription, the  *)
(* queue but for its order, and the routing map.                           *)
LEMMA HiddenStep ==
  ASSUME Around, UNCHANGED <<name, on, active>>, IdleServed' = IdleServed,
         \A t \in Tracks : Pending(t)' <=> Pending(t)
  PROVE  UNCHANGED <<[c \in Clients |-> Stands(c)], Served, IdleServed>>
<1>1. ASSUME NEW c \in Clients PROVE Settled(c)' = Settled(c)
  <2> SUFFICES ASSUME NEW t, t = on[c] PROVE Settled(c)' = Settled(c)
    OBVIOUS
  <2>1. CASE t = NoTrack
    BY <2>1 DEF Settled, Promise!Away
  <2>2. CASE t # NoTrack
    <3>1. t \in Tracks
      BY <2>2, Facts, AroundFacts
    <3> QED BY <3>1, SettledSame
  <2> QED BY <2>1, <2>2
<1>2. \A c \in Clients : Stands(c)' = Stands(c)
  BY <1>1, AroundFacts
<1> QED BY <1>2, ServedSame

(* A subscription that makes a track asks for its name.                    *)
LEMMA RequestAsks ==
  ASSUME Around, NEW d \in Clients, NEW n \in Names, Subscribe(d, n), Request(d, n)
  PROVE  Promise!Ask(d, n)
<1> USE DEF net, counters
<1>1. /\ name' = [name EXCEPT ![made + 1] = n] /\ on' = [on EXCEPT ![d] = made + 1]
      /\ made \in Nat /\ made + 1 \in Tracks /\ on[d] = NoTrack
      /\ UNCHANGED <<hand, active, watch>>
  BY AroundFacts, Requested DEF Subscribe
<1>2. name \in [Tracks -> Names] /\ on \in [Clients -> 0 .. made]
  BY AroundFacts DEF Typed
<1>3. Stands(d) = Promise!Away
  BY <1>1, AroundFacts, Places
<1>4. ASSUME NEW c \in Clients PROVE Stands(c) # Promise!Fed(n)
  <2> SUFFICES ASSUME on[c] # NoTrack, active[n].track = on[c] PROVE FALSE
    BY AroundFacts, Places
  <2>1. lookup[n] = on[c] /\ IsOpen(lookup[n])
    BY AroundFacts, Together
  <2> QED BY <2>1 DEF Request
<1>5. Stands(d)' = Promise!Waiting(n)
  <2> SUFFICES ASSUME NEW t, t = made + 1 PROVE Settled(d)' = Promise!Waiting(n)
    BY AroundFacts
  <2>1. Pending(t)'
    BY <1>1, AroundFacts, PendingRequest
  <2>2. on'[d] = t /\ t # NoTrack /\ name'[t] = n
    BY <1>1, <1>2 DEF NoTrack
  <2>3. Pending(on[d])' <=> Pending(t)'
    BY <2>2 DEF Pending
  <2> QED BY <2>1, <2>2, <2>3 DEF Settled, Promise!Waiting
<1>6. ASSUME NEW c \in Clients, c # d PROVE Stands(c)' = Stands(c)
  <2> SUFFICES ASSUME NEW t, t = on[c] PROVE Settled(c)' = Settled(c)
    BY AroundFacts
  <2>1. on'[c] = t /\ t # made + 1
    BY <1>1, <1>2, <1>6
  <2>2. CASE t = NoTrack
    BY <2>1, <2>2 DEF Settled, Promise!Away
  <2>3. CASE t # NoTrack
    <3>1. t \in Tracks
      BY <2>3, Facts, AroundFacts
    <3>2. Pending(t)' <=> Pending(t)
      BY <1>1, <2>1, <3>1, AroundFacts, PendingRequest
    <3>3. name'[t] = name[t]
      BY <1>1, <1>2, <2>1, <3>1
    <3> QED BY <1>1, <2>1, <3>2, <3>3, SettledSame
  <2> QED BY <2>2, <2>3
<1>7. UNCHANGED <<Served, IdleServed>>
  BY <1>1, ServedSame
<1> QED BY <1>3, <1>4, <1>5, <1>6, <1>7 DEF Promise!Ask

(* One that shares a track that is pending waits with the others; one that *)
(* shares a registered track joins them.                                   *)
LEMMA ShareJoins ==
  ASSUME Around, NEW d \in Clients, NEW n \in Names, Subscribe(d, n), Share(d, n)
  PROVE  Promise!Ask(d, n) \/ Promise!Join(d, n)
<1> USE DEF net, counters
<1> SUFFICES ASSUME NEW t, t = lookup[n]
             PROVE  Promise!Ask(d, n) \/ Promise!Join(d, n)
  OBVIOUS
<1>1. /\ t # NoTrack /\ IsOpen(t) /\ on' = [on EXCEPT ![d] = t] /\ on[d] = NoTrack
      /\ UNCHANGED <<name, lookup, requests, hand, active, watch>>
  BY DEF Subscribe, Share
<1>2. /\ on \in [Clients -> 0 .. made] /\ t \in Tracks /\ name[t] = n
  <2>1. t \in Tracks
    BY <1>1, AroundFacts, Facts
  <2> QED BY <1>1, <2>1, AroundFacts DEF Typed, Named
<1>3. Stands(d) = Promise!Away
  BY <1>1, AroundFacts, Places
<1>4. \A u : Pending(u)' <=> Pending(u)
  BY <1>1, PendingSame
<1>5. ASSUME NEW c \in Clients, c # d PROVE Stands(c)' = Stands(c)
  <2> SUFFICES ASSUME NEW u, u = on[c] PROVE Settled(c)' = Settled(c)
    BY AroundFacts
  <2>1. on'[c] = u
    BY <1>1, <1>2, <1>5
  <2> QED BY <1>1, <1>4, <2>1, SettledSame
<1>6. UNCHANGED <<Served, IdleServed>>
  BY <1>1, ServedSame
<1>7. on'[d] = t /\ (Pending(on[d])' <=> Pending(t)')
  BY <1>1, <1>2 DEF Pending
<1>8. CASE Pending(t)
  <2>1. watch[t].state = "none"
    BY <1>2, <1>8, AroundFacts DEF PendingOnce
  <2>2. ASSUME NEW c \in Clients PROVE Stands(c) # Promise!Fed(n)
    <3> SUFFICES ASSUME on[c] # NoTrack, active[n].track = on[c] PROVE FALSE
      BY AroundFacts, Places
    <3>1. on[c] = t
      BY AroundFacts, Together
    <3>2. active[n] # NoEntry
      BY DEF NoEntry
    <3> QED BY <2>1, <3>1, <3>2, AroundFacts DEF Materialized, Alive
  <2>3. Stands(d)' = Promise!Waiting(n)
    BY <1>1, <1>2, <1>4, <1>7, <1>8, AroundFacts DEF Settled, Promise!Waiting
  <2>4. Promise!Ask(d, n)
    BY <1>3, <1>5, <1>6, <2>2, <2>3 DEF Promise!Ask
  <2> QED BY <2>4
<1>9. CASE ~Pending(t)
  <2>1. active[n].track = t
    <3>1. Alive(t)
      BY <1>1, <1>2, <1>9, AroundFacts, OpenIff
    <3> QED BY <1>2, <3>1, AroundFacts DEF Routed
  <2>2. n \in Served
    BY <1>1, <2>1 DEF Served, NoEntry
  <2>3. ASSUME NEW c \in Clients PROVE Stands(c) # Promise!Waiting(n)
    <3> SUFFICES ASSUME on[c] # NoTrack, Pending(on[c]), name[on[c]] = n PROVE FALSE
      BY AroundFacts, Places
    <3>1. on[c] = t
      BY AroundFacts, Together
    <3> QED BY <1>9, <3>1
  <2>4. Stands(d)' = Promise!Fed(n)
    BY <1>1, <1>2, <1>4, <1>7, <1>9, <2>1, AroundFacts DEF Settled, Promise!Fed
  <2>5. Promise!Join(d, n)
    BY <1>3, <1>5, <1>6, <2>2, <2>3, <2>4 DEF Promise!Join
  <2> QED BY <2>5
<1> QED BY <1>8, <1>9

(* Nobody leaves before being answered.                                    *)
LEMMA LeaveLeaves ==
  ASSUME Races = {}, Around, NEW d \in Clients, Leave(d) \/ TrackEnded(d)
  PROVE  Promise!Leave(d)
<1> USE DEF net, counters
<1>1. /\ on[d] # NoTrack /\ on' = [on EXCEPT ![d] = NoTrack]
      /\ UNCHANGED <<name, requests, hand, active, watch>>
  BY DEF Leave, TrackEnded
<1>2. ~Pending(on[d])
  <2>1. CASE Leave(d)
    BY <2>1 DEF Leave
  <2>2. CASE TrackEnded(d)
    <3>1. on[d] \in Tracks
      BY <1>1, AroundFacts, Facts
    <3> QED BY <2>2, <3>1, AroundFacts DEF TrackEnded, IsOpen, PendingOnce
  <2> QED BY <2>1, <2>2
<1>3. Stands(d).stage \in {"fed", "ended"}
  BY <1>1, <1>2, AroundFacts, Places
<1>4. on \in [Clients -> 0 .. made] /\ \A u : Pending(u)' <=> Pending(u)
  BY <1>1, AroundFacts, PendingSame DEF Typed
<1>5. Stands(d)' = Promise!Away
  BY <1>1, <1>4, AroundFacts DEF Settled, Promise!Away
<1>6. ASSUME NEW c \in Clients, c # d PROVE Stands(c)' = Stands(c)
  <2> SUFFICES ASSUME NEW u, u = on[c] PROVE Settled(c)' = Settled(c)
    BY AroundFacts
  <2>1. on'[c] = u
    BY <1>1, <1>4, <1>6
  <2> QED BY <1>1, <1>4, <2>1, SettledSame
<1>7. UNCHANGED <<Served, IdleServed>>
  BY <1>1, ServedSame
<1> QED BY <1>3, <1>5, <1>6, <1>7 DEF Promise!Leave

(* The track the router decides on is the one everybody who waits for its  *)
(* name is on, and somebody is.                                            *)
LEMMA WaitersTogether ==
  ASSUME SyncInv, hand # NoTrack
  PROVE  /\ hand \in Tracks /\ name[hand] \in Names /\ Pending(hand)
         /\ lookup[name[hand]] = hand /\ \E c \in Clients : on[c] = hand
         /\ \A c \in Clients :
              on[c] # NoTrack /\ Pending(on[c]) /\ name[on[c]] = name[hand] <=> on[c] = hand
<1>1. hand \in Tracks /\ name[hand] \in Names /\ Pending(hand)
  BY Facts DEF Pending, SyncInv, IInv, CapInv
<1>2. PICK d \in Clients : on[d] = hand
  BY <1>1 DEF SyncInv, IInv, Wanted
<1>3. lookup[name[hand]] = hand
  BY <1>1, <1>2, Together
<1>4. ASSUME NEW c \in Clients, on[c] # NoTrack, Pending(on[c]), name[on[c]] = name[hand]
      PROVE  on[c] = hand
  BY <1>1, <1>3, <1>4, Together
<1> QED BY <1>1, <1>2, <1>3, <1>4

(* The promise counts as the router does.                                  *)
LEMMA SameCount == \A S : Promise!Cardinality(S) = Cardinality(S)
BY DEF Promise!Cardinality, Cardinality

(* A refusal tells everybody who waits for the name.                       *)
LEMMA RefusalDeclines ==
  ASSUME Around, Reject \/ Refuse
  PROVE  Promise!Decline(name[hand])
<1> USE DEF net, counters
<1> SUFFICES ASSUME NEW h, h = hand, NEW n, n = name[hand] PROVE Promise!Decline(n)
  OBVIOUS
<1>1. /\ hand # NoTrack
      /\ n \notin Dids \/ Cardinality(Served) >= MaxTracks
      /\ aborted' = aborted \cup {h} /\ UNCHANGED <<name, on, active, watch>>
  BY DEF Reject, Refuse, IsDid, AtCap
<1>2. /\ h \in Tracks /\ n \in Names /\ Pending(h)
      /\ \E c \in Clients : on[c] = h
      /\ \A c \in Clients : on[c] # NoTrack /\ Pending(on[c]) /\ name[on[c]] = n <=> on[c] = h
  BY <1>1, AroundFacts, WaitersTogether
<1>3. \A c \in Clients : Stands(c) = Promise!Waiting(n) <=> on[c] = h
  BY <1>2, AroundFacts, Places
<1>4. \A t \in Tracks : Pending(t)' <=> Pending(t) /\ t # h
  BY AroundFacts, PendingDecided
<1>5. ASSUME NEW c \in Clients, on[c] = h PROVE Stands(c)' = Promise!Ended
  <2>1. on'[c] = h /\ h # NoTrack /\ ~Pending(h)'
    BY <1>1, <1>2, <1>4, <1>5
  <2>2. ~Pending(on[c])'
    BY <2>1 DEF Pending
  <2>3. active'[name'[h]].track # h
    <3>1. watch[h].state = "none"
      BY <1>2, AroundFacts DEF PendingOnce
    <3>2. active[n].track = h => active[n] # NoEntry
      BY <1>1 DEF NoEntry
    <3> QED BY <1>1, <1>2, <3>1, <3>2, AroundFacts DEF Materialized, Alive
  <2> QED BY <2>1, <2>2, <2>3, AroundFacts DEF Settled, Promise!Ended
<1>6. ASSUME NEW c \in Clients, on[c] # h PROVE Stands(c)' = Stands(c)
  <2> SUFFICES ASSUME NEW u, u = on[c] PROVE Settled(c)' = Settled(c)
    BY AroundFacts
  <2>1. CASE u = NoTrack
    BY <1>1, <2>1 DEF Settled, Promise!Away
  <2>2. CASE u # NoTrack
    <3>1. u \in Tracks
      BY <2>2, Facts, AroundFacts
    <3>2. Pending(u)' <=> Pending(u)
      BY <1>4, <1>6, <3>1
    <3> QED BY <1>1, <3>2, SettledSame
  <2> QED BY <2>1, <2>2
<1>7. UNCHANGED <<Served, IdleServed>>
  BY <1>1, ServedSame
<1> QED BY <1>1, <1>2, <1>3, <1>5, <1>6, <1>7, SameCount DEF Promise!Decline, Promise!Becomes

(* A registration serves everybody who waits for the name, and nobody was  *)
(* left on an entry it replaces.                                           *)
LEMMA RegisterServes ==
  ASSUME Around, Register
  PROVE  Promise!Serve(name[hand])
<1> USE DEF net, counters
<1> SUFFICES ASSUME NEW h, h = hand, NEW n, n = name[hand] PROVE Promise!Serve(n)
  OBVIOUS
<1>1. /\ hand # NoTrack /\ n \in Dids /\ ~AtCap /\ UNCHANGED <<name, on>>
      /\ active' = [active EXCEPT ![n] = [track |-> h, generation |-> nextGen]]
      /\ watch' = [watch EXCEPT ![h] = [state |-> "watching", generation |-> nextGen]]
  BY DEF Register, IsDid
<1>2. /\ h \in Tracks /\ n \in Names /\ Pending(h) /\ lookup[n] = h
      /\ \E c \in Clients : on[c] = h
      /\ \A c \in Clients : on[c] # NoTrack /\ Pending(on[c]) /\ name[on[c]] = n <=> on[c] = h
  BY <1>1, AroundFacts, WaitersTogether
<1>3. \A c \in Clients : Stands(c) = Promise!Waiting(n) <=> on[c] = h
  BY <1>2, AroundFacts, Places
<1>4. \A t \in Tracks : Pending(t)' <=> Pending(t) /\ t # h
  BY AroundFacts, PendingDecided
<1>5. /\ active'[n] = [track |-> h, generation |-> nextGen] /\ h # NoTrack
      /\ \A d \in Names : d # n => active'[d] = active[d]
      /\ watch'[h].state = "watching" /\ \A u \in Tracks : u # h => watch'[u] = watch[u]
  BY <1>1, <1>2, AroundFacts DEF Typed
<1>6. watch[h].state = "none" /\ \A d \in Names : active[d].track # h
  <2>1. watch[h].state = "none"
    BY <1>2, AroundFacts DEF PendingOnce
  <2>2. \A d \in Names : active[d].track = h => active[d] # NoEntry
    BY <1>5 DEF NoEntry
  <2> QED BY <2>1, <2>2, AroundFacts DEF Materialized, Alive
<1>7. ASSUME NEW c \in Clients, on[c] = h PROVE Stands(c)' = Promise!Fed(n)
  <2>1. on'[c] = h /\ ~Pending(h)' /\ name'[h] = n
    BY <1>1, <1>2, <1>4, <1>7
  <2>2. ~Pending(on[c])'
    BY <2>1 DEF Pending
  <2> QED BY <1>5, <2>1, <2>2, AroundFacts DEF Settled, Promise!Fed
<1>8. ASSUME NEW c \in Clients, on[c] # h PROVE Stands(c)' = Stands(c)
  <2> SUFFICES ASSUME NEW u, u = on[c] PROVE Settled(c)' = Settled(c)
    BY AroundFacts
  <2>1. CASE u = NoTrack
    BY <1>1, <2>1 DEF Settled, Promise!Away
  <2>2. CASE u # NoTrack
    <3>1. u \in Tracks /\ name[u] \in Names
      BY <2>2, Facts, AroundFacts
    <3>2. Pending(u)' <=> Pending(u)
      BY <1>4, <1>8, <3>1
    <3>3. active'[name[u]].track = u <=> active[name[u]].track = u
      <4>1. CASE name[u] # n
        BY <1>5, <3>1, <4>1
      <4>2. CASE name[u] = n
        <5>1. active[n].track # u
          BY <1>2, <1>8, <2>2, AroundFacts, Together
        <5> QED BY <1>5, <1>8, <4>2, <5>1
      <4> QED BY <4>1, <4>2
    <3> QED BY <1>1, <3>2, <3>3, SettledSame
  <2> QED BY <2>1, <2>2
<1>9. Served' = Served \cup {n}
  BY <1>2, <1>5 DEF Served, NoEntry
<1>10. IdleServed' = IdleServed \ {n}
  <2>1. ASSUME NEW d \in Served, d # n PROVE watch'[active'[d].track] = watch[active[d].track]
    <3>1. d \in Names /\ active'[d] = active[d] /\ active[d].track # h
      BY <1>5, <1>6, <2>1 DEF Served
    <3>2. active[d].track \in Tracks
      BY <2>1, AroundFacts, Facts DEF Served, Materialized
    <3> QED BY <1>5, <3>1, <3>2
  <2> QED BY <1>5, <1>9, <2>1 DEF IdleServed
<1>11. Cardinality(Served) < MaxTracks
  <2>1. IsFiniteSet(Served) /\ MaxTracks \in Nat
    BY RouterAssumption, AroundFacts DEF SyncInv, IInv, CapInv, Counted
  <2> QED BY <1>1, <2>1, FS_CardinalityType DEF AtCap
<1> QED BY <1>1, <1>2, <1>3, <1>7, <1>8, <1>9, <1>10, <1>11, SameCount
        DEF Promise!Serve, Promise!Becomes

(* The watcher of a track is the one of its account's entry exactly when   *)
(* the generations agree.                                                  *)
LEMMA OwnEntry ==
  ASSUME Typed, Materialized, NEW t \in Tracks, watch[t].state # "none"
  PROVE  /\ SameMaterialization(t) <=> active[name[t]].track = t
         /\ \A d \in Names : active[d].track = t => d = name[t] /\ d \in Served
<1>1. t # NoTrack /\ name[t] \in Names
  BY SMTT(40) DEF Typed, Tracks, NoTrack
<1>2. ASSUME NEW d \in Names, active[d].track = t PROVE d = name[t] /\ d \in Served
  <2>1. active[d] # NoEntry
    BY <1>1, <1>2 DEF NoEntry
  <2> QED BY <1>2, <2>1 DEF Materialized, Served
<1>3. ASSUME active[name[t]].track = t PROVE SameMaterialization(t)
  <2>1. active[name[t]] # NoEntry
    BY <1>1, <1>3 DEF NoEntry
  <2> QED BY <1>1, <1>3, <2>1 DEF Materialized, SameMaterialization
<1>4. ASSUME SameMaterialization(t) PROVE active[name[t]].track = t
  <2> SUFFICES ASSUME NEW u, u = active[name[t]].track PROVE u = t
    OBVIOUS
  <2>1. active[name[t]] # NoEntry /\ active[name[t]].generation = watch[t].generation
    BY <1>4 DEF SameMaterialization
  <2>2. u # NoTrack /\ Alive(u) /\ watch[u].generation = watch[t].generation
    BY <1>1, <2>1 DEF Materialized
  <2>3. u \in Tracks /\ watch[u].state # "none"
    BY <1>1, <2>2, Facts DEF Alive
  <2> QED BY <2>2, <2>3 DEF Materialized
<1> QED BY <1>2, <1>3, <1>4

(* A watcher that finds its track without subscribers finds the account so *)
(* if the track is the one that is served.                                 *)
LEMMA UnusedWatchless ==
  ASSUME Around, NEW t \in Tracks, Unused(t)
  PROVE  \/ Promise!Watchless(name[t])
         \/ UNCHANGED <<[c \in Clients |-> Stands(c)], Served, IdleServed>>
<1> USE DEF net, counters
<1> SUFFICES ASSUME NEW n, n = name[t]
             PROVE  \/ Promise!Watchless(n)
                    \/ UNCHANGED <<[c \in Clients |-> Stands(c)], Served, IdleServed>>
  OBVIOUS
<1>1. /\ watch[t].state = "watching" /\ Consumers(t) = {}
      /\ watch' = [watch EXCEPT ![t].state = "idle"]
      /\ UNCHANGED <<name, on, requests, hand, active>>
  BY DEF Unused
<1>2. /\ watch'[t].state = "idle" /\ \A u \in Tracks : u # t => watch'[u] = watch[u]
      /\ n \in Names
  BY <1>1, AroundFacts DEF Typed
<1>3. \A u : Pending(u)' <=> Pending(u)
  BY <1>1, PendingSame
<1>4. \A d \in Names : active[d].track = t => d = n /\ d \in Served
  BY <1>1, AroundFacts, OwnEntry
<1>5. Served' = Served
  BY <1>1, ServedSame
<1>6. ASSUME NEW c \in Clients PROVE Stands(c)' = Stands(c)
  <2> SUFFICES ASSUME NEW u, u = on[c] PROVE Settled(c)' = Settled(c)
    BY AroundFacts
  <2> QED BY <1>1, <1>3, SettledSame
<1>7. \A d \in Served : active[d].track \in Tracks
  BY AroundFacts, Facts DEF Served, Materialized
<1>8. CASE active[n].track = t
  <2>1. n \in Served
    BY <1>2, <1>4, <1>8
  <2>2. \A d \in Served : d # n => active[d].track # t
    BY <1>4 DEF Served
  <2>3. IdleServed' = IdleServed \cup {n}
    BY <1>1, <1>2, <1>5, <1>7, <1>8, <2>1, <2>2 DEF IdleServed
  <2>4. ASSUME NEW c \in Clients PROVE Stands(c) # Promise!Fed(n)
    <3>1. on[c] # t
      BY <1>1 DEF Consumers
    <3> QED BY <1>2, <1>8, <3>1, AroundFacts, Places
  <2>5. Promise!Watchless(n)
    BY <1>5, <1>6, <2>1, <2>3, <2>4 DEF Promise!Watchless
  <2> QED BY <2>5
<1>9. CASE active[n].track # t
  <2>1. \A d \in Served : active[d].track # t
    BY <1>4, <1>9 DEF Served
  <2>2. IdleServed' = IdleServed
    BY <1>1, <1>2, <1>5, <1>7, <2>1 DEF IdleServed
  <2> QED BY <1>5, <1>6, <2>2
<1> QED BY <1>8, <1>9

(* A watcher drops the account it watched, and only one that had been      *)
(* found without subscribers; those that joined since are told.            *)
LEMMA DropIdleDrops ==
  ASSUME Around, NEW t \in Tracks, DropIdle(t)
  PROVE  \/ Promise!Drop(name[t])
         \/ UNCHANGED <<[c \in Clients |-> Stands(c)], Served, IdleServed>>
<1> USE DEF net, counters
<1> SUFFICES ASSUME NEW n, n = name[t]
             PROVE  \/ Promise!Drop(n)
                    \/ UNCHANGED <<[c \in Clients |-> Stands(c)], Served, IdleServed>>
  OBVIOUS
<1>1. /\ watch[t].state = "idle" /\ watch' = [watch EXCEPT ![t].state = "done"]
      /\ UNCHANGED <<name, on, requests, hand>>
      /\ IF SameMaterialization(t) THEN active' = [active EXCEPT ![n] = NoEntry]
                                   ELSE active' = active
  BY DEF DropIdle
<1>2. /\ watch'[t].state = "done" /\ \A u \in Tracks : u # t => watch'[u] = watch[u]
      /\ n \in Names /\ t # NoTrack
  BY <1>1, AroundFacts DEF Typed, Tracks, NoTrack
<1>3. \A u : Pending(u)' <=> Pending(u)
  BY <1>1, PendingSame
<1>4. /\ SameMaterialization(t) <=> active[n].track = t
      /\ \A d \in Names : active[d].track = t => d = n /\ d \in Served
  BY <1>1, AroundFacts, OwnEntry
<1>5. \A d \in Served : active[d].track \in Tracks
  BY AroundFacts, Facts DEF Served, Materialized
<1>6. CASE SameMaterialization(t)
  <2>1. /\ active[n].track = t /\ n \in Served
        /\ active'[n] = NoEntry /\ \A d \in Names : d # n => active'[d] = active[d]
    BY <1>1, <1>2, <1>4, <1>6, AroundFacts DEF Typed
  <2>2. n \in IdleServed
    BY <1>1, <2>1 DEF IdleServed
  <2>3. Served' = Served \ {n}
    BY <2>1 DEF Served
  <2>4. IdleServed' = IdleServed \ {n}
    <3>1. ASSUME NEW d \in Served, d # n
          PROVE  watch'[active'[d].track] = watch[active[d].track]
      <4>1. d \in Names /\ active'[d] = active[d] /\ active[d].track # t
        BY <1>4, <2>1, <3>1 DEF Served
      <4> QED BY <1>2, <1>5, <4>1
    <3> QED BY <2>3, <3>1 DEF IdleServed
  <2>5. \A c \in Clients : Stands(c) = Promise!Fed(n) <=> on[c] = t
    BY <1>2, <2>1, AroundFacts, Places
  <2>6. ASSUME NEW c \in Clients, on[c] = t PROVE Stands(c)' = Promise!Ended
    <3>1. ~Pending(t)'
      BY <1>1, <1>3, AroundFacts DEF PendingOnce
    <3>2. on'[c] = t /\ ~Pending(on[c])'
      BY <1>1, <2>6, <3>1 DEF Pending
    <3>3. active'[name'[t]].track # t
      BY <1>1, <1>2, <2>1 DEF NoEntry
    <3> QED BY <1>2, <3>2, <3>3, AroundFacts DEF Settled, Promise!Ended
  <2>7. ASSUME NEW c \in Clients, on[c] # t PROVE Stands(c)' = Stands(c)
    <3> SUFFICES ASSUME NEW u, u = on[c] PROVE Settled(c)' = Settled(c)
      BY AroundFacts
    <3>1. CASE u = NoTrack
      BY <1>1, <3>1 DEF Settled, Promise!Away
    <3>2. CASE u # NoTrack
      <4>1. name[u] \in Names
        BY <3>2, Facts, AroundFacts
      <4>2. active'[name[u]].track = u <=> active[name[u]].track = u
        BY <2>1, <2>7, <3>2, <4>1 DEF NoEntry
      <4> QED BY <1>1, <1>3, <4>2, SettledSame
    <3> QED BY <3>1, <3>2
  <2>8. Promise!Drop(n)
    BY <2>2, <2>3, <2>4, <2>5, <2>6, <2>7 DEF Promise!Drop, Promise!Becomes
  <2> QED BY <2>8
<1>7. CASE ~SameMaterialization(t)
  <2>1. active' = active /\ \A d \in Served : active[d].track # t
    BY <1>1, <1>4, <1>7 DEF Served
  <2>2. Served' = Served
    BY <2>1, ServedSame
  <2>3. IdleServed' = IdleServed
    BY <1>2, <1>5, <2>1, <2>2 DEF IdleServed
  <2> QED BY <1>1, <1>3, <2>1, <2>3, HiddenStep
<1> QED BY <1>6, <1>7

(* Every step keeps the promise.                                           *)
LEMMA StepKeepsPromise ==
  ASSUME Races = {}, Around, [Next]_vars
  PROVE  [Promise!SyncNext]_<<[c \in Clients |-> Stands(c)], Served, IdleServed>>
<1> USE DEF net, counters, Promise!SyncNext
<1>1. ASSUME NEW c \in Clients, NEW n \in Names, Subscribe(c, n) PROVE Promise!SyncNext
  <2>1. CASE Share(c, n)
    BY <1>1, <2>1, ShareJoins
  <2>2. CASE Request(c, n)
    BY <1>1, <2>2, RequestAsks
  <2> QED BY <1>1, <2>1, <2>2 DEF Subscribe
<1>2. ASSUME NEW c \in Clients, Leave(c) \/ TrackEnded(c) PROVE Promise!SyncNext
  BY <1>2, LeaveLeaves
<1>3. ASSUME NEW t \in Tracks, NetUnused(t) \/ NetCleanup(t)
      PROVE  UNCHANGED <<[c \in Clients |-> Stands(c)], Served, IdleServed>>
  <2>1. UNCHANGED <<name, on, requests, hand, active, watch>>
    BY <1>3 DEF NetUnused, NetCleanup
  <2> QED BY <2>1, ServedSame, PendingSame, HiddenStep
<1>4. ASSUME NEW t \in Tracks, Unused(t) \/ DropIdle(t)
      PROVE  \/ Promise!SyncNext
             \/ UNCHANGED <<[c \in Clients |-> Stands(c)], Served, IdleServed>>
  <2>1. name[t] \in Names
    BY AroundFacts DEF Typed
  <2> QED BY <1>4, <2>1, UnusedWatchless, DropIdleDrops
<1>5. CASE Take
  <2>1. UNCHANGED <<name, on, active, watch>>
    BY <1>5 DEF Take
  <2>2. \A t \in Tracks : Pending(t)' <=> Pending(t)
    BY <1>5, AroundFacts, PendingTake
  <2> QED BY <2>1, <2>2, ServedSame, HiddenStep
<1>6. CASE Reject \/ Refuse \/ Register
  <2>1. name[hand] \in Names
    BY <1>6, AroundFacts, Decided
  <2> QED BY <1>6, <2>1, RefusalDeclines, RegisterServes
<1>7. CASE UNCHANGED vars
  <2>1. UNCHANGED <<name, on, requests, hand, active, watch>>
    BY <1>7 DEF vars
  <2> QED BY <2>1, ServedSame, PendingSame, HiddenStep
<1> QED BY <1>1, <1>2, <1>3, <1>4, <1>5, <1>6, <1>7 DEF Next, RouterTask

(* Without the two races the router and the dynamic broadcast keep the     *)
(* promise of SelectiveSync.tla: everybody who asks is answered with the   *)
(* others who ask for that account, is fed until it leaves, and is told    *)
(* when the account it joined had been found idle.                         *)
THEOREM RouterImplementsSelectiveSync ==
  ASSUME Races = {}
  PROVE  Spec => ImplementsSelectiveSync
<1>1. Init => SyncInv
  BY InitInv DEF Init, SyncInv, Unserved
<1>2. SyncInv /\ [Next]_vars => SyncInv'
  BY SyncInvNext
<1>3. SyncInv => Agree
  BY StandsSettled DEF Agree
<1>4. Init => Promise!SyncInit
  <2> SUFFICES ASSUME Init PROVE Promise!SyncInit
    OBVIOUS
  <2>1. /\ on = [c \in Clients |-> NoTrack] /\ active = [n \in Names |-> NoEntry]
    BY DEF Init
  <2>2. \A c \in Clients : Stands(c) = Promise!Away
    BY <2>1 DEF Stands, Promise!Away
  <2>3. Served = {} /\ IdleServed = {}
    BY <2>1 DEF Served, IdleServed
  <2> QED BY <2>2, <2>3 DEF Promise!SyncInit
<1>5. SyncInv /\ SyncInv' /\ Agree /\ Agree' /\ [Next]_vars =>
        [Promise!SyncNext]_<<[c \in Clients |-> Stands(c)], Served, IdleServed>>
  BY StepKeepsPromise DEF Around
<1>6. Spec => Promise!SyncSpec
  BY <1>1, <1>2, <1>3, <1>4, <1>5, PTL DEF Spec, Promise!SyncSpec
<1> QED BY <1>6 DEF ImplementsSelectiveSync
=============================================================================
