------------------------------ MODULE DidRouter ------------------------------
(***************************************************************************)
(* Selective sync: per-account tracks made on demand (router.rs) on top of *)
(* moq-net's dynamic broadcast (model/broadcast.rs).  A subscription to a  *)
(* name nobody publishes creates a track and queues a request; the router  *)
(* task takes the request, registers the track in its routing map and      *)
(* feeds it from then on.  Two tasks per track wait for its last           *)
(* subscriber to leave: moq-net's takes it out of the broadcast's lookup,  *)
(* the router's out of the routing map.                                    *)
(*                                                                         *)
(* A track is open while a producer handle to it exists: in the request    *)
(* queue, in the router's hand, in the routing map or in its watcher.      *)
(***************************************************************************)
EXTENDS Integers, Sequences, FiniteSets

CONSTANTS
  Clients,     \* subscribers
  Names,       \* track names they ask for
  Dids,        \* those that are DIDs
  MaxTracks,   \* max_tracks, the cap on served accounts
  MaxMade,     \* bound: tracks created
  Races        \* interleavings allowed: see Subscribe and Leave

ASSUME RouterAssumption ==
  /\ Names # {} /\ Dids \subseteq Names
  /\ MaxTracks \in Nat \ {0} /\ MaxMade \in Nat
  /\ Races \subseteq {"backlog", "cleanup"}

VARIABLES
  made,      \* tracks created so far, numbered 1..made
  name,      \* track -> its name
  on,        \* client -> the track it consumes, or NoTrack
  lookup,    \* the broadcast's weak references: name -> track or NoTrack
  requests,  \* the broadcast's queue of requested tracks
  netWatch,  \* track -> moq-net's clean-up task
  hand,      \* the requested track the router task is working on
  active,    \* the routing map: name -> [track, generation] or NoEntry
  watch,     \* track -> the router's watcher of it
  nextGen,   \* next_generation
  aborted,   \* tracks the router refused
  opened, closed, refused    \* did_tracks_*_total

counters == <<opened, closed, refused>>
net      == <<made, name, lookup, netWatch>>
vars     == <<net, on, requests, hand, active, watch, nextGen, aborted, counters>>

Tracks  == 1 .. MaxMade
NoTrack == 0
NoEntry == [track |-> NoTrack, generation |-> -1]
NoWatch == [state |-> "none", generation |-> -1]

Served == {d \in Names : active[d] # NoEntry}

Consumers(t) == {c \in Clients : on[c] = t}
Pending(t)   == hand = t \/ \E i \in 1 .. Len(requests) : requests[i] = t
IsOpen(t) ==
  /\ t \notin aborted
  /\ Pending(t) \/ (\E d \in Names : active[d].track = t)
                \/ watch[t].state \in {"watching", "idle"}

-----------------------------------------------------------------------------
(* The broadcast: subscribe_track and the end of a subscription.           *)

(* An open track of that name is shared.  The race "cleanup" is a          *)
(* subscription that finds a track in the lookup between the moment its    *)
(* clean-up task saw no consumers and the moment it takes the lock.        *)
Share(c, n) ==
  /\ lookup[n] # NoTrack /\ IsOpen(lookup[n])
  /\ "cleanup" \notin Races => netWatch[lookup[n]] # "idle"
  /\ on' = [on EXCEPT ![c] = lookup[n]]
  /\ UNCHANGED <<net, requests>>

Request(c, n) ==
  /\ lookup[n] = NoTrack \/ ~IsOpen(lookup[n])
  /\ made < MaxMade
  /\ LET t == made + 1 IN
       /\ made' = t
       /\ name' = [name EXCEPT ![t] = n]
       /\ on' = [on EXCEPT ![c] = t]
       /\ lookup' = [lookup EXCEPT ![n] = t]
       /\ requests' = Append(requests, t)
       /\ netWatch' = [netWatch EXCEPT ![t] = "watching"]

Subscribe(c, n) ==
  /\ on[c] = NoTrack
  /\ Share(c, n) \/ Request(c, n)
  /\ UNCHANGED <<hand, active, watch, nextGen, aborted, counters>>

(* The race "backlog" is a subscriber that leaves before the router has    *)
(* come to its request.                                                    *)
Leave(c) ==
  /\ on[c] # NoTrack
  /\ "backlog" \notin Races => ~Pending(on[c])
  /\ on' = [on EXCEPT ![c] = NoTrack]
  /\ UNCHANGED <<net, requests, hand, active, watch, nextGen, aborted, counters>>

(* A closed track ends the subscription with an error.                     *)
TrackEnded(c) ==
  /\ on[c] # NoTrack /\ ~IsOpen(on[c])
  /\ on' = [on EXCEPT ![c] = NoTrack]
  /\ UNCHANGED <<net, requests, hand, active, watch, nextGen, aborted, counters>>

NetUnused(t) ==
  /\ netWatch[t] = "watching" /\ (Consumers(t) = {} \/ ~IsOpen(t))
  /\ netWatch' = [netWatch EXCEPT ![t] = "idle"]
  /\ UNCHANGED <<made, name, lookup, on, requests, hand, active, watch, nextGen,
                 aborted, counters>>

(* The entry goes unless a newer track of that name replaced it.           *)
NetCleanup(t) ==
  /\ netWatch[t] = "idle"
  /\ netWatch' = [netWatch EXCEPT ![t] = "done"]
  /\ lookup' = IF lookup[name[t]] = t THEN [lookup EXCEPT ![name[t]] = NoTrack] ELSE lookup
  /\ UNCHANGED <<made, name, on, requests, hand, active, watch, nextGen, aborted,
                 counters>>

-----------------------------------------------------------------------------
(* The router.                                                             *)

IsDid(n) == n \in Dids

(* requests is a Vec and the newest request is popped first.               *)
Take ==
  /\ hand = NoTrack /\ requests # <<>>
  /\ hand' = requests[Len(requests)]
  /\ requests' = SubSeq(requests, 1, Len(requests) - 1)
  /\ UNCHANGED <<net, on, active, watch, nextGen, aborted, counters>>

Reject ==
  /\ hand # NoTrack /\ ~IsDid(name[hand])
  /\ aborted' = aborted \cup {hand}
  /\ hand' = NoTrack
  /\ UNCHANGED <<net, on, requests, active, watch, nextGen, counters>>

(* Mutant: the cap is checked too late.                                    *)
OverCap == Cardinality(Served) > MaxTracks

AtCap == Cardinality(Served) >= MaxTracks

Refuse ==
  /\ hand # NoTrack /\ IsDid(name[hand]) /\ AtCap
  /\ aborted' = aborted \cup {hand}
  /\ refused' = refused + 1
  /\ nextGen' = nextGen + 1
  /\ hand' = NoTrack
  /\ UNCHANGED <<net, on, requests, active, watch, opened, closed>>

(* The map entry of an earlier track of the same name is replaced.         *)
Register ==
  /\ hand # NoTrack /\ IsDid(name[hand]) /\ ~AtCap
  /\ active' = [active EXCEPT ![name[hand]] = [track |-> hand, generation |-> nextGen]]
  /\ watch' = [watch EXCEPT ![hand] = [state |-> "watching", generation |-> nextGen]]
  /\ nextGen' = nextGen + 1
  /\ opened' = opened + 1
  /\ hand' = NoTrack
  /\ UNCHANGED <<net, on, requests, aborted, closed, refused>>

(* Mutant: the watcher wakes up while the track has subscribers.           *)
WokenEarly(t) ==
  /\ watch[t].state = "watching"
  /\ watch' = [watch EXCEPT ![t].state = "idle"]
  /\ UNCHANGED <<net, on, requests, hand, active, nextGen, aborted, counters>>

Unused(t) ==
  /\ watch[t].state = "watching" /\ Consumers(t) = {}
  /\ watch' = [watch EXCEPT ![t].state = "idle"]
  /\ UNCHANGED <<net, on, requests, hand, active, nextGen, aborted, counters>>

(* Mutant: the generations are not compared.                               *)
AnyMaterialization(t) == active[name[t]] # NoEntry

(* Mutant: the watcher expects the generation after its own.               *)
NextMaterialization(t) ==
  /\ active[name[t]] # NoEntry
  /\ active[name[t]].generation = watch[t].generation + 1

SameMaterialization(t) ==
  /\ active[name[t]] # NoEntry
  /\ active[name[t]].generation = watch[t].generation

(* The watcher ends and drops its own handle as well.                      *)
DropIdle(t) ==
  /\ watch[t].state = "idle"
  /\ watch' = [watch EXCEPT ![t].state = "done"]
  /\ IF SameMaterialization(t)
     THEN active' = [active EXCEPT ![name[t]] = NoEntry] /\ closed' = closed + 1
     ELSE UNCHANGED <<active, closed>>
  /\ UNCHANGED <<net, on, requests, hand, nextGen, aborted, opened, refused>>

Init ==
  /\ made = 0
  /\ name \in [Tracks -> {CHOOSE n \in Names : TRUE}]
  /\ on = [c \in Clients |-> NoTrack]
  /\ lookup = [n \in Names |-> NoTrack]
  /\ requests = <<>> /\ hand = NoTrack
  /\ netWatch = [t \in Tracks |-> "none"]
  /\ active = [n \in Names |-> NoEntry]
  /\ watch = [t \in Tracks |-> NoWatch]
  /\ nextGen = 0 /\ aborted = {}
  /\ opened = 0 /\ closed = 0 /\ refused = 0

RouterTask == Take \/ Reject \/ Refuse \/ Register

Next ==
  \/ \E c \in Clients, n \in Names : Subscribe(c, n)
  \/ \E c \in Clients : Leave(c) \/ TrackEnded(c)
  \/ \E t \in Tracks : NetUnused(t) \/ NetCleanup(t) \/ Unused(t) \/ DropIdle(t)
  \/ RouterTask

(* Every task keeps being polled; nothing is asked of the clients.         *)
Spec ==
  /\ Init /\ [][Next]_vars
  /\ WF_vars(RouterTask)
  /\ \A t \in Tracks : WF_vars(Unused(t) \/ DropIdle(t))

-----------------------------------------------------------------------------
(* Properties.                                                             *)

TypeOK ==
  /\ made \in 0 .. MaxMade
  /\ name \in [Tracks -> Names]
  /\ on \in [Clients -> 0 .. made]
  /\ lookup \in [Names -> 0 .. made]
  /\ \A i \in 1 .. Len(requests) : requests[i] \in 1 .. made
  /\ netWatch \in [Tracks -> {"none", "watching", "idle", "done"}]
  /\ hand \in 0 .. made
  /\ active \in [Names -> [track : 0 .. made, generation : -1 .. MaxMade]]
  /\ watch \in [Tracks -> [state : {"none", "watching", "idle", "done"},
                           generation : -1 .. MaxMade]]
  /\ Served \subseteq Dids /\ Cardinality(Served) <= MaxTracks
  /\ aborted \subseteq 1 .. made
  /\ opened \in 0 .. made /\ closed \in 0 .. opened /\ refused \in 0 .. made

(* Nobody waits on a track that will never receive another frame: the      *)
(* track of a subscriber is closed, or about to be registered, or it is    *)
(* the one its account's frames are routed to.                             *)
NeverStarved ==
  \A c \in Clients : on[c] # NoTrack =>
    \/ ~IsOpen(on[c])
    \/ Pending(on[c])
    \/ active[name[on[c]]].track = on[c]

(* How a subscription stands, in the terms of SelectiveSync.tla, which has *)
(* no word for a subscriber that is starved.                               *)
Stands(c) ==
  LET t == on[c] IN
  IF t = NoTrack                      THEN [stage |-> "away"]
  ELSE IF Pending(t)                  THEN [stage |-> "waiting", name |-> name[t]]
  ELSE IF ~IsOpen(t)                  THEN [stage |-> "ended"]
  ELSE IF active[name[t]].track = t   THEN [stage |-> "fed", name |-> name[t]]
  ELSE [stage |-> "starved"]

IdleServed == {d \in Served : watch[active[d].track].state = "idle"}

(* Without the two races the router keeps the promise of SelectiveSync:    *)
(* each of its steps, and of moq-net's, is a step of that module or hidden *)
(* by it.  Subscribers of one account are served together, each is         *)
(* answered, and a drop ends only those that joined a dying track.         *)
Promise == INSTANCE SelectiveSync WITH
  sub <- [c \in Clients |-> Stands(c)], live <- Served, unwatched <- IdleServed
ImplementsSelectiveSync == Promise!SyncSpec

(* A track nobody watches any more leaves the routing map.                 *)
IdleTrackDropped ==
  \A t \in Tracks :
    (active[name[t]].track = t /\ Consumers(t) = {})
      ~> (active[name[t]].track # t \/ Consumers(t) # {})
=============================================================================
