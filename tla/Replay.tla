------------------------------- MODULE Replay -------------------------------
(***************************************************************************)
(* Deep replay: the Lite publisher of LitePublisher.tla together with the  *)
(* subscribers it serves (run_track in moq-net's lite/publisher.rs).  A    *)
(* subscriber that resumes from an old group is first served from the      *)
(* store, group by group, until it reaches the oldest group still in the   *)
(* track's RAM cache, and then takes groups from the cache as they come.   *)
(* The cache loses old groups and the store gains new ones meanwhile, on   *)
(* another thread.                                                         *)
(***************************************************************************)
EXTENDS LitePublisher, Sequences

CONSTANTS
  Subscribers,   \* subscriptions that may be open at once
  Latest,        \* the request of a subscriber that names no start group
  Races          \* the evictions that may fall into a hand-off: see Prompt

ASSUME ReplayAssumption ==
  /\ Latest \notin Int
  /\ Races \subseteq {"finished", "handoff"}

VARIABLE sub     \* subscriber -> its subscription

replayVars == <<vars, sub>>

Detached ==
  [stage |-> "detached", start |-> 0, next |-> 0, pos |-> NoSeq, taken |-> <<>>]

Lowest(S) == CHOOSE x \in S : \A y \in S : x <= y

(* Sessions are accepted once the publisher has been built, that is after  *)
(* the first group's sequence was persisted.                               *)
Accepting ==
  /\ phase # "down"
  /\ phase = "persist" => \E x \in streamed : x.run = run

-----------------------------------------------------------------------------
(* One subscription.                                                       *)

(* The sequences of the store's index.                                     *)
Indexed == SeqsOf(store) \cup (SeqsOf(misplaced) \ refused)

(* source.oldest() lifts a request that retention has already passed.      *)
FirstFromStore(start) ==
  IF Indexed = {} THEN start ELSE Higher(start, Lowest(Indexed))

Subscribe(s, request) ==
  /\ Accepting /\ sub[s] = Detached
  /\ sub' = [sub EXCEPT ![s] =
       IF request = Latest
       THEN [Detached EXCEPT !.stage = "live", !.start = cur, !.next = cur]
       ELSE [Detached EXCEPT !.stage = "backfill", !.start = request,
                             !.next = FirstFromStore(request)]]
  /\ UNCHANGED vars

(* Mutant: one group of the cache is served from the store too.            *)
BelowCacheInclusive(next) == next <= Lowest(ram)

(* The floor of the cache is read again before every group.                *)
BelowCache(next) == next < Lowest(ram)

(* The groups the store can serve.  A group whose body is not its own may  *)
(* read as a group or as an error.                                         *)
Readable == SeqsOf({g \in store : g.frames # {}})

(* Mutant: a group the store does not have is asked for again and again.   *)
AfterMissing(next) == IF next \in Readable THEN next + 1 ELSE next

AfterBackfill(next) == next + 1

(* Serve one group from the store; one that is missing or reads as an      *)
(* error is skipped.  The floor only rises, so reading it and reading the  *)
(* store is one step here.                                                 *)
Backfill(s) ==
  /\ sub[s].stage = "backfill" /\ BelowCache(sub[s].next)
  /\ \E served \in {Readable, SeqsOf(store)} :
       sub' = [sub EXCEPT ![s].next = AfterBackfill(@),
                          ![s].taken = IF sub[s].next \in served
                                       THEN Append(@, sub[s].next) ELSE @]
  /\ UNCHANGED vars

(* The floor was reached.  The live loop reads the cache after this, under *)
(* a lock of its own.                                                      *)
EndBackfill(s) ==
  /\ sub[s].stage = "backfill" /\ ~BelowCache(sub[s].next)
  /\ sub' = [sub EXCEPT ![s].stage = "handoff"]
  /\ UNCHANGED vars

(* Mutant: the live loop starts at the latest group.                       *)
UntakenFromLatest(s) == {x \in ram : x >= cur /\ x > sub[s].pos}

(* The groups of the cache the live loop has yet to take.                  *)
Untaken(s) == {x \in ram : x >= sub[s].start /\ x > sub[s].pos}

(* recv_group: the next group in arrival order from the start group on.    *)
TakeLive(s) ==
  /\ sub[s].stage \in {"handoff", "live"} /\ Untaken(s) # {}
  /\ sub' = [sub EXCEPT ![s].stage = "live",
                        ![s].pos = Lowest(Untaken(s)),
                        ![s].taken = Append(@, Lowest(Untaken(s)))]
  /\ UNCHANGED vars

(* recv_group finds nothing yet: the start group lies in the future.       *)
AwaitLive(s) ==
  /\ sub[s].stage = "handoff" /\ Untaken(s) = {}
  /\ sub' = [sub EXCEPT ![s].stage = "live"]
  /\ UNCHANGED vars

(* The session ends, at any time.                                          *)
Unsubscribe(s) ==
  /\ sub[s] # Detached
  /\ sub' = [sub EXCEPT ![s] = Detached]
  /\ UNCHANGED vars

-----------------------------------------------------------------------------
(* The publisher's steps.                                                  *)

(* Evictions the timing of the code makes unlikely but does not exclude.   *)
(* A group leaves the cache one replay window after it was created, so the *)
(* group just finished stays while groups fill within the window, and a    *)
(* subscriber in the hand-off usually reads the cache before the next      *)
(* eviction.  That a subscriber waiting in the live loop is not starved    *)
(* for a whole window is always assumed.                                   *)
Prompt ==
  /\ "finished" \notin Races /\ phase = "rotate" /\ phase' = "store" => cur \in ram'
  /\ phase' # "down" =>
       \A s \in Subscribers :
         sub[s].stage \in {"live", "handoff"} \ Races => Untaken(s) \subseteq ram'

(* When the process stops, every session is gone.                          *)
PublisherStep ==
  /\ Next /\ Prompt
  /\ sub' = IF phase' = "down" THEN [s \in Subscribers |-> Detached] ELSE sub

SubscriberStep(s) ==
  \/ Backfill(s)
  \/ EndBackfill(s)
  \/ TakeLive(s)
  \/ AwaitLive(s)

ReplayInit == Init /\ sub = [s \in Subscribers |-> Detached]

ReplayNext ==
  \/ PublisherStep
  \/ \E s \in Subscribers, request \in 0 .. MaxSeq \cup {Latest} : Subscribe(s, request)
  \/ \E s \in Subscribers : SubscriberStep(s) \/ Unsubscribe(s)

(* The tasks of an open subscription keep being polled; the subscriber     *)
(* drains what it is sent.  Nothing is asked of the publisher.             *)
ReplaySpec ==
  /\ ReplayInit /\ [][ReplayNext]_replayVars
  /\ \A s \in Subscribers : WF_replayVars(SubscriberStep(s))

-----------------------------------------------------------------------------
(* Properties.                                                             *)

Taken(s) == {sub[s].taken[i] : i \in 1 .. Len(sub[s].taken)}

(* Has the subscriber moved past group x?  What is in the cache is served  *)
(* from there, however far the backfill has got.                           *)
MovedPast(s, x) ==
  IF sub[s].stage = "live" THEN x <= sub[s].pos
  ELSE x < sub[s].next /\ x \notin ram

(* The live stream takes over from the backfill without a gap: no group    *)
(* between the requested start and the place a subscriber has reached is   *)
(* readable in the store or cached and was not served.                     *)
NoGap ==
  \A s \in Subscribers : sub[s] # Detached =>
    \A x \in Readable \cup ram :
      sub[s].start <= x /\ MovedPast(s, x) => x \in Taken(s)

(* Nor with an overlap: every group is served at most once, oldest first,  *)
(* and none from before the requested start.                               *)
ServedOnceInOrder ==
  \A s \in Subscribers :
    /\ \A i \in 1 .. Len(sub[s].taken) : sub[s].taken[i] >= sub[s].start
    /\ \A i, j \in 1 .. Len(sub[s].taken) :
         i < j => sub[s].taken[i] < sub[s].taken[j]

(* A subscription that stays open is served every group from its start on  *)
(* that stays readable.                                                    *)
EventuallyServed ==
  \A s \in Subscribers, x \in 0 .. MaxSeq :
    (sub[s] # Detached /\ sub[s].start <= x /\ x \in Readable \cup ram)
      ~> (sub[s] = Detached \/ x \in Taken(s) \/ x \notin Readable \cup ram)
=============================================================================
