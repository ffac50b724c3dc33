------------------------------- MODULE Reader -------------------------------
(***************************************************************************)
(* The consumer CLI, `atmoq firehose` (main.rs): one reader task per track *)
(* subscribes, drops what it has already seen and feeds a bounded channel; *)
(* print_events prints, and ends the process on a limit or an idle time.   *)
(* Three configurations: the whole firehose over moq-lite, one track per   *)
(* wanted account over moq-lite, the whole firehose over draft-07 (whose   *)
(* reader, subscribe_loop in dialect07.rs, feeds the same printer).        *)
(*                                                                         *)
(* The publisher, the relay and the network are external: the publisher    *)
(* writes events into groups, may die and return at an earlier event; the  *)
(* relay joins a subscriber at the latest group, sends every group on a    *)
(* stream of its own, which may be late or reset, and ends tracks.         *)
(***************************************************************************)
EXTENDS Integers, Sequences, FiniteSets, Functions

CONSTANTS
  Main,        \* the track of the whole firehose
  Dids,        \* the wanted accounts, each with a track
  Scenarios,   \* command lines, each with what a publisher has to say
  MaxLives,    \* bound: lives of the publisher
  GroupSize,   \* frames per group
  Capacity,    \* capacity of the output channel
  Limit,       \* the --limit
  MaxOps       \* bound: operations of one commit, under --ops

(* Frames: an event's sequence, or one of these.                           *)
NoSeq == 0
Garbage == -1    \* not a frame; not every publisher validates
NoItem == -2
Oldest == -2     \* i64::MIN

Frames == Nat \cup {Garbage}
AllTracks == Dids \cup {Main}

(* A script is a sequence of frames, each for a track; the sequences in it *)
(* grow.  Accounts can be asked for over moq-lite only.                    *)
Increasing(s) ==
  \A i, j \in DOMAIN s : i < j /\ s[j].frame > 0 => s[i].frame < s[j].frame

CommandLines ==
  {m \in [source : {"lite", "draft07"}, dids : {{}, Dids},
          stop : {"never", "limit", "idle"}] :
     m.dids # {} => m.source = "lite"}

ASSUME ReaderAssumption ==
  /\ Main \notin Dids
  /\ \A c \in Scenarios :
       /\ [source |-> c.source, dids |-> c.dids, stop |-> c.stop] \in CommandLines
       /\ c.script \in Seq([track : IF c.dids = {} THEN {Main} ELSE Dids,
                            frame : Frames])
       /\ Increasing(c.script)
  /\ MaxLives \in Nat \ {0}
  /\ GroupSize \in Nat \ {0} /\ Capacity \in Nat \ {0}
  /\ Limit \in Nat \ {0} /\ MaxOps \in Nat

VARIABLES
  mode,      \* the scenario
  pub,       \* the groups of each track, over all lives of the publisher
  pos,       \* the next place in the script
  up,        \* the broadcast is announced
  life,      \* the publisher's life
  born,      \* groups of each track that are of earlier lives
  session,   \* the session to the relay is alive
  sub,       \* the moq-net state of each track's subscription
  pc,        \* where each reader is
  group,     \* the group a reader is in
  read,      \* frames it has read of that group
  lastSeq,   \* each reader's last_seq
  item,      \* the frame it is sending
  chan,      \* the output channel
  printing,  \* print_events is running
  printSeq,  \* last_seq of print_events
  count,     \* its count
  printed,   \* history: the events printed of each track
  whole      \* history: the groups of each track read to their end

publisher == <<pub, pos, up, life, born, session>>
readers   == <<pc, group, read, lastSeq, item>>
printer   == <<printing, printSeq, count, printed>>
vars == <<mode, publisher, sub, readers, chan, printer, whole>>

Tracks == IF mode.dids = {} THEN {Main} ELSE mode.dids
Lite == mode.source = "lite"

----------------------------------------------------------------------------
(* The publisher (external).                                               *)

Written(t) == Len(pub[t])

Put(t, f) ==
  pub' = IF Written(t) > born[t] /\ Len(pub[t][Written(t)]) < GroupSize
         THEN [pub EXCEPT ![t][Written(t)] = Append(@, f)]
         ELSE [pub EXCEPT ![t] = Append(@, <<f>>)]

Publish ==
  /\ printing /\ up /\ pos <= Len(mode.script)
  /\ Put(mode.script[pos].track, mode.script[pos].frame)
  /\ pos' = pos + 1
  /\ UNCHANGED <<mode, up, life, born, session, sub, readers, chan,
                 printer, whole>>

NoSub == [status |-> "none", from |-> 0, until |-> 0]

Live(t) == sub[t].status = "live"

Cut(t) == IF Live(t) THEN [sub[t] EXCEPT !.status = "ended",
                                         !.until = Written(t)]
                     ELSE sub[t]

(* The publisher goes away; where the CLI is connected to `atmoq serve`    *)
(* itself, the session goes with it.  A draft-07 session is the reader's.  *)
PublisherGone ==
  /\ printing /\ up /\ up' = FALSE
  /\ \E s \in (IF Lite THEN {session, FALSE} ELSE {TRUE}) : session' = s
  /\ sub' = [t \in AllTracks |-> Cut(t)]
  /\ UNCHANGED <<mode, pub, pos, life, born, readers, chan,
                 printer, whole>>

(* It returns at its cursor, which may be older than what it has written.  *)
PublisherReturns ==
  /\ printing /\ ~up /\ life < MaxLives
  /\ up' = TRUE /\ life' = life + 1
  /\ \E p \in 1 .. pos : pos' = p
  /\ born' = [t \in AllTracks |-> Written(t)]
  /\ UNCHANGED <<mode, pub, session, sub, readers, chan,
                 printer, whole>>

(* The relay finishes or refuses a track; streams under way may go on.     *)
RelayEnds(t) ==
  /\ printing /\ Live(t)
  /\ sub' = [sub EXCEPT ![t] = Cut(t)]
  /\ UNCHANGED <<mode, publisher, readers, chan, printer, whole>>

----------------------------------------------------------------------------
(* The reader of one track: moq_reader, and subscribe_loop for draft-07.   *)
(* The network is modelled where it is observed: a stream that is late,    *)
(* lost or evicted from moq-net's cache is one the reader does not take    *)
(* next, a stream that breaks is one it stops reading.                     *)

Goto(t, label) == pc' = [pc EXCEPT ![t] = label]

(* announced_broadcast and subscribe_track.  A lost session announces      *)
(* nothing, and its consumer never closes: moq-net leaves that to be done. *)
(* If the broadcast is gone again, the subscription fails and is tried     *)
(* again, as a draft-07 connection is.  A subscription joins at the latest *)
(* group, or a later one if the relay takes its time.                      *)
Subscribe(t) ==
  /\ printing /\ pc[t] = "wait" /\ up /\ session
  /\ sub' = [sub EXCEPT ![t] =
       [status |-> "live", until |-> 0,
        from |-> IF Written(t) > born[t] THEN Written(t) ELSE born[t] + 1]]
  /\ group' = [group EXCEPT ![t] = 0]
  /\ Goto(t, "groups")
  /\ UNCHANGED <<mode, publisher, read, lastSeq, item, chan, printer, whole>>

(* subscribe_loop looks after each attempt whether the printer is gone.    *)
LoopEnds(t) ==
  /\ pc[t] = "wait" /\ ~Lite /\ ~printing
  /\ Goto(t, "done")
  /\ UNCHANGED <<mode, publisher, sub, group, read, lastSeq, item, chan,
                 printer, whole>>

(* The groups this subscription may still be given.  next_group skips one  *)
(* that arrives after a later one was taken; draft-07 gives out the latest.*)
Given(t) ==
  {g \in sub[t].from .. (IF Live(t) THEN Written(t) ELSE sub[t].until) :
     g > group[t]}

NextGroup(t, g) ==
  /\ pc[t] = "groups" /\ g \in Given(t)
  /\ group' = [group EXCEPT ![t] = g]
  /\ Goto(t, "frames")
  /\ UNCHANGED <<mode, publisher, sub, read, lastSeq, item, chan,
                 printer, whole>>

(* Half a second later; draft-07 backs off.                                *)
(* Mutant: the reader returns when its track ends.                         *)
ReaderReturns == "done"

AfterTrack == "wait"

TrackEnded(t) ==
  /\ pc[t] = "groups" /\ ~Live(t)
  /\ sub' = [sub EXCEPT ![t] = NoSub]
  /\ Goto(t, AfterTrack)
  /\ UNCHANGED <<mode, publisher, group, read, lastSeq, item, chan,
                 printer, whole>>

(* The per-track dedup; frames without a sequence pass.  draft-07's reader *)
(* has none.                                                               *)
(* Mutant: no dedup in the readers.                                        *)
NeverSeen(t, f) == FALSE

Seen(t, f) == Lite /\ f > 0 /\ f <= lastSeq[t]

HighWater(t, f) == IF Lite /\ f > 0 THEN f ELSE lastSeq[t]

Behind(t) == read[t] < Len(pub[t][group[t]])

ReadFrame(t) ==
  /\ pc[t] = "frames" /\ Behind(t)
  /\ LET f == pub[t][group[t]][read[t] + 1] IN
       IF Seen(t, f) THEN UNCHANGED <<pc, item, lastSeq>>
       ELSE /\ item' = [item EXCEPT ![t] = f]
            /\ lastSeq' = [lastSeq EXCEPT ![t] = HighWater(t, f)]
            /\ Goto(t, "send")
  /\ read' = [read EXCEPT ![t] = @ + 1]
  /\ UNCHANGED <<mode, publisher, sub, group, chan, printer, whole>>

(* The publisher finishes a group when it is full.                         *)
GroupDone(t) ==
  /\ pc[t] = "frames" /\ read[t] = GroupSize
  /\ whole' = [whole EXCEPT ![t] = @ \cup {group[t]}]
  /\ read' = [read EXCEPT ![t] = 0]
  /\ Goto(t, "groups")
  /\ UNCHANGED <<mode, publisher, sub, group, lastSeq, item, chan,
                 printer>>

(* A truncated group: moq_reader goes on to the next, subscribe_loop       *)
(* starts over.                                                            *)
(* Mutant: the reader returns on a frame error.                            *)
GiveUp == "done"

AfterFrameError == IF Lite THEN "groups" ELSE "wait"

FrameError(t) ==
  /\ pc[t] = "frames"
  /\ read' = [read EXCEPT ![t] = 0]
  /\ sub' = IF Lite THEN sub ELSE [sub EXCEPT ![t] = NoSub]
  /\ Goto(t, AfterFrameError)
  /\ UNCHANGED <<mode, publisher, group, lastSeq, item, chan, printer,
                 whole>>

Room == Len(chan) < Capacity

(* tx.send waits for room, and fails when print_events has returned.       *)
Send(t) ==
  /\ pc[t] = "send" /\ printing /\ Room
  /\ chan' = Append(chan, [track |-> t, frame |-> item[t]])
  /\ item' = [item EXCEPT ![t] = NoItem]
  /\ Goto(t, "frames")
  /\ UNCHANGED <<mode, publisher, sub, group, read, lastSeq, printer,
                 whole>>

SendFails(t) ==
  /\ pc[t] = "send" /\ ~printing
  /\ item' = [item EXCEPT ![t] = NoItem]
  /\ Goto(t, IF Lite THEN "done" ELSE "wait")
  /\ UNCHANGED <<mode, publisher, sub, group, read, lastSeq, chan,
                 printer, whole>>

----------------------------------------------------------------------------
(* print_events.                                                           *)

(* With one ordered stream the printer dedups, with accounts it cannot.    *)
(* Mutant: it does so with accounts too.                                   *)
DedupAlways(f) == f > 0

Dedups(f) == mode.dids = {} /\ f > 0

Printable(f) == f # Garbage /\ (Dedups(f) => f > printSeq)

(* An event counts once, or once per operation under --ops.  Only a limit  *)
(* looks at the count.                                                     *)
Increments == IF mode.stop = "limit" THEN {1} \cup 0 .. MaxOps ELSE {0}

PrintEvent ==
  /\ printing /\ chan # <<>>
  /\ chan' = Tail(chan)
  /\ LET t == Head(chan).track
         f == Head(chan).frame
     IN IF ~Printable(f) THEN UNCHANGED printer
        ELSE /\ printSeq' = IF Dedups(f) THEN f ELSE printSeq
             /\ printed' = [printed EXCEPT ![t] = IF f > 0 THEN Append(@, f)
                                                  ELSE @]
             /\ \E n \in Increments : count' = count + n
             /\ printing' = (mode.stop = "limit" => count' < Limit)
  /\ UNCHANGED <<mode, publisher, sub, readers, whole>>

IdleTimeout ==
  /\ printing /\ chan = <<>> /\ mode.stop = "idle"
  /\ printing' = FALSE
  /\ UNCHANGED <<mode, publisher, sub, readers, chan, printSeq, count,
                 printed, whole>>

----------------------------------------------------------------------------
Init ==
  /\ mode \in Scenarios
  /\ pub = [t \in AllTracks |-> <<>>]
  /\ pos = 1
  /\ up = TRUE /\ life = 1 /\ session = TRUE
  /\ born = [t \in AllTracks |-> 0]
  /\ sub = [t \in AllTracks |-> NoSub]
  /\ pc = [t \in AllTracks |-> "wait"]
  /\ group = [t \in AllTracks |-> 0]
  /\ read = [t \in AllTracks |-> 0]
  /\ lastSeq = [t \in AllTracks |-> Oldest]
  /\ item = [t \in AllTracks |-> NoItem]
  /\ chan = <<>>
  /\ printing = TRUE /\ printSeq = Oldest /\ count = 0
  /\ printed = [t \in AllTracks |-> <<>>]
  /\ whole = [t \in AllTracks |-> {}]

PublisherStep ==
  Publish \/ PublisherGone \/ PublisherReturns

(* What the reader meets when the network keeps up, and when it does not:  *)
(* a group out of turn, a broken stream, a track that ends.                *)
NextInTurn(t) == \E g \in Given(t) :
  (\A h \in Given(t) : g <= h) /\ NextGroup(t, g)

Trouble(t) ==
  \/ printing /\ (\E g \in Given(t) : NextGroup(t, g))
  \/ printing /\ FrameError(t)
  \/ RelayEnds(t)

ReaderStep(t) ==
  \/ Subscribe(t) \/ LoopEnds(t)
  \/ NextInTurn(t)
  \/ Given(t) = {} /\ TrackEnded(t)
  \/ ReadFrame(t) \/ GroupDone(t)
  \/ pc[t] = "frames" /\ ~Live(t) /\ ~Behind(t) /\ FrameError(t)
  \/ Send(t) \/ SendFails(t)

PrinterStep == PrintEvent \/ IdleTimeout

Next ==
  \/ PublisherStep
  \/ \E t \in Tracks : ReaderStep(t) \/ Trouble(t)
  \/ PrinterStep

Fairness ==
  /\ \A t \in AllTracks : WF_vars(t \in Tracks /\ ReaderStep(t))
  /\ WF_vars(PrintEvent)

Spec == Init /\ [][Next]_vars /\ Fairness

----------------------------------------------------------------------------
(* Each event is printed once, and each track's events in their order,     *)
(* whatever the publisher writes again after a restart, however often a    *)
(* reader resubscribes, and in whatever order groups arrive.               *)
PrintedOnceInOrder ==
  \A t \in AllTracks : \A i, j \in DOMAIN printed[t] :
    i < j => printed[t][i] < printed[t][j]

Events(t, g) == {pub[t][g][i] : i \in DOMAIN pub[t][g]} \ {NoSeq, Garbage}

Printed(t, s) == \E i \in DOMAIN printed[t] : printed[t][i] = s

(* An event is missing below what a track has printed only if the network  *)
(* or the cache lost a copy of it: one of its copies was in a group that   *)
(* the reader never got to read to the end, or got only after a later one. *)
GapsExplained ==
  \A t \in AllTracks : \A g \in whole[t] : \A s \in Events(t, g) :
    \/ Printed(t, s)
    \/ \A i \in DOMAIN printed[t] : printed[t][i] < s
    \/ \E h \in 1 .. Written(t) : h \notin whole[t] /\ s \in Events(t, h)

(* A copy of the event is before the reader or on its way to the printer,  *)
(* and no later event of the track is printed.                             *)
Waiting(t, s) ==
  /\ printing /\ \A i \in DOMAIN printed[t] : printed[t][i] < s
  /\ \/ Live(t) /\ \E g \in Given(t) : s \in Events(t, g)
     \/ /\ pc[t] = "frames"
        /\ \E i \in read[t] + 1 .. Len(pub[t][group[t]]) : pub[t][group[t]][i] = s
     \/ item[t] = s
     \/ \E i \in DOMAIN chan : chan[i] = [track |-> t, frame |-> s]

AllEvents ==
  UNION {{e.frame : e \in Range(c.script)} : c \in Scenarios} \ {NoSeq, Garbage}

(* No event waits for ever, neither behind a full channel nor behind       *)
(* another account's refused or broken track: it is printed, or the        *)
(* network takes it away (and GapsExplained says when that may be).        *)
NothingWaitsForever ==
  \A s \in AllEvents :
    (\E t \in Tracks : Waiting(t, s)) ~> ~(\E t \in Tracks : Waiting(t, s))

(* While the publisher is there to be subscribed to and the session lasts, *)
(* no reader stays without a subscription.                                 *)
SubscribedAgain ==
  \A t \in AllTracks :
    (t \in Tracks /\ up /\ session)
      ~> (Live(t) \/ ~up \/ ~session \/ ~printing)

(* "Resilient MoQ track reader: resubscribes across publisher restarts"    *)
(* (main.rs:511).  Violated: where the publisher is `atmoq serve` itself,  *)
(* its restart ends the session, which nothing opens again and whose end   *)
(* moq-net's consumer does not report; the reader waits for ever.          *)
ResubscribesAcrossRestarts ==
  \A t \in AllTracks :
    (t \in Tracks /\ up) ~> (Live(t) \/ ~up \/ ~printing)

=============================================================================
