------------------------------ MODULE GoClient ------------------------------
(***************************************************************************)
(* The Go client (go/client.go): one QUIC connection, several              *)
(* subscriptions.  The accept loop takes the group streams the server      *)
(* opens and hands each to its subscription's queue; every subscription    *)
(* drains its own queue in a goroutine and feeds a bounded channel that    *)
(* the application reads.  Subscriptions end when the application closes   *)
(* them, the control stream ends, or the connection does.                  *)
(*                                                                         *)
(* The server and QUIC are external: group streams are opened in sequence  *)
(* order and accepted in that order; each carries the frames of a group    *)
(* and is finished or reset.                                               *)
(***************************************************************************)
EXTENDS Naturals, Sequences, FiniteSets

CONSTANTS
  Subs,        \* subscriptions
  Attentive,   \* those whose application reads; the others have stalled
  MaxGroups,   \* bound: groups of a subscription
  MaxStreams,  \* bound: group streams the server opens in all
  GroupFrames, \* frames in a group
  Cap          \* capacity of the frames channel

ASSUME ClientAssumption ==
  /\ Attentive \subseteq Subs
  /\ {MaxGroups, MaxStreams, GroupFrames, Cap} \subseteq Nat \ {0}
  /\ Attentive # Subs => Cap < GroupFrames

Streams == [sub : Subs, seq : 1 .. MaxGroups]
None == [sub |-> "none", seq |-> 0]

VARIABLES
  conn,      \* the connection: open or closed
  closing,   \* Session.Close: no, failed (failAll has run) or done
  caller,    \* sub -> state of its Subscribe call
  subs,      \* s.subs: the subscriptions streams are routed to
  ended,     \* sub -> is sub.closed closed?
  wire,      \* streams the server opened that were not accepted yet
  stream,    \* stream -> [fate, end]: what became of it, how it ended
  accept,    \* where the accept loop is
  held,      \* the stream the accept loop holds
  queue,     \* sub -> accepted streams, in accept order
  kick,      \* sub -> is the one-place wake-up channel full?
  run,       \* sub -> where its goroutine is
  taken,     \* sub -> the stream its goroutine reads
  nread,     \* sub -> frames read from that stream
  frames,    \* sub -> the frames channel
  got        \* history: sub -> what ReadFrame returned

server  == <<wire, stream>>
session == <<conn, closing>>
loop    == <<accept, held>>
drain   == <<run, taken, nread>>
vars    == <<server, session, caller, subs, ended, loop, queue, kick, drain,
             frames, got>>

Fates == {"unopened", "wire", "accepted", "queued", "reading", "read", "cancelled"}
Fated(x, fate) == [stream EXCEPT ![x].fate = fate]
Taken(s) == [sub |-> s, seq |-> taken[s]]

-----------------------------------------------------------------------------
(* The server.                                                             *)

Opened == {x \in Streams : stream[x].fate # "unopened"}

(* It may serve groups as soon as it has read SUBSCRIBE.  How the stream   *)
(* will end is settled here; when its bytes arrive is left to the reader,  *)
(* whose steps may be late.                                                *)
ServerOpens(x, how) ==
  /\ conn = "open" /\ caller[x.sub] \in {"opening", "open", "failed"}
  /\ x \notin Opened /\ Cardinality(Opened) < MaxStreams
  /\ \A y \in Streams : y.sub = x.sub /\ y.seq < x.seq => y \in Opened
  /\ stream' = [stream EXCEPT ![x] = [fate |-> "wire", end |-> how]]
  /\ wire' = Append(wire, x)
  /\ UNCHANGED <<session, caller, subs, ended, loop, queue, kick, drain, frames, got>>

ConnectionLost ==
  /\ conn = "open" /\ conn' = "closed"
  /\ UNCHANGED <<closing, server, caller, subs, ended, loop, queue, kick, drain, frames, got>>

-----------------------------------------------------------------------------
(* Subscribing and closing.                                                *)

Subscribe(s) ==
  /\ caller[s] = "none"
  /\ caller' = [caller EXCEPT ![s] = "opening"]
  /\ subs' = subs \cup {s}
  /\ UNCHANGED <<server, session, ended, loop, queue, kick, drain, frames, got>>

(* SUBSCRIBE_OK arrived: the subscription's goroutine and, the first time, *)
(* the accept loop are started.                                            *)
SubscribeOk(s) ==
  /\ caller[s] = "opening" /\ conn = "open"
  /\ caller' = [caller EXCEPT ![s] = "open"]
  /\ run' = [run EXCEPT ![s] = "take"]
  /\ accept' = IF accept = "off" THEN "accept" ELSE accept
  /\ UNCHANGED <<server, session, subs, ended, held, queue, kick, taken, nread, frames, got>>

(* The context ends, the server rejects, or the connection is gone.        *)
SubscribeFails(s) ==
  /\ caller[s] = "opening"
  /\ caller' = [caller EXCEPT ![s] = "failed"]
  /\ subs' = subs \ {s}
  /\ UNCHANGED <<server, session, ended, loop, queue, kick, drain, frames, got>>

CloseSub(s) ==
  /\ caller[s] = "open" /\ s \in Attentive
  /\ caller' = [caller EXCEPT ![s] = "closed"]
  /\ subs' = subs \ {s}
  /\ ended' = [ended EXCEPT ![s] = TRUE]
  /\ UNCHANGED <<server, session, loop, queue, kick, drain, frames, got>>

(* watchControl: the control stream ends or carries something malformed.   *)
ControlEnds(s) ==
  /\ caller[s] = "open" /\ ~ended[s]
  /\ ended' = [ended EXCEPT ![s] = TRUE]
  /\ UNCHANGED <<server, session, caller, subs, loop, queue, kick, drain, frames, got>>

AllFailed == [s \in Subs |-> ended[s] \/ s \in subs]

(* Session.Close fails the subscriptions first, then the connection.       *)
FailAll ==
  /\ closing = "no" /\ closing' = "failed"
  /\ ended' = AllFailed
  /\ UNCHANGED <<conn, server, caller, subs, loop, queue, kick, drain, frames, got>>

CloseConnection ==
  /\ closing = "failed" /\ closing' = "done"
  /\ conn' = "closed"
  /\ UNCHANGED <<ended, server, caller, subs, loop, queue, kick, drain, frames, got>>

-----------------------------------------------------------------------------
(* The accept loop.                                                        *)

(* dispatchGroupStream: the header of the accepted stream names the        *)
(* subscription, which is looked up under the session's lock.  A stream    *)
(* for nobody, or one that ended before its header, is cancelled.          *)
Accept ==
  /\ accept = "accept" /\ wire # <<>>
  /\ LET x == Head(wire) IN
       \/ /\ x.sub \in subs /\ conn = "open"
          /\ accept' = "enqueue" /\ held' = x
          /\ stream' = Fated(x, "accepted")
       \/ /\ x.sub \notin subs \/ stream[x].end = "reset"
          /\ stream' = Fated(x, "cancelled")
          /\ UNCHANGED <<accept, held>>
  /\ wire' = Tail(wire)
  /\ UNCHANGED <<session, caller, subs, ended, queue, kick, drain, frames, got>>

AcceptFails ==
  /\ accept = "accept" /\ conn = "closed"
  /\ accept' = "done"
  /\ ended' = AllFailed
  /\ UNCHANGED <<server, session, caller, subs, held, queue, kick, drain, frames, got>>

(* Mutant: the subscription's end is not checked.                          *)
NeverEnded(s) == FALSE

HasEnded(s) == ended[s]

Enqueue ==
  /\ accept = "enqueue"
  /\ IF HasEnded(held.sub)
     THEN /\ stream' = Fated(held, "cancelled")
          /\ accept' = "accept" /\ held' = None
          /\ UNCHANGED queue
     ELSE /\ stream' = Fated(held, "queued")
          /\ queue' = [queue EXCEPT ![held.sub] = Append(@, held)]
          /\ accept' = "kick" /\ UNCHANGED held
  /\ UNCHANGED <<wire, session, caller, subs, ended, kick, drain, frames, got>>

(* Mutant: the wake-up reaches only a goroutine that already waits.        *)
KickWaiting(s) == run[s] = "wait"

(* The wake-up stays in the channel until the goroutine takes it.          *)
KickStays(s) == TRUE

Kick ==
  /\ accept = "kick"
  /\ kick' = [kick EXCEPT ![held.sub] = @ \/ KickStays(held.sub)]
  /\ accept' = "accept" /\ held' = None
  /\ UNCHANGED <<server, session, caller, subs, ended, queue, drain, frames, got>>

-----------------------------------------------------------------------------
(* The subscription's goroutine.                                           *)

(* Mutant: the newest stream first.                                        *)
DequeueNewest(q) == [next |-> q[Len(q)], rest |-> SubSeq(q, 1, Len(q) - 1)]

Dequeue(q) == [next |-> Head(q), rest |-> Tail(q)]

Take(s) ==
  /\ run[s] = "take" \/ (run[s] = "after" /\ ~ended[s])
  /\ IF queue[s] = <<>>
     THEN run' = [run EXCEPT ![s] = "idle"] /\ UNCHANGED <<taken, nread, queue, stream>>
     ELSE LET x == Dequeue(queue[s]).next IN
          /\ run' = [run EXCEPT ![s] = "read"]
          /\ taken' = [taken EXCEPT ![s] = x.seq]
          /\ nread' = [nread EXCEPT ![s] = 0]
          /\ queue' = [queue EXCEPT ![s] = Dequeue(@).rest]
          /\ stream' = Fated(x, "reading")
  /\ UNCHANGED <<wire, session, caller, subs, ended, loop, kick, frames, got>>

(* The queue was seen empty under its lock; the select comes after it.     *)
Park(s) ==
  /\ run[s] = "idle"
  /\ run' = [run EXCEPT ![s] = "wait"]
  /\ UNCHANGED <<server, session, caller, subs, ended, loop, queue, kick, taken, nread, frames, got>>

Wake(s) ==
  /\ run[s] = "wait" /\ kick[s]
  /\ kick' = [kick EXCEPT ![s] = FALSE]
  /\ run' = [run EXCEPT ![s] = "take"]
  /\ UNCHANGED <<server, session, caller, subs, ended, loop, queue, taken, nread, frames, got>>

(* drainQueue cancels what is still queued, and the goroutine exits.       *)
Drain(s) ==
  /\ run[s] \in {"wait", "after"} /\ ended[s]
  /\ run' = [run EXCEPT ![s] = "done"]
  /\ queue' = [queue EXCEPT ![s] = <<>>]
  /\ stream' = [x \in Streams |->
                  IF \E i \in 1 .. Len(queue[s]) : queue[s][i] = x
                  THEN [stream[x] EXCEPT !.fate = "cancelled"] ELSE stream[x]]
  /\ UNCHANGED <<wire, session, caller, subs, ended, loop, kick, taken, nread, frames, got>>

(* A frame that claims more than maxFrameSize fails the subscription.      *)
Oversized(s) ==
  /\ run[s] = "read" /\ nread[s] < GroupFrames
  /\ stream' = Fated(Taken(s), "cancelled")
  /\ ended' = [ended EXCEPT ![s] = TRUE]
  /\ run' = [run EXCEPT ![s] = "after"]
  /\ UNCHANGED <<wire, session, caller, subs, loop, queue, kick, taken, nread, frames, got>>

FrameSent(s) ==
  /\ Len(frames[s]) < Cap
  /\ frames' = [frames EXCEPT ![s] = Append(@, [seq |-> taken[s], n |-> nread[s]])]

(* Mutant: a frame is dropped when the channel is full.                    *)
DropWhenFull(s) == IF Len(frames[s]) < Cap THEN FrameSent(s) ELSE UNCHANGED frames

SendFrame(s) == FrameSent(s)

(* Mutant: deliver does not watch for the end of the subscription.         *)
NoGiveUp(s) == FALSE

(* deliver waits for room or for the end of the subscription; when both    *)
(* are there, either may win.                                              *)
GiveUp(s) == ended[s]

Deliver(s) ==
  /\ run[s] = "deliver"
  /\ \/ SendFrame(s)
        /\ run' = [run EXCEPT ![s] = "read"] /\ UNCHANGED stream
     \/ /\ GiveUp(s)
        /\ stream' = Fated(Taken(s), "cancelled")
        /\ run' = [run EXCEPT ![s] = "after"] /\ UNCHANGED frames
  /\ UNCHANGED <<wire, session, caller, subs, ended, loop, queue, kick, taken, nread, got>>

(* readGroup: a frame is read, or the group's end or an error is met.      *)
ReadGroup(s) ==
  /\ run[s] = "read"
  /\ \/ /\ nread[s] < GroupFrames
        /\ nread' = [nread EXCEPT ![s] = @ + 1]
        /\ run' = [run EXCEPT ![s] = "deliver"] /\ UNCHANGED stream
     \/ /\ \/ nread[s] = GroupFrames /\ stream[Taken(s)].end = "fin"
           \/ stream[Taken(s)].end = "reset" \/ conn = "closed"
        /\ stream' = Fated(Taken(s), "read")
        /\ run' = [run EXCEPT ![s] = "after"] /\ UNCHANGED nread
  /\ UNCHANGED <<wire, session, caller, subs, ended, loop, queue, kick, taken, frames, got>>

-----------------------------------------------------------------------------
(* The application.  What is buffered is returned after the end too.       *)
ReadFrame(s) ==
  /\ frames[s] # <<>>
  /\ got' = [got EXCEPT ![s] = Append(@, Head(frames[s]))]
  /\ frames' = [frames EXCEPT ![s] = Tail(@)]
  /\ UNCHANGED <<server, session, caller, subs, ended, loop, queue, kick, drain>>

Stalled == Subs \ Attentive
OfStalled(s, yes, no) == IF s \in Stalled THEN yes ELSE no

(* A session whose stalled subscriptions, if any, are open already: their  *)
(* first group fills the channel, and a frame waits to be delivered.       *)
Init ==
  /\ conn = "open" /\ closing = "no"
  /\ caller = [s \in Subs |-> OfStalled(s, "open", "none")]
  /\ subs = Stalled
  /\ ended = [s \in Subs |-> FALSE]
  /\ wire = <<>>
  /\ stream = [x \in Streams |->
                 IF x.seq = 1 /\ x.sub \in Stalled
                 THEN [fate |-> "reading", end |-> "fin"]
                 ELSE [fate |-> "unopened", end |-> "fin"]]
  /\ accept = IF Stalled = {} THEN "off" ELSE "accept"
  /\ held = None
  /\ queue = [s \in Subs |-> <<>>] /\ kick = [s \in Subs |-> FALSE]
  /\ run = [s \in Subs |-> OfStalled(s, "deliver", "off")]
  /\ taken = [s \in Subs |-> OfStalled(s, 1, 0)]
  /\ nread = [s \in Subs |-> OfStalled(s, Cap + 1, 0)]
  /\ frames = [s \in Subs |-> OfStalled(s, [n \in 1 .. Cap |-> [seq |-> 1, n |-> n]], <<>>)]
  /\ got = [s \in Subs |-> <<>>]

AcceptLoop == Accept \/ AcceptFails \/ Enqueue \/ Kick

Run(s) ==
  \/ Take(s) \/ Park(s) \/ Wake(s) \/ Drain(s) \/ ReadGroup(s) \/ Deliver(s)

Next ==
  \/ \E x \in Streams, how \in {"fin", "reset"} : ServerOpens(x, how)
  \/ ConnectionLost
  \/ \E s \in Subs : \/ Subscribe(s) \/ SubscribeOk(s) \/ SubscribeFails(s)
                     \/ CloseSub(s) \/ ControlEnds(s)
                     \/ Run(s) \/ Oversized(s)
  \/ \E s \in Attentive : ReadFrame(s)
  \/ FailAll \/ CloseConnection
  \/ AcceptLoop

(* Goroutines run (the server finishes or resets every stream sometime),   *)
(* Session.Close gets on, a dead connection ends the control streams, and  *)
(* attentive applications read.                                            *)
Spec ==
  /\ Init /\ [][Next]_vars
  /\ WF_vars(AcceptLoop) /\ WF_vars(CloseConnection)
  /\ \A s \in Subs : /\ WF_vars(Run(s))
                     /\ WF_vars(conn = "closed" /\ ControlEnds(s))
  /\ \A s \in Attentive : WF_vars(ReadFrame(s))

-----------------------------------------------------------------------------
(* Properties.                                                             *)

Delivered(s) == got[s] \o frames[s]

(* Frames reach the application in the order they were published, across   *)
(* group boundaries, and inside a group none is skipped or repeated.       *)
FramesInOrder ==
  \A s \in Subs : \A i \in 1 .. Len(Delivered(s)) :
    LET f == Delivered(s)[i]
        p == Delivered(s)[i - 1]
    IN  \/ f.n = 1 /\ (i = 1 \/ p.seq < f.seq)
        \/ i > 1 /\ p.seq = f.seq /\ p.n = f.n - 1

(* While a subscription lives, a group its publisher finished and the      *)
(* goroutine has left behind was delivered to the last frame.              *)
NothingSkipped ==
  \A s \in Subs, x \in Streams :
    x.sub = s /\ ~ended[s] /\ conn = "open"
    /\ stream[x].fate = "read" /\ stream[x].end = "fin" =>
      \A n \in 1 .. GroupFrames :
        \E i \in 1 .. Len(Delivered(s)) : Delivered(s)[i] = [seq |-> x.seq, n |-> n]

(* No stream is forgotten in a queue, where it would hold flow-control     *)
(* credit for good: the goroutine of an open subscription never exits      *)
(* while something is queued or can still be, and never sleeps beside a    *)
(* queued stream without a wake-up, its own end, or one about to come.     *)
QueuedIsSeen ==
  \A s \in Subs : caller[s] \in {"open", "closed"} /\ queue[s] # <<>> =>
    /\ run[s] # "done"
    /\ run[s] \in {"idle", "wait"} =>
         \/ kick[s] \/ ended[s]
         \/ accept = "kick" /\ held.sub = s

(* A subscription whose application reads is served every stream, however  *)
(* little the other applications read.                                     *)
AttentiveServed ==
  \A x \in {y \in Streams : y.sub \in Attentive} :
    (caller[x.sub] = "open" /\ stream[x].fate = "wire")
      ~> (stream[x].fate \in {"read", "cancelled"} \/ conn = "closed")

(* When the connection is gone everything stops: every subscription ends   *)
(* and the goroutines exit.                                                *)
ShutsDown ==
  conn = "closed" ~>
    /\ accept \in {"off", "done"}
    /\ \A s \in Subs : run[s] = "off" \/ (ended[s] /\ run[s] = "done")

=============================================================================
