-------------------------------- MODULE Pump --------------------------------
(***************************************************************************)
(* From the upstream firehose to the publisher: the ingest task connects,  *)
(* resumes from the last relayed sequence and feeds a bounded channel; the *)
(* pump dedupes, publishes and, on a timer, writes the cursor file that a  *)
(* restart resumes from (ingest.rs; spawn_ingest and pump in main.rs).     *)
(*                                                                         *)
(* The upstream is external: it holds events 1, 2, ... and replays those   *)
(* above the cursor it is given.  The publisher is LitePublisher.tla's,    *)
(* reduced to what may be lost: the frames of a group are streamed one by  *)
(* one and stored in a later step, once it is full or by a clean finish.   *)
(* That an append may fail is LitePublisher.tla's matter; here none does.  *)
(***************************************************************************)
EXTENDS Integers, Sequences, FiniteSets

CONSTANTS
  MaxSeq,       \* bound: the upstream emits events 1..MaxSeq
  Rejected,     \* the events that fail frame validation
  Capacity,     \* capacity of the channel
  GroupSize,    \* frames per group
  Flags,        \* values of --cursor: a sequence, or Unset
  MaxDrops,     \* bound: connections lost, failed or gone silent
  MaxCrashes,   \* bound: crashes
  MaxSignals    \* bound: SIGTERMs

Unset == -1    \* last_seq before anything was relayed: no cursor

ASSUME PumpAssumption ==
  /\ MaxSeq \in Nat /\ Rejected \subseteq 1 .. MaxSeq
  /\ Capacity \in Nat \ {0} /\ GroupSize \in Nat \ {0}
  /\ Flags \subseteq Nat \cup {Unset} /\ Flags # {}
  /\ MaxDrops \in Nat /\ MaxCrashes \in Nat /\ MaxSignals \in Nat

VARIABLES
  head,        \* newest event of the upstream
  wire,        \* the upstream connection: none, open, closed or silent
  pos,         \* last event the upstream has sent on this connection
  ingest,      \* where the ingest task is
  inHand,      \* the cursor or the frame the ingest task holds
  chan,        \* the channel to the pump
  pump,        \* where the pump is
  frame,       \* the frame the pump is publishing
  last,        \* last_seq, shared by both tasks
  open,        \* frames of the publisher's open group
  stored,      \* events that can be replayed from the store
  cursorFile,  \* content of the cursor file, Unset if there is none
  flag,        \* the --cursor given on the command line
  base,        \* history: the cursor this run started from
  out,         \* history: the events published by this run, in order
  published,   \* history: the events published by any run
  drops, crashes, signals

upstream == <<head, wire, pos>>
reader   == <<ingest, inHand>>
sink     == <<open, stored, out, published>>
counts   == <<drops, crashes, signals>>
start    == <<flag, base>>
vars     == <<upstream, reader, chan, pump, frame, last, sink, cursorFile,
              start, counts>>

Nothing    == -2
InfoFrame  == 0     \* a message without a seq
ErrorFrame == -1    \* op = -1

Valid == (1 .. MaxSeq) \ Rejected

-----------------------------------------------------------------------------
(* The upstream and the network.                                           *)

Emit ==
  /\ head < MaxSeq
  /\ head' = head + 1
  /\ UNCHANGED <<wire, pos, reader, chan, pump, frame, last, sink, cursorFile,
                 start, counts>>

(* The connection closes, or the peer vanishes without a FIN.  What was in *)
(* flight is lost.                                                         *)
Disturb(how) ==
  /\ drops < MaxDrops /\ wire = "open"
  /\ wire' = how
  /\ drops' = drops + 1
  /\ UNCHANGED <<head, pos, reader, chan, pump, frame, last, sink, cursorFile,
                 start, crashes, signals>>

-----------------------------------------------------------------------------
(* The ingest task: spawn_ingest and relay_frames.                         *)

(* Mutant: the cursor names the next event wanted.                         *)
ResumeAfterNext == IF last = Unset THEN Unset ELSE last + 1

ResumeCursor == last

(* last_seq is read before the connection is made; frames may be waiting   *)
(* in the channel that the pump has not relayed yet.                       *)
LoadCursor ==
  /\ ingest = "load"
  /\ inHand' = ResumeCursor
  /\ ingest' = "connect"
  /\ UNCHANGED <<upstream, chan, pump, frame, last, sink, cursorFile, start,
                 counts>>

(* Without a cursor the upstream starts at its live edge.  It may begin    *)
(* with a notice: an #info message, or an error frame about the cursor.    *)
Connect ==
  /\ ingest = "connect"
  /\ wire' = "open"
  /\ pos' = IF inHand = Unset THEN head ELSE inHand
  /\ \/ ingest' = "read" /\ inHand' = Nothing
     \/ ingest' = "send" /\ inHand' \in {InfoFrame, ErrorFrame}
  /\ UNCHANGED <<head, chan, pump, frame, last, sink, cursorFile, start,
                 counts>>

ConnectFails ==
  /\ ingest = "connect" /\ drops < MaxDrops
  /\ drops' = drops + 1
  /\ ingest' = "backoff" /\ inHand' = Nothing
  /\ UNCHANGED <<upstream, chan, pump, frame, last, sink, cursorFile, start,
                 crashes, signals>>

(* A frame that fails validation is counted and not relayed.               *)
Read ==
  /\ ingest = "read" /\ wire = "open" /\ pos < head
  /\ pos' = pos + 1
  /\ IF pos + 1 \in Rejected
     THEN UNCHANGED reader
     ELSE ingest' = "send" /\ inHand' = pos + 1
  /\ UNCHANGED <<head, wire, chan, pump, frame, last, sink, cursorFile, start,
                 counts>>

HasRoom == Len(chan) < Capacity

(* tx.send waits for room.                                                 *)
Send ==
  /\ ingest = "send" /\ HasRoom
  /\ chan' = Append(chan, inHand)
  /\ ingest' = "read" /\ inHand' = Nothing
  /\ UNCHANGED <<upstream, pump, frame, last, sink, cursorFile, start, counts>>

(* Mutant: no idle timeout, only a close ends a connection.                *)
OnlyClosed == wire = "closed"

(* A silent peer answers no pings and trips the idle timeout.              *)
Ended == wire \in {"closed", "silent"}

Disconnected ==
  /\ ingest = "read" /\ Ended
  /\ wire' = "none" /\ ingest' = "backoff"
  /\ UNCHANGED <<head, pos, inHand, chan, pump, frame, last, sink, cursorFile,
                 start, counts>>

BackoffOver ==
  /\ ingest = "backoff"
  /\ ingest' = "load"
  /\ UNCHANGED <<upstream, inHand, chan, pump, frame, last, sink, cursorFile,
                 start, counts>>

-----------------------------------------------------------------------------
(* The pump.                                                               *)

(* Mutant: only an older event is a duplicate.                             *)
StrictlyBelow(f) == f < last

AlreadyRelayed(f) == f <= last

(* One frame leaves the channel.  Error frames and duplicates are dropped, *)
(* and last_seq is advanced before the frame is published.                 *)
Receive ==
  /\ pump = "select" /\ chan # <<>>
  /\ chan' = Tail(chan)
  /\ LET f == Head(chan) IN
       IF f = ErrorFrame \/ (f # InfoFrame /\ AlreadyRelayed(f))
       THEN UNCHANGED <<pump, frame, last>>
       ELSE /\ pump' = "publish" /\ frame' = f
            /\ last' = IF f = InfoFrame THEN last ELSE f
  /\ UNCHANGED <<upstream, reader, sink, cursorFile, start, counts>>

Events(group) == {group[i] : i \in 1 .. Len(group)} \cap Valid

GroupFull(group) == Len(group) >= GroupSize

(* publisher.write: the frame is streamed; a full group is rotated next.   *)
Publish ==
  /\ pump = "publish"
  /\ open' = Append(open, frame)
  /\ out' = IF frame = InfoFrame THEN out ELSE Append(out, frame)
  /\ published' = published \cup ({frame} \cap Valid)
  /\ pump' = IF GroupFull(open') THEN "store" ELSE "select"
  /\ frame' = Nothing
  /\ UNCHANGED <<upstream, reader, chan, last, stored, cursorFile, start, counts>>

(* Still in write: the full group goes to the store.                       *)
StoreGroup ==
  /\ pump = "store"
  /\ stored' = stored \cup Events(open)
  /\ open' = <<>>
  /\ pump' = "select"
  /\ UNCHANGED <<upstream, reader, chan, frame, last, out, published, cursorFile,
                 start, counts>>

(* Mutant: frames still in the channel count as relayed.                   *)
NewestReceived == IF chan # <<>> THEN chan[Len(chan)] ELSE last

CursorToWrite == last

(* persist_cursor: nothing is written before the first event, and a failed *)
(* write is only warned of.                                                *)
PersistCursor ==
  \/ UNCHANGED cursorFile
  \/ CursorToWrite >= 0 /\ cursorFile' = CursorToWrite

CursorTick ==
  /\ pump = "select"
  /\ PersistCursor
  /\ UNCHANGED <<upstream, reader, chan, pump, frame, last, sink, start, counts>>

(* A SIGTERM.  The listener is created anew for every select, and sees     *)
(* only signals that arrive while the pump waits there; with a frame ready *)
(* the select may be over before the listener was polled.                  *)
Sigterm ==
  /\ pump \in {"select", "publish", "store"} /\ signals < MaxSignals
  /\ signals' = signals + 1
  /\ \/ pump = "select" /\ pump' = "finish"
     \/ ~(pump = "select" /\ chan = <<>>) /\ UNCHANGED pump
  /\ UNCHANGED <<upstream, reader, chan, frame, last, sink, cursorFile, start,
                 drops, crashes>>

(* Mutant: the open group is not flushed.                                  *)
NotFlushed == {}

FlushedGroup == Events(open)

(* publisher.finish.                                                       *)
Finish ==
  /\ pump = "finish"
  /\ stored' = stored \cup FlushedGroup
  /\ open' = <<>>
  /\ pump' = "exit"
  /\ UNCHANGED <<upstream, reader, chan, frame, last, out, published, cursorFile,
                 start, counts>>

(* The process is gone, and with it the connection and everything in RAM.  *)
ProcessEnds ==
  /\ pump' = "down" /\ frame' = Nothing /\ open' = <<>> /\ chan' = <<>>
  /\ ingest' = "off" /\ inHand' = Nothing
  /\ wire' = "none"

(* The final persist_cursor, and the process returns.                      *)
Exit ==
  /\ pump = "exit"
  /\ PersistCursor
  /\ ProcessEnds
  /\ UNCHANGED <<head, pos, last, stored, out, published, start, counts>>

Crash ==
  /\ pump # "down" /\ crashes < MaxCrashes
  /\ crashes' = crashes + 1
  /\ ProcessEnds
  /\ UNCHANGED <<head, pos, last, stored, out, published, cursorFile, start,
                 drops, signals>>

(* load_initial_cursor: the file first, the flag when there is none.       *)
InitialCursor == IF cursorFile # Unset THEN cursorFile ELSE flag

Start ==
  /\ pump = "down"
  /\ last' = InitialCursor /\ base' = InitialCursor
  /\ out' = <<>>
  /\ ingest' = "load" /\ pump' = "select"
  /\ UNCHANGED <<upstream, inHand, chan, frame, open, stored, published, cursorFile,
                 flag, counts>>

Init ==
  /\ head = 0 /\ wire = "none" /\ pos = 0
  /\ ingest = "off" /\ inHand = Nothing
  /\ chan = <<>> /\ pump = "down" /\ frame = Nothing
  /\ flag \in Flags /\ last = flag /\ base = flag
  /\ open = <<>> /\ stored = {} /\ out = <<>> /\ published = {}
  /\ cursorFile = Unset
  /\ drops = 0 /\ crashes = 0 /\ signals = 0

IngestStep == LoadCursor \/ Connect \/ Read \/ Send \/ Disconnected \/ BackoffOver
PumpStep   == Receive \/ Publish \/ StoreGroup \/ Finish \/ Exit

Next ==
  \/ Emit
  \/ \E how \in {"closed", "silent"} : Disturb(how)
  \/ IngestStep
  \/ ConnectFails
  \/ PumpStep
  \/ CursorTick
  \/ Sigterm
  \/ Crash
  \/ Start

(* Both tasks keep being scheduled, timers fire, and a supervisor restarts *)
(* the process.  Neither the upstream nor any failure is owed.             *)
Spec ==
  /\ Init /\ [][Next]_vars
  /\ WF_vars(IngestStep) /\ WF_vars(PumpStep) /\ WF_vars(Start)

-----------------------------------------------------------------------------
(* Properties.                                                             *)

(* Within a run events are published once and in order, however often the  *)
(* connection is lost and however much of the stream it replays.           *)
PublishedOnceInOrder ==
  \A i, j \in 1 .. Len(out) : i < j => out[i] < out[j]

(* A run that resumes from a cursor skips no valid event: what it has      *)
(* published is everything from the cursor to its newest event.            *)
ResumedWithoutGap ==
  base # Unset /\ out # <<>> =>
    {out[i] : i \in 1 .. Len(out)} = {x \in Valid : base < x /\ x <= out[Len(out)]}

(* The cursor file never covers an event that was not published: neither a *)
(* queued frame nor one in flight when the process died.                   *)
CursorCoversPublished ==
  flag # Unset => \A x \in Valid : flag < x /\ x <= cursorFile => x \in published

(* A crash takes at most one group out of replay, the open one or the full *)
(* one that was streamed and not yet stored, and a clean stop takes        *)
(* nothing, as long as the store takes what it is given.                   *)
LossIsBounded ==
  Cardinality(published \ (stored \cup Events(open))) <= crashes * GroupSize

(* Every valid event above the cursor is published in the end, through     *)
(* closed and silent connections, failed attempts, crashes and restarts.   *)
EventuallyPublished ==
  \A x \in Valid : (flag # Unset /\ flag < x /\ x <= head) ~> x \in published

=============================================================================
