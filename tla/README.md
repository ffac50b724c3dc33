# atmoq, verified

TLA+ modules, TLC configurations and TLAPS proofs for the relay and the clients
in this repository. Every definition is translated from the source; the file and
lines it stands for are in `PROJECT.json` under `map`. Paths below are relative
to `src/`; `main.rs`, `store.rs`, `router.rs`, `ingest.rs`, `dialect07.rs`,
`drisl.rs`, `frame.rs`, `car.rs` are those of `rust/crates/atmoq/src/`, `track.rs`,
`broadcast.rs`, `origin.rs`, `publisher.rs`, `subscriber.rs` those of the patched
`rust/vendor/moq-net/src/`.

    tlc -workers 2 -config GroupStore.cfg GroupStore.tla
    tlapm LitePublisherProofs.tla

## The system

    upstream firehose --websocket--> ingest task --bounded channel--> pump
                                                                       |
         cursor file <---- timer ------------- FramePublisher: Lite, or Draft-07 --> relay
                                                          |       |        |            |
                                                  sidecar file  track    GroupStore     |
                                                                cache       |           |
                                                          |       |         |           |
                    DidRouter <-- frames by account ------+       +-- run_track         |
                        |                                              |                |
                        +------------ subscribers: Go, TS, the CLI's moq_reader --------+
                                                                       |
                                                    output channel --> print_events

| Component | State | Operations | What makes it correct |
| --- | --- | --- | --- |
| Disk group store (`store.rs`) | segment files, in-memory index, one writer, highest sequence | `append`, `gc`, `locate` + `read_group_at`, `scan` on open | what was acknowledged reads back, whatever tears, rotates or is collected; nothing wrong is ever read |
| Lite publisher (`main.rs` 735-1056) | open group, its frames, sidecar with the last sequence, cache | `write`, rotation, `gc`, `finish`, start-up seeding | no sequence carries the frames of two runs; stored groups are whole unless their append failed; only a crash, a store failure or retention loses frames |
| Replay and live delivery (`publisher.rs` 360-530) | per subscription: next group, stage | backfill from the store, hand-off, live groups | a resumed subscriber gets every readable group once and in order |
| Ingest and pump (`ingest.rs`, `main.rs` 1299-1550) | connection, channel, shared `last_seq`, cursor file | connect, read, dedupe, publish, persist cursor, stop | published once, in order, without gaps; the cursor never runs ahead |
| Draft-07 publisher (`dialect07.rs`) | session, dead flag, group numbering | write, probation, reconnect | ids never reused, each frame written once over all sessions |
| DidRouter (`router.rs`, `broadcast.rs` 248-408) | routing map with generations, watchers, request queue, weak lookup | subscribe, take, register, refuse, drop idle | a subscriber is never left on a track nobody feeds; the cap holds |
| Go client (`go/client.go`) | subscription map, per-subscription queue, wake-up channel, frame channel | subscribe, accept loop, dispatch, goroutine, `ReadFrame`, closing | order, isolation of subscriptions, nothing forgotten, shutdown |
| Consumer CLI (`main.rs` 360-660, `dialect07.rs` `subscribe_loop`) | per track: subscription, `last_seq`; output channel; the printer's `last_seq` and count | resubscribe, dedupe, print, limits, idle end | each event once and in order over restarts; nothing waits forever |
| Frame, DRISL and CAR decoding (`frame.rs`, `drisl.rs`, `car.rs`) | none | `validate_exact`, header split, `blocks` | exactly the canonical encodings; one place to split; whole entries only |
| TypeScript client (`ts/src`) | subscription queue | subscribe, read | not modelled |
| Metrics, health, admin (`metrics.rs`, `web.rs`, `heap.rs`) | counters | render | not modelled |
| Go and TypeScript decoders | none | pure functions | not modelled |
| moq-native, the rest of moq-net | | | third party |

The hard parts are crashes between the sidecar, the cache and the store; reads
that locate a group under a lock and use it after releasing it; a cache that
loses groups on another thread than the one that serves them; request queues
and watchers that run late; connections and sessions that vanish silently; a
publisher that writes again what it has written before; and goroutines that must
neither miss a wake-up nor outlive their subscription. `PROJECT.json` lists them
line by line under `hazards`.

## Modules

| Module | Models | Relation |
| --- | --- | --- |
| `ReplayLog` | abstract: a log of groups, appended to at the top, cut at the bottom | what the store promises and the publisher relies on |
| `GroupStore` | the disk store | implements `ReplayLog`; proofs in `GroupStoreProofs` |
| `LitePublisher` | `FramePublisher::Lite` over the store as a set of groups | uses the store as `ReplayLog` allows; proofs in `LitePublisherProofs` |
| `Replay` | subscribers | extends `LitePublisher`: each publisher step moves the cache and the store under the subscribers; proofs in `ReplayProofs` |
| `Pump`, `MCPump` | ingest task, pump, cursor file | the publisher is what `LitePublisher` promises; `MCPump` defines the one constant a cfg cannot write; proofs in `PumpProofs` |
| `Dialect07` | the reconnecting draft-07 publisher | proofs in `Dialect07Proofs` |
| `SelectiveSync` | abstract: who waits, is fed or was told, which accounts are served, which were found idle | what selective sync promises |
| `DidRouter` | router and dynamic broadcast | implements `SelectiveSync`; proofs in `DidRouterProofs` |
| `GoClient` | one Go session | proofs in `GoClientProofs` |
| `Reader`, `MCReader` | the consumer CLI | its publisher is any that writes again after a restart; `MCReader` defines the command lines tried; proofs in `ReaderProofs` |
| `Drisl` | the byte decoders as operators | |
| `Decoders`, `MCDecoders` | every input of a few pieces, and the reference the decoders are compared with | extends `Drisl` |

### GroupStore

A file is a sequence of cells: a record is one header cell and `n` body cells.
A torn append is a strict prefix of a record, an offset that is off reads
something that is not a header. `BeginAppend`/`EndAppend`/`FailAppend` are the two
halves of `append` (the writer may rotate first), `BeginGc`/`DropOldest`/`EndGc`
the loop of `gc`, `Open` the scan. `Locate` and `Fetch` are `StoreSource::group`:
the location is found under the lock, the file read after it, so GC and appends
fall in between. `Crash` stops the process anywhere, also inside an append;
`Legacy` puts a v1 file in the directory before the first start. Not modelled:
an error opening a segment file; a clock that steps back.

### LitePublisher

Frames are numbers. The steps of one `write` that touch different memories are
different actions, because a crash may fall between them: `Write` (the frame is
streamed; a full group rotates), `Rotate` (the new group is visible, the
cache may evict), `StoreFinished` (the finished group is appended), `Persist` (the
sidecar, or a failure that is only warned of). `Finish` is the clean stop, `Boot`
the scan of the store and the seeding from it and the sidecar. The variable
`unsaved` is history: the sequences streamed while the sidecar on disk was behind
them because a write of it had failed. A legacy store without a sidecar is part
of `Init`.

The disk is two sets of groups: `store`, where the index has them, and `misplaced`,
in a file at another offset than the index says. An append ends in one of three ways. It
fails (`AppendFails`: the error is logged and the relay goes on) and leaves nothing, or
bytes in the file or the `BufWriter`, and the write segment is `torn` from then on; it goes
behind such bytes and is acknowledged although it cannot be read (`AppendBehind`); or it
goes where the index has it, into a sound segment or into a new one, since every append
may find the segment full (`AppendInPlace`). At the next start `Scan` finds any of the
misplaced groups and cuts the others off. One whose own append was refused may be found
with a body that is not its own, when the next record completed it (`CutShort`, here a
group without frames). How the bytes come to lie is `GroupStore`'s; a header put together
out of two records is taken to be none. `reload_window` is taken to succeed.

### Replay

A subscription is `detached`, in `backfill`, in `handoff` or `live`. The floor of
the cache is read again before every group of the backfill (`BelowCache`), the
live loop takes the lowest cached group not below its own (`Untaken`). One
assumption about time is stated as `Prompt`: a group is not evicted before a
subscriber that was already looking at the cache has taken it. The window is
minutes, the step microseconds. The constant `Races` lifts the assumption for
two cases in which it is not obviously justified (below); the passing run and
`ServedWithoutGap` have `Races = {}`, so they say nothing of these two. A misplaced group
is in the index (`Indexed`) but is skipped as unreadable; one with a body that is not its
own may read as a group or as an error. Not modelled: the end of a track, priorities,
the frames within a group.

### Pump

The upstream is external: events 1, 2, ... replayed above a cursor. Connections
are lost, refused, or go silent and are ended by the idle timeout. The channel has room
for `Capacity` frames. Frame 0 is an info frame, -1 an upstream error frame.
`Publish` streams a frame and `StoreGroup` stores the group it filled: two steps, because
a crash may fall between them and then costs the whole group. `Finish` is reached through
the signal, `Crash` anywhere; `Start` restarts with `--cursor` or the cursor file. Not in
it: dialect 07 and appends that fail (`Dialect07` and `LitePublisher` have them), and an
upstream whose sequences go back.

### Dialect07

`ResilientPublisher::write` is the loop `Take`, `Check`, `Connect`,
`ProbationOver`, `Write` or `WriteFails`; it never returns before the frame is in
a session's buffer. A session's task (`Answer`, `SessionEnds`, `RaiseFlag`) and
the relay's hold on the namespace (`claim`, `Release`, `OtherClaims`) run beside
it. A session that has ended takes frames until its flag is seen; `after` and
`late` are history and count them. `Crash` starts a new life at an older frame.
The clock advances by one when a session is opened and when a group is started, as
the millisecond that starting one takes at least, and is not set back. The relay
and the transport are external.

### DidRouter

Tracks are numbered in the order they are created. moq-net's clean-up task
(`NetUnused`, `NetCleanup`) and the router's watcher (`Unused`, `DropIdle`) are
two tasks of two steps each: see that nobody consumes, then remove. Requests are
popped newest first, as `Vec::pop` does. The constant `Races` lets a subscriber
leave before its request was handled (`backlog`) or join inside moq-net's
clean-up (`cleanup`); the passing run, `NobodyStarves` and `RouterImplementsSelectiveSync`
have neither. Not modelled: the rotation of groups inside `route`.

`SelectiveSync` knows no tracks. Its actions are what a subscriber can observe: it
asks, joins an account that is served, is served or declined together with everybody
who waits for the name, leaves, or is told. `Stands` maps a subscription to it by the
place of its track: in the queue or the hand, closed, or in the routing map; an open
track that is nowhere is `starved`, for which the abstract module has no word. `Take`,
moq-net's clean-up and a stale watcher are hidden steps. An account found without
subscribers may be joined again before it is dropped; the promise says that exactly
these joiners are cut off, and are told.

### GoClient

The accept loop (`Accept`, `Enqueue`, `Kick`) looks a subscription up under the
session's lock, queues the stream under the subscription's, and only then wakes
the goroutine; the goroutine (`Take`, `Park`, `Wake`, `ReadGroup`, `Deliver`,
`Drain`) sees an empty queue under the lock and selects after releasing it. Each
of these is an action. A subscription ends by `CloseSub`, `ControlEnds`,
`Oversized` or `FailAll`. `delete` and `fail` in `Close` are one action: between them
streams are cancelled exactly as after them. Subscriptions that are not in
`Attentive` are the stalled neighbours: they start open, their channel full and a
frame waiting to be delivered, a state any session can be in. Not modelled: the
requested start group (`Replay` has it), header parsing beyond the error it can
be, and how late bytes arrive, which only delays steps.

### Reader

One reader per track (`Subscribe`, `NextGroup`, `ReadFrame`, `Send`, `GroupDone`,
`FrameError`, `TrackEnded`, `LoopEnds`), a bounded channel, and the printer
(`PrintEvent`, `IdleTimeout`). `Lite` tells the reader of `main.rs` from the one of
`dialect07.rs`: only the first has a high-water mark, and they differ in what a
bad frame ends. The main track's events are deduplicated once more by the printer,
those of wanted accounts are not. The publisher is external and hostile to a
dedup: it dies, returns at an older event and writes again what it wrote, in other
groups; the relay ends tracks; group streams come late, break off, or are lost.
`Given` is what moq-net hands out: groups not below the one the subscription joined
at, in any order the streams arrive. Not modelled: `--relay-host`, which reads the
websocket as `Pump` does but without its reconnects; what an event looks like.

### Drisl, Decoders

`Drisl` has the validator (`ValidateExact`), the header/payload split
(`HeaderEnd`) and the CAR reader (`Blocks`), each a recursive function over byte
offsets, as the code is. `Decoders` builds inputs: a document is put together from
pieces, a CAR from entries and then cut off anywhere. The reference decodes
leniently, as ciborium does, encodes the result deterministically, and compares the
bytes. For the widths of arguments, lengths, the order of keys, duplicates and nesting it
is independent of the validator. What has only one form it states again: which floats,
simple values and tags there are (42 and its prefix), that keys are text, and UTF-8; there
the comparison shows only that the validator applies its rules everywhere. The width
at which a varint of the CAR reader overflows is the constant `VarintBits`, 8
instead of 64: both are one more than a multiple of 7, so the last byte has room
for one bit. Keys are shorter than 24 bytes, and characters at most two.

## Runs

| Run | Checks | Bounds |
| --- | --- | --- |
| `group_store` | `ReadsAreSound`, no read returns another group's content or a torn one; `AckedGroupsReadBack`; `HighWaterCovers`, the highest sequence survives reopening; `GcDropsOnlyWhatItMay`, `GcReachesItsBounds`; `ImplementsReplayLog` | 5 sequences, 2 crashes, segments of 3 cells, so every two records rotate; budgets of nothing and of 5 cells, one reader |
| `group_store_append_errors` | `ReadsAreSound` when appends fail half-way, as long as the process lives | bodies of 1 or 2 cells, so that a misplaced offset can hit a body; no crash |
| `lite_publisher` | `SequenceNeverReused`, `StoredIsWhole`, `EveryFrameAccounted`, `UsesReplayLog`, the store is used as `ReplayLog` allows | groups of 2 frames, 5 frames, 5 sequences, 3 runs: a failed append, a group behind it, and a scan and a third seeding after them; store and sidecar may fail at any write |
| `replay` | `NoGap`, `ServedOnceInOrder`, `EventuallyServed` | 5 sequences, 3 frames, 2 runs, appends that fail; one subscriber: subscribers share nothing they write; `Races = {}`: no eviction of a finished group before it is stored, nor inside a hand-off |
| `pump` | `PublishedOnceInOrder`, `ResumedWithoutGap`, `CursorCoversPublished`, `LossIsBounded`, `EventuallyPublished` | 3 events of which one is rejected, appends that succeed, a channel of 1 so that it is often full, 2 bad connections, 1 crash, 1 signal |
| `dialect07` | `TypeOK`, `GroupIdsUnique`, `WrittenOnceInOrder`, `DeadSessionsTakeOneFrame`, `WriteReturns` | groups of 2 frames, 3 frames, 3 sessions, 2 lives: a session can be refused, die under a frame and be replaced in both lives |
| `did_router` | `TypeOK` with the cap, `NeverStarved`, `IdleTrackDropped`, `ImplementsSelectiveSync` | 2 clients, 3 accounts over a cap of 2, a name that is no DID, 3 tracks: one account can be dropped and served again; `Races = {}`: no stale request, no join inside moq-net's clean-up |
| `did_router_backlog` (violated) | `NeverStarved` with `Races = {"backlog"}` | 1 account, 4 tracks |
| `go_client` | `FramesInOrder`, `NothingSkipped`, `QueuedIsSeen`, `AttentiveServed`, `ShutsDown` | a stalled and a reading subscription, two groups of two frames each, a channel of 1 |
| `reader` | `PrintedOnceInOrder`; `GapsExplained`, an event is missing only if the network lost a copy; `NothingWaitsForever`; `SubscribedAgain` | five command lines (whole firehose with a limit, with an idle end, over draft-07, and two accounts), scripts of 2 or 3 events with frames that have no sequence or are garbage, 2 lives, groups of 2, a channel of 1 |
| `reader_session_lost` (violated) | `ResubscribesAcrossRestarts` | as above |
| `decoders` | `AcceptsExactlyCanonical`, `BoundaryUnique`, `ReadsWholeEntries` | documents of up to 4 pieces out of one of three sets (scalars; arrays and maps; links), nesting up to a `MaxDepth` of 2, CARs of up to 3 entries out of 11, cut off anywhere |

Counters are bounded by guards; each bound is a named constant. `CHECK_DEADLOCK
FALSE` stands where the bounded system comes to an end or really may rest. Every
property has a mutant of the code that it refuses (`mutants`).

### Fairness

- `Replay`: weak fairness of each subscriber's task, never of the publisher:
  a relay that publishes nothing more is allowed.
- `Pump`: the ingest task, the pump and the supervisor that restarts the process.
  Losses and crashes are bounded, so nothing needs strong fairness.
- `Dialect07`: the writer (the relay can be reached sooner or later), each
  session's task, and a relay that answers and forgets dead sessions. Nothing is
  asked of other publishers, who may hold the namespace as long as they like but
  for `Release`.
- `DidRouter`: the router's task and its watchers, which are tokio tasks.
  Nothing is asked of moq-net's clean-up; clients may stay, leave or never come.
- `GoClient`: the goroutines; the second half of `Session.Close`; the end of the
  control streams of a dead connection, which the idle timeout of
  `dialQUICConfig` guarantees; and `ReadFrame` of the attentive only. A server is
  assumed to finish or reset every group stream it opened.
- `Reader`: the readers, who take the groups they are given in turn, and the
  printer. Nothing of the publisher, the relay or the network, nor of the idle
  timer.

## What disagrees with the code's own words

Two runs end in a violation, and each contradicts a comment (quoted in
`PROJECT.json` under `findings`).

1. `did_router_backlog`: a stale request of an account is popped after its fresh one,
   replaces the fresh track, and its watcher then takes the entry away.
2. `reader_session_lost`: `moq_reader` is said to resubscribe across publisher
   restarts. When the restart ends the session (the publisher is `atmoq serve`
   itself) it waits for an announcement that nothing can make: the origin is not
   closed with its session, and the session is opened once.

Seen while modelling, without a run of their own. The models reproduce the first
group when the named constant or property is changed:

- `Races = {"finished"}` in `Replay` violates `NoGap`: rotation evicts by age before
  the finished group is in the store (`main.rs` 931). If one group took longer to
  fill than the replay window, a backfill finds it in neither and skips it.
- `Races = {"handoff"}` in `Replay` violates `NoGap`: a rotation between the last look
  at the floor and the first live read skips the group at the boundary
  (`publisher.rs` 454).
- `Races = {"cleanup"}` in `DidRouter` violates `NeverStarved`: a subscriber joins
  inside moq-net's clean-up (`broadcast.rs` 390).
- An append that fails after bytes reached the file returns before `seg.bytes` moves
  (`store.rs` 161). `AppendMayFail = TRUE` with `AckedGroupsReadBack` is violated: later
  records of the segment lie past the offset the index gives them, acknowledged and
  unreadable. Until the store is reopened the reads fail and never return wrong content
  (`group_store_append_errors`). `MaxCrashes = 1` in that configuration violates
  `ReadsAreSound`: after a restart the scan takes the torn record, filled up with the
  bytes of the next one, for the whole group, since it checks only that the claimed
  length ends inside the file (`store.rs` 316). A store failure is said to leave a gap
  that consumers repair (`main.rs` 935); here it leaves a group with another's frames.
  `LitePublisher` carries what follows from it: `StoredIsWhole` excepts exactly the
  groups whose own append failed, and `EveryFrameAccounted` counts the groups behind them
  as lost. The former may even keep the relay down: inside the replay window an unreadable
  group makes `reload_window` give up, and start-up with it, until the window has passed.
- In `Pump` a signal can fall outside `select`, for which the listener is created
  anew each time (`main.rs` 1469), and is then swallowed.
- In `GoClient` a stream queued for a subscription whose `Subscribe` then fails is
  neither read nor cancelled (`go/client.go` 217).
- After a failed sidecar write a crash reuses sequences: `SequenceNeverReused` says
  exactly which.

And these lie outside what the modules can show:

- A segment the scan cut down to nothing has `first_seq` 0 (`store.rs` 355), and GC
  may then keep index entries of a deleted file, so that `oldest_seq` names a group
  that is gone. `reload_window` gives up on the first group it cannot read
  (`main.rs` 809), and start-up fails with it.
- A replaced track is never counted as closed (`router.rs` 154), so the gauge of
  live tracks drifts. At the cap a new track for an account already served is
  refused (`router.rs` 117).
- With `--wanted-dids` the original sender of the output channel stays alive, so the
  printer never sees the readers go; the message "origin closed" (`main.rs` 525) is
  never printed.
- The dedup by high-water mark (`main.rs` 557) also drops events that were never
  delivered, when their group was truncated or came after a newer one: that is what
  `GapsExplained` permits. A reader that waits for room in the channel loses groups
  evicted from moq-net's cache meanwhile.
- The header comment of `dialect07.rs` (12-14) still says that a session does not
  reconnect by itself. A clock set back makes a new session reuse group ids. An
  upstream whose sequences go back is dropped until it catches up (`main.rs` 1498).
- A sequence of 2^63 or more wraps to a negative one (`frame.rs` 66, `main.rs` 584).
- After the end `ReadFrame` may return the error before a frame that `deliver` still
  puts into the channel (`go/client.go` 434).

## What is proved

For every value of the constants, from the named assumption on them alone
(`StoreAssumption`, `PublisherAssumption`, and so on), unless the statement names a
condition:

| Module | Theorem | Statement |
| --- | --- | --- |
| `GroupStoreProofs` | `StoreInvariant` | `Spec => []IInv` when `AppendMayFail = FALSE`, as for the others of this module but the last two |
| | `StoreReadsAreSound`, `AckedGroupsAreKept`, `HighWaterHolds` | `Spec => []` of `ReadsAreSound`, `AckedGroupsReadBack`, `HighWaterCovers` |
| | `GcDropsNoMore`, `GcDropsEnough` | `Spec =>` `GcDropsOnlyWhatItMay`, `GcReachesItsBounds` |
| | `StoreImplementsReplayLog` | `Spec => ImplementsReplayLog`: the segment files implement `ReplayLog` |
| | `FailedAppendsDoNoHarm` | `Spec => []ReadsAreSound` when `MaxCrashes = 0`: appends may fail half-way |
| | `IndexStaysInRange` | `Spec => []EntriesInRange` when `MaxCrashes = 0` or `AppendMayFail = FALSE`: an index entry names a segment that exists |
| `LitePublisherProofs` | `SafetyInvariant` | `Spec => []SafetyInv` |
| | `TypeCorrect`, `NeverReused`, `StoredWhole`, `FramesAccounted` | `Spec => []` of `TypeOK` (proved only), `SequenceNeverReused`, `StoredIsWhole`, `EveryFrameAccounted` |
| | `StoreUsedAsLog` | `Spec => UsesReplayLog`: the publisher asks of the store no more than `ReplayLog` offers, but for the scan of a torn segment |
| `ReplayProofs` | `PublisherUndisturbed` | `ReplaySpec => Spec`: with its subscribers the publisher still implements its own specification |
| | `ServedInOrder` | `ReplaySpec => []ServedOnceInOrder`, under every race |
| | `ServedWithoutGap` | `ReplaySpec => []NoGap` when `Races = {}` |
| `PumpProofs` | `InOrder`, `ResumesWithoutGap`, `CursorIsCovered`, `LossBounded` | `Spec => []` of `PublishedOnceInOrder`, `ResumedWithoutGap`, `CursorCoversPublished`, `LossIsBounded` |
| `Dialect07Proofs` | `TypeCorrect`, `IdsNeverReused`, `DeadSessionsSwallowLittle`, `NoFrameSkipped` | `Spec => []` of `TypeOK`, `GroupIdsUnique`, `DeadSessionsTakeOneFrame`, `WrittenOnceInOrder` |
| `ReaderProofs` | `OnceInOrder`, `GapsAreExplained` | `Spec => []` of `PrintedOnceInOrder`, `GapsExplained` |
| `GoClientProofs` | `DeliveredInOrder`, `GroupsWhole`, `NoStreamForgotten` | `Spec => []` of `FramesInOrder`, `NothingSkipped`, `QueuedIsSeen` |
| `DidRouterProofs` | `CapHolds` | `Spec => []TypeOK`, which has the cap |
| | `NobodyStarves` | `Spec => []NeverStarved` when `Races = {}` |
| | `RouterImplementsSelectiveSync` | `Spec => ImplementsSelectiveSync` when `Races = {}`: the promise `SelectiveSync` states |

None of these is inductive as it stands. Each proof has a strengthening that TLC
checked first, one lemma or step per action, and under it one step per conjunct
the action can disturb.

**GroupStore.** `IInv` says what is in the files, whether the store is open or not: a
file is a row of records of which only the last may be cut (`Laid`), sequences and times
grow within it and agree with its name (`InOrder`), and files follow each other as their
names do (`Apart`). While the store is open no record is cut (`Uncut`), the segments
describe the files, their logical end being the physical one (`SegmentsOK`), every whole
record is in the index at its place (`IndexOK`), and an append in progress is of a group
newer than everything on disk, into the newest file (`OpOK`). After a crash the newest
file alone may end in a cut record. The scan is a recursive function: `ScanFinds` shows,
from the last header backwards, that on such a file it finds exactly the whole records,
so that `Open` cuts only what `Crash` tore. GC frees the oldest segment; that it drops
neither too much nor too little follows from `newest` being the time of the newest group.
For the refinement, `EndAppend` is a confirmed `Store`, a crash inside an append an
unconfirmed one or nothing, `DropOldest` an `Evict` of the newest group of the dropped
file or nothing, and every other step a stutter. The condition is needed: with appends
that fail the files are not rows of records any more; what then happens is said above.

What remains is `FailedAppendsDoNoHarm`, for one run of the process, on an invariant of
its own. Cells of torn records may be anywhere in the files and in the writer's buffer
(`pending`), and offsets in the index may be wrong, but a sequence is handed to `append` once, so the
torn records are of groups no reader asks for: `SoundInv` says that the cells in the
buffer are of no sequence that is in the index or located by a reader (`Stray`), and
that in the files every header of such a sequence begins its whole record
(`FileSound`). A read at any offset then finds a body, a header of another sequence, or
the group. `Placed` adds the ranges of sequences the segments stand for: it shows that
the comparison in `SurvivesDrop` tells the entries of the dropped segment from the
others, so that shifted segment numbers stay in range. With crashes and failing appends
together `ReadsAreSound` is violated (above), so neither of its two conditions can go.

**LitePublisher.** `SafetyInv` adds four facts to `TypeOK`, `SequenceNeverReused`
and `StoredIsWhole`: `OpenGroup`, where the open group stands in each phase of a
write, and that nothing was streamed above it; `SeedCovers`, the sidecar, the
store and `unsaved` together cover every sequence ever streamed (the fact a crash
relies on: `Boot` starts above the sidecar and the store, so what it reuses is in
`unsaved`); `BufferIsGroup`, the buffer holds exactly the frames streamed in the
open or just finished group, so that what is appended is whole; `MisplacedIsWhole`,
what lies in a file where the index does not look is whole too and lies behind a refused
append, so that a scan brings back whole groups but for those it completes, which are
refused ones. `StoreUsedAsLog`
maps a stored group to its sequence and run: by `StoreMoves` a step appends one group
above every stored one, drops a group and all older ones, leaves the store alone, or is a
start that recovers misplaced groups.
The first of these rests on `OpenGroup`, which a restart re-establishes because the
seeding starts above the highest stored group. Together with `StoreImplementsReplayLog` it
says that the two modules meet in the middle: what the publisher asks of the log
is what the segment files provide, as long as appends succeed. That a stored group holds the right frames is
`StoredIsWhole`.

**Replay.** `OrderInv`: the cache holds the open group or lies below it, and a
subscription's served groups are in order and below its next one. It needs no
assumption about time. `GapInv` adds that every group is either behind the
subscription, still to come, or readable in the store or in the cache where the present stage
will look (`Behind`, `LeftToCache`, `Ahead`), and that a finished group that is
not yet stored is cached: this is what `Prompt` keeps.

**Pump.** What has been received, what is in the channel and what is in hand form
one stream without a hole above `last_seq` (`Gapless`); `last_seq` covers only what
is published or in hand; the cursor file is never above it; the open group is full
only while it is being stored.

**Dialect07.** `IInv` adds to `TypeOK` that every id given out is below the clock and
the sessions' ranges follow each other (`IdsBehindClock`), and that the writer looks
at the flag before every frame (`FlagsSeen`). `WInv` adds that a life's sessions hold
exactly the frames from its start to the next one.

**Reader.** Per track: what is printed is below what is queued, that below the frame
in hand, and that is `last_seq`; or, for the reader without a high-water mark, what
is printed is at most the printer's `last_seq`, which only one track feeds.
`GapsExplained` needs to know where each missing event went (`Accounted`). A publisher
that returns starts at a place in its script it had reached, so every event has a
copy before each copy of a later one, in whichever life that was written
(`WrittenInOrder`). While the printer runs, an event below one that is queued is
printed, queued before it, or *skipped*: it has a copy in a group that its reader left
before the end and cannot be given again. The same holds below the frame in hand, and
of every frame a reader has read (`Tracked`). So nothing is printed above an event that
is neither printed nor skipped (`NoneBelow`): a reader may leave a group, but none of its
marks can pass an event that was not lost on the way to it. What is skipped stays so,
over every later subscription.

**GoClient.** `Way`: the group in the goroutine's hands, its queue, the stream the
accept loop holds, the wire and what the server has yet to open follow each other in
sequence. `Progress`: what was delivered of the group in hand is its first frames up
to the one being read. `Seen`: a goroutine that exited did so for good with an empty
queue, and one that sleeps beside a stream is about to be woken.

**DidRouter.** Each request is once in the queue or the hand, each registered track
has a generation of its own, and the map's entry of a name is a track of that name
with its watcher alive (`Materialized`). With no race, a track somebody consumes is
the one the lookup names (`Shared`), a pending track is consumed (`Wanted`), and the watched
track the lookup names is the map's (`Routed`): a track registered over another is the
one the lookup names, so it replaces one nobody consumes. The cap rests on counting:
each generation stands for one decided request (`Counted`).

For the refinement the invariant gains that a refused track was never registered
(`Unserved`). Nobody being starved, a client's place follows from the queue and the
routing map alone (`StandsSettled`, `Places`), and all who wait for a name or are fed
with it are on the one track the lookup has (`Together`). So a decision of the router
is one for everybody who waits, a registration that replaces an entry replaces one
nobody is fed from, and a watcher whose generation agrees is that of the track served
(`OwnEntry`). `Subscribe` maps to `Ask` or `Join`, `Register` to `Serve`, `Reject` and
`Refuse` to `Decline`, `Unused` and `DropIdle` to `Watchless` and `Drop` or nothing.

Only model-checked: the decoders (their operators are recursive over data), the
violated properties, and all liveness. The prover does not do liveness under fairness, nor induction over data.

## Plan

Done: all modules above and the proofs in the table. What is left, in this order:

1. What selective sync still promises under each of the two races, as a weaker abstract module.
2. The TypeScript client, whose queue differs from the Go client's in having no
   goroutine of its own; then the Go and TypeScript decoders against `Drisl`.

## Not modelled

- `DidRouter::route`'s rotation of groups: a counter and a threshold, as in
  `LitePublisher`.
- `metrics.rs`, `web.rs`, `heap.rs`: counters and their rendering, without influence on
  anything above.
- `json.rs` and the fields `Frame::parse` reads: conversions for display; the models
  use the sequence only.
- The direct websocket source of the CLI (`--relay-host`).
- The TypeScript client and decoders, and the Go decoders: siblings of modelled code.
- `moq-native` and the files of `moq-net` the repository neither patched nor relies on
  for replay and selective sync: third party.
- Tests and harnesses.
