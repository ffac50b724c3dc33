----------------------------- MODULE Dialect07 -----------------------------
(***************************************************************************)
(* Publishing to a draft-07 relay (dialect07.rs).  The pump hands one      *)
(* frame after the other to ResilientPublisher::write, which opens a       *)
(* session when it has none or its session is flagged dead, lets it stand  *)
(* on probation, and writes into the session's local buffer.  A task of    *)
(* its own runs each session and raises its dead flag when it is over:     *)
(* until then writes into a session that has ended succeed, and are lost.  *)
(*                                                                         *)
(* The relay is external: it gives the namespace to one session at a time, *)
(* refuses the others, may close a session, and notices a dead one late.   *)
(* The process may crash and start again from an older cursor.             *)
(*                                                                         *)
(* Time: opening a session and starting a group each take a millisecond,   *)
(* and the clock is not set back.                                          *)
(***************************************************************************)
EXTENDS Integers, Sequences

CONSTANTS
  GroupSize,    \* frames per group
  MaxFrames,    \* bound: frames upstream
  MaxSessions,  \* bound: sessions opened
  MaxLives      \* bound: lives of the process

ASSUME Dialect07Assumption ==
  /\ GroupSize \in Nat \ {0}
  /\ MaxFrames \in Nat /\ MaxSessions \in Nat /\ MaxLives \in Nat

VARIABLES
  now,       \* the clock
  pc,        \* where ResilientPublisher::write is
  inner,     \* its session
  sessions,  \* every session opened so far, with the groups in its buffer
  next,      \* the frame to write
  start,     \* history: the first frame of this life
  first,     \* history: the first session of this life
  life,
  claim      \* the session the relay has given the namespace to

vars == <<now, pc, inner, sessions, next, start, first, life, claim>>

None == 0
Other == -1

Newest == Len(sessions)

(* The groups of a session are numbered from the clock.                    *)
(* Mutant: from zero in every session.                                     *)
FromZero == 0

GroupBase == now + 1

NewSession ==
  [base |-> GroupBase, groups |-> <<>>, answer |-> "none",
   ended |-> FALSE, dead |-> FALSE, late |-> FALSE, after |-> 0]

GroupId(s, g) == sessions[s].base + g - 1

----------------------------------------------------------------------------
(* The writer.                                                             *)

Take ==
  /\ pc = "idle" /\ next <= MaxFrames
  /\ pc' = "check"
  /\ UNCHANGED <<now, inner, sessions, next, start, first, life, claim>>

Usable == inner # None /\ ~sessions[inner].dead

(* Mutant: a dead session is not let go.                                   *)
Forgotten == inner

Dropped == None

Check ==
  /\ pc = "check"
  /\ inner' = IF Usable THEN inner ELSE Dropped
  /\ pc' = IF Usable THEN "write" ELSE "connect"
  /\ UNCHANGED <<now, sessions, next, start, first, life, claim>>

(* publish; it is tried again until the relay can be reached.              *)
Connect ==
  /\ pc = "connect" /\ Newest < MaxSessions
  /\ sessions' = Append(sessions, NewSession)
  /\ now' = now + 1
  /\ pc' = "probation"
  /\ UNCHANGED <<inner, next, start, first, life, claim>>

(* Mutant: no probation.                                                   *)
NoProbation == TRUE

Established == ~sessions[Newest].dead

(* Mutant: a refused session is waited for.                                *)
StillOnProbation == "probation"

AfterRefusal == "connect"

ProbationOver ==
  /\ pc = "probation"
  /\ inner' = IF Established THEN Newest ELSE inner
  /\ pc' = IF Established THEN "write" ELSE AfterRefusal
  /\ UNCHANGED <<now, sessions, next, start, first, life, claim>>

(* A group is full, or there is none.                                      *)
Rotates(groups) == groups = <<>> \/ Len(groups[Len(groups)]) >= GroupSize

WithFrame(groups) ==
  IF Rotates(groups) THEN Append(groups, <<next>>)
  ELSE [groups EXCEPT ![Len(groups)] = Append(@, next)]

Write ==
  /\ pc = "write"
  /\ LET s == sessions[inner] IN
       /\ sessions' = [sessions EXCEPT ![inner] =
            [s EXCEPT !.groups = WithFrame(s.groups),
                      !.after = IF s.dead THEN s.after + 1 ELSE s.after]]
       /\ now' = IF Rotates(s.groups) THEN now + 1 ELSE now
  /\ next' = next + 1
  /\ pc' = "idle"
  /\ UNCHANGED <<inner, start, first, life, claim>>

(* The frame is kept for the next session.                                 *)
(* Mutant: the frame is counted as written.                                *)
Skipped == next + 1

Kept == next

WriteFails ==
  /\ pc = "write" /\ sessions[inner].ended
  /\ inner' = None
  /\ next' = Kept
  /\ pc' = "check"
  /\ UNCHANGED <<now, sessions, start, first, life, claim>>

----------------------------------------------------------------------------
(* The task of a session, and the relay.                                   *)

(* The answer to the ANNOUNCE.  A refusal ends the session.                *)
Answer(s) ==
  /\ sessions[s].answer = "none" /\ ~sessions[s].ended
  /\ IF claim = None
     THEN /\ sessions' = [sessions EXCEPT ![s].answer = "accepted"]
          /\ claim' = s
     ELSE /\ sessions' = [sessions EXCEPT ![s].answer = "refused",
                                          ![s].ended = TRUE]
          /\ UNCHANGED claim
  /\ UNCHANGED <<now, pc, inner, next, start, first, life>>

SessionEnds(s) ==
  /\ ~sessions[s].ended
  /\ sessions' = [sessions EXCEPT ![s].ended = TRUE]
  /\ UNCHANGED <<now, pc, inner, next, start, first, life, claim>>

OnProbation(s) == pc = "probation" /\ s = Newest

RaiseFlag(s) ==
  /\ s >= first /\ sessions[s].ended /\ ~sessions[s].dead
  /\ sessions' = [sessions EXCEPT ![s].dead = TRUE,
                                  ![s].late = ~OnProbation(s)]
  /\ UNCHANGED <<now, pc, inner, next, start, first, life, claim>>

(* The relay takes the namespace back, from a session when it finds it     *)
(* dead.  Meanwhile another publisher may take it.                         *)
Release ==
  /\ claim # None
  /\ claim # Other => sessions[claim].ended
  /\ claim' = None
  /\ UNCHANGED <<now, pc, inner, sessions, next, start, first, life>>

OtherClaims ==
  /\ claim = None
  /\ claim' = Other
  /\ UNCHANGED <<now, pc, inner, sessions, next, start, first, life>>

(* The process dies and starts again at its cursor.                        *)
Crash ==
  /\ life < MaxLives
  /\ life' = life + 1
  /\ sessions' = [s \in 1 .. Newest |->
                    [sessions[s] EXCEPT !.ended = TRUE]]
  /\ inner' = None /\ pc' = "idle"
  /\ \E f \in 1 .. next : next' = f /\ start' = f
  /\ first' = Newest + 1
  /\ UNCHANGED <<now, claim>>

----------------------------------------------------------------------------
Init ==
  /\ now = 0
  /\ pc = "idle" /\ inner = None
  /\ sessions = <<>>
  /\ next = 1 /\ start = 1 /\ first = 1 /\ life = 1
  /\ claim = None

Writer == Take \/ Check \/ Connect \/ ProbationOver \/ Write \/ WriteFails

Next ==
  \/ Writer
  \/ \E s \in 1 .. Newest : Answer(s) \/ SessionEnds(s) \/ RaiseFlag(s)
  \/ Release \/ OtherClaims \/ Crash

(* The relay can be reached sooner or later, answers, and forgets the      *)
(* dead; a session's task runs.                                            *)
Fairness ==
  /\ WF_vars(Writer)
  /\ \A s \in 1 .. MaxSessions :
       WF_vars(s \in 1 .. Newest /\ (Answer(s) \/ RaiseFlag(s)))
  /\ WF_vars(Release)

Spec == Init /\ [][Next]_vars /\ Fairness

----------------------------------------------------------------------------
Session ==
  [base : Nat, groups : Seq(Seq(Nat)), answer : {"none", "accepted", "refused"},
   ended : BOOLEAN, dead : BOOLEAN, late : BOOLEAN, after : Nat]

(* Type invariant; the writer works with the newest session only.          *)
TypeOK ==
  /\ now \in Nat
  /\ pc \in {"idle", "check", "connect", "probation", "write"}
  /\ sessions \in Seq(Session)
  /\ inner \in {None, Newest}
  /\ pc \in {"connect", "probation"} => inner = None
  /\ pc = "probation" => Newest # 0
  /\ pc = "write" => inner # None
  /\ next \in Nat \ {0} /\ start \in Nat \ {0} /\ first \in Nat \ {0} /\ life \in Nat
  /\ claim \in Nat \cup {Other}

FrameAt(s, g, i) == sessions[s].groups[g][i]

Before(p, q) ==
  \/ p[1] < q[1]
  \/ p[1] = q[1] /\ p[2] < q[2]
  \/ p[1] = q[1] /\ p[2] = q[2] /\ p[3] < q[3]

(* "Group IDs must be unique across publisher restarts: relays cache       *)
(* groups per namespace" (dialect07.rs:77): no two groups that were ever   *)
(* started, in whatever session or life, have the same id.                 *)
GroupIdsUnique ==
  \A s, t \in 1 .. Newest :
    \A g \in DOMAIN sessions[s].groups, h \in DOMAIN sessions[t].groups :
      GroupId(s, g) = GroupId(t, h) => s = t /\ g = h

(* "Frames buffered upstream during the outage are not lost"               *)
(* (dialect07.rs:124): over all the sessions of a life, however they end   *)
(* and whatever fails, every frame is written once, in order.              *)
WrittenOnceInOrder ==
  /\ \A s, t \in first .. Newest :
       \A g \in DOMAIN sessions[s].groups, h \in DOMAIN sessions[t].groups :
         \A i \in DOMAIN sessions[s].groups[g], j \in DOMAIN sessions[t].groups[h] :
           /\ FrameAt(s, g, i) \in start .. next - 1
           /\ Before(<<s, g, i>>, <<t, h, j>>)
                => FrameAt(s, g, i) < FrameAt(t, h, j)
  /\ \A f \in start .. next - 1 :
       \E s \in first .. Newest : \E g \in DOMAIN sessions[s].groups :
         \E i \in DOMAIN sessions[s].groups[g] : FrameAt(s, g, i) = f

(* The probation "can't silently swallow frames"                           *)
(* (docs/diag/2026-06-10-public-relays.md): a session refused in time gets *)
(* no frame at all, and any other at most one once it is flagged dead.     *)
DeadSessionsTakeOneFrame ==
  \A s \in 1 .. Newest :
    /\ sessions[s].after <= 1
    /\ sessions[s].dead /\ ~sessions[s].late => sessions[s].groups = <<>>

(* A write returns, whatever sessions are refused or die under it, as long *)
(* as the relay can be reached and the namespace becomes free.             *)
WriteReturns ==
  pc # "idle" ~> (pc = "idle" \/ (pc = "connect" /\ Newest = MaxSessions))

=============================================================================
