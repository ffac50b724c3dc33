-------------------------- MODULE Dialect07Proofs --------------------------
(***************************************************************************)
(* The safety properties of Dialect07.tla, for every number of frames,     *)
(* sessions and lives.  Group ids: a session's ids stay behind the clock,  *)
(* from which the next session's start.  The dead flag: it is looked at    *)
(* before each write, and a session on probation has no frames.            *)
(***************************************************************************)
EXTENDS Dialect07, TLAPS

(* Where a session's next group would start.                               *)
End(x) == x.base + Len(x.groups)

IdsBehindClock ==
  /\ \A s \in 1 .. Newest : End(sessions[s]) <= now + 1
  /\ \A s, t \in 1 .. Newest : s < t => End(sessions[s]) <= sessions[t].base

FlagsSeen ==
  /\ \A s \in 1 .. Newest :
       /\ ~sessions[s].dead => sessions[s].after = 0
       /\ sessions[s].after <= 1
       /\ sessions[s].dead /\ ~sessions[s].late => sessions[s].groups = <<>>
  /\ pc = "probation" => sessions[Newest].groups = <<>>
  /\ pc = "write" => /\ sessions[inner].after = 0
                     /\ sessions[inner].dead => sessions[inner].late

IInv == TypeOK /\ IdsBehindClock /\ FlagsSeen

USE DEF None, Other, Newest

(* What is known of a session.                                             *)
LEMMA Fields ==
  ASSUME NEW x \in Session
  PROVE  /\ x.base \in Nat /\ x.groups \in Seq(Seq(Nat)) /\ x.after \in Nat
         /\ Len(x.groups) \in Nat /\ DOMAIN x.groups = 1 .. Len(x.groups)
         /\ x.ended \in BOOLEAN /\ x.dead \in BOOLEAN /\ x.late \in BOOLEAN
         /\ End(x) \in Nat /\ End(x) = x.base + Len(x.groups)
  BY DEF Session, End

(* What the invariant says of the sessions' types, where only one session  *)
(* matters.                                                                *)
LEMMA Typed ==
  ASSUME IInv, NEW s \in 1 .. Newest
  PROVE  /\ s \in Nat \ {0} /\ Newest \in Nat /\ now \in Nat
         /\ sessions[s] \in Session
  BY DEF IInv, TypeOK

----------------------------------------------------------------------------
(* The invariant holds at the start, and each action keeps it.             *)
LEMMA InitIInv == Init => IInv
  BY Dialect07Assumption DEF Init, IInv, TypeOK, IdsBehindClock, FlagsSeen

(* The look at the dead flag before a frame (dialect07.rs:152) opens and   *)
(* writes nothing.                                                         *)
LEMMA CheckKeeps == IInv /\ Check => IInv'
<1> SUFFICES ASSUME IInv, Check PROVE IInv'
  OBVIOUS
<1> USE DEF IInv, Check, Usable, Dropped
<1>1. TypeOK'
  BY DEF TypeOK
<1>2. IdsBehindClock'
  BY DEF IdsBehindClock, End
<1>3. FlagsSeen'
  BY DEF FlagsSeen, TypeOK
<1> QED
  BY <1>1, <1>2, <1>3

(* A new session starts above the clock, so above every group id given out *)
(* (dialect07.rs:77).                                                      *)
LEMMA ConnectKeeps == IInv /\ Connect => IInv'
<1> SUFFICES ASSUME IInv, Connect PROVE IInv'
  OBVIOUS
<1> DEFINE new == NewSession
<1>1. new \in Session /\ new.base = now + 1 /\ new.groups = <<>>
      /\ new.after = 0 /\ new.dead = FALSE
  BY DEF NewSession, GroupBase, IInv, TypeOK, Session
<1> HIDE DEF new
<1>2. /\ sessions \in Seq(Session) /\ sessions' = Append(sessions, new)
      /\ now' = now + 1 /\ now \in Nat /\ pc' = "probation" /\ inner' = None
  BY DEF Connect, IInv, TypeOK, new
<1>3. /\ sessions' \in Seq(Session) /\ Newest' = Newest + 1 /\ Newest \in Nat
      /\ sessions'[Newest + 1] = new
      /\ \A s \in 1 .. Newest : sessions'[s] = sessions[s]
  BY <1>1, <1>2
<1>4. TypeOK'
  BY <1>2, <1>3 DEF IInv, TypeOK, Connect
<1>5. IdsBehindClock'
  <2>1. /\ End(new) = now + 1 /\ new.base = now + 1
        /\ \A s \in 1 .. Newest : End(sessions[s]) \in Nat
    BY <1>1, <1>2, Typed, Fields DEF End
  <2>2. \A s \in 1 .. Newest : End(sessions[s]) <= now + 1
    BY DEF IInv, IdsBehindClock
  <2>3. ASSUME NEW s \in 1 .. Newest + 1
        PROVE  End(sessions'[s]) <= now' + 1
    <3>1. CASE s = Newest + 1
      BY <1>2, <1>3, <2>1, <3>1
    <3>2. CASE s \in 1 .. Newest
      BY <1>2, <1>3, <2>1, <2>2, <3>2
    <3> QED
      BY <1>3, <3>1, <3>2
  <2>4. ASSUME NEW s \in 1 .. Newest + 1, NEW t \in 1 .. Newest + 1, s < t
        PROVE  End(sessions'[s]) <= sessions'[t].base
    <3>1. s \in 1 .. Newest
      BY <1>3, <2>4
    <3>2. CASE t = Newest + 1
      BY <1>3, <2>1, <2>2, <3>1, <3>2
    <3>3. CASE t \in 1 .. Newest
      <4>1. End(sessions[s]) <= sessions[t].base
        BY <2>4, <3>1, <3>3 DEF IInv, IdsBehindClock
      <4> QED
        BY <1>3, <3>1, <3>3, <4>1
    <3> QED
      BY <1>3, <3>2, <3>3
  <2> QED
    BY <1>3, <2>3, <2>4 DEF IdsBehindClock
<1>6. FlagsSeen'
  BY <1>1, <1>2, <1>3 DEF IInv, FlagsSeen
<1> QED
  BY <1>4, <1>5, <1>6 DEF IInv

(* The end of the probation (dialect07.rs:159) only decides which session  *)
(* is held.                                                                *)
LEMMA ProbationOverKeeps == IInv /\ ProbationOver => IInv'
<1> SUFFICES ASSUME IInv, ProbationOver PROVE IInv'
  OBVIOUS
<1> USE DEF IInv, ProbationOver, Established, AfterRefusal
<1>1. TypeOK'
  BY DEF TypeOK
<1>2. IdsBehindClock'
  BY DEF IdsBehindClock, End
<1>3. FlagsSeen'
  BY DEF FlagsSeen, TypeOK
<1> QED
  BY <1>1, <1>2, <1>3

(* A frame goes into the last group or a new one: groups are never lost,   *)
(* and at most one is added (dialect07.rs:102).                            *)
LEMMA WithFrameGrows ==
  ASSUME NEW groups \in Seq(Seq(Nat)), next \in Nat
  PROVE  /\ WithFrame(groups) \in Seq(Seq(Nat))
         /\ Len(WithFrame(groups)) =
              IF Rotates(groups) THEN Len(groups) + 1 ELSE Len(groups)
<1>1. CASE Rotates(groups)
  BY <1>1 DEF WithFrame
<1>2. CASE ~Rotates(groups)
  <2>1. groups # <<>> /\ Len(groups) \in 1 .. Len(groups)
    BY <1>2 DEF Rotates
  <2>2. Append(groups[Len(groups)], next) \in Seq(Nat)
    BY <2>1
  <2>3. WithFrame(groups)
          = [groups EXCEPT ![Len(groups)] = Append(groups[Len(groups)], next)]
    BY <1>2 DEF WithFrame
  <2> QED
    BY <1>2, <2>1, <2>2, <2>3
<1> QED
  BY <1>1, <1>2

(* A write uses at most one new id, below the clock, and finds the dead flag *)
(* up at most once.                                                        *)
LEMMA WriteKeeps == IInv /\ Write => IInv'
<1> SUFFICES ASSUME IInv, Write PROVE IInv'
  OBVIOUS
<1> DEFINE s0 == sessions[Newest]
           groups1 == WithFrame(s0.groups)
           after1 == IF s0.dead THEN s0.after + 1 ELSE s0.after
           s1 == [s0 EXCEPT !.groups = groups1, !.after = after1]
<1>1. /\ sessions \in Seq(Session) /\ pc = "write" /\ inner = Newest
      /\ Newest \in 1 .. Newest /\ now \in Nat /\ next \in Nat
  BY DEF IInv, TypeOK, Write
<1>2. s0 \in Session /\ s0.dead \in BOOLEAN /\ s0.after \in Nat
      /\ s0.groups \in Seq(Seq(Nat)) /\ s0.base \in Nat
  BY <1>1, Typed, Fields
<1>3. /\ WithFrame(s0.groups) \in Seq(Seq(Nat))
      /\ Len(WithFrame(s0.groups)) =
           IF Rotates(s0.groups) THEN Len(s0.groups) + 1 ELSE Len(s0.groups)
  BY <1>1, <1>2, WithFrameGrows
<1>4. /\ s1 \in Session
      /\ s1.base = s0.base /\ s1.groups = WithFrame(s0.groups)
      /\ s1.dead = s0.dead /\ s1.late = s0.late
      /\ s1.after = IF s0.dead THEN s0.after + 1 ELSE s0.after
  <2>1. after1 \in Nat
    BY <1>2
  <2>2. groups1 \in Seq(Seq(Nat))
    BY <1>3
  <2> HIDE DEF after1, groups1
  <2>3. /\ s1 \in Session /\ s1.base = s0.base /\ s1.groups = groups1
        /\ s1.dead = s0.dead /\ s1.late = s0.late /\ s1.after = after1
    BY <1>2, <2>1, <2>2 DEF Session
  <2> QED
    BY <2>3 DEF after1, groups1
<1>5. /\ sessions' = [sessions EXCEPT ![Newest] = s1]
      /\ now' = IF Rotates(s0.groups) THEN now + 1 ELSE now
      /\ pc' = "idle" /\ inner' = inner
  BY <1>1 DEF Write
<1> HIDE DEF s1
<1>6. /\ sessions' \in Seq(Session) /\ Newest' = Newest
      /\ sessions'[Newest] = s1
      /\ \A s \in 1 .. Newest : s # Newest => sessions'[s] = sessions[s]
  BY <1>1, <1>4, <1>5
<1>7. TypeOK'
  BY <1>1, <1>5, <1>6 DEF IInv, TypeOK, Write
<1>8. IdsBehindClock'
  <2>1. /\ End(s1) = IF Rotates(s0.groups) THEN End(s0) + 1 ELSE End(s0)
        /\ \A s \in 1 .. Newest : End(sessions[s]) \in Nat
    <3>1. /\ End(s1) = s0.base + Len(WithFrame(s0.groups))
          /\ End(s0) = s0.base + Len(s0.groups)
      <4>1. s1.base = s0.base /\ s1.groups = WithFrame(s0.groups)
        BY <1>4
      <4>2. \A x : End(x) = x.base + Len(x.groups)
        BY DEF End
      <4> QED
        BY <4>1, <4>2
    <3>2. Len(s0.groups) \in Nat
      BY <1>2, Fields
    <3>3. End(s1) = IF Rotates(s0.groups) THEN End(s0) + 1 ELSE End(s0)
      <4>1. CASE Rotates(s0.groups)
        <5>1. Len(WithFrame(s0.groups)) = Len(s0.groups) + 1
          BY <1>3, <4>1
        <5>2. s0.base + (Len(s0.groups) + 1) = (s0.base + Len(s0.groups)) + 1
          BY <1>2, <3>2
        <5> QED
          BY <3>1, <4>1, <5>1, <5>2
      <4>2. CASE ~Rotates(s0.groups)
        BY <1>2, <1>3, <3>1, <3>2, <4>2
      <4> QED
        BY <4>1, <4>2
    <3>4. \A s \in 1 .. Newest : End(sessions[s]) \in Nat
      BY Typed, Fields
    <3> QED
      BY <3>3, <3>4
  <2>2. /\ \A s \in 1 .. Newest : End(sessions[s]) <= now + 1
        /\ \A s, t \in 1 .. Newest :
             s < t => End(sessions[s]) <= sessions[t].base
    BY DEF IInv, IdsBehindClock
  <2>3. ASSUME NEW s \in 1 .. Newest
        PROVE  End(sessions'[s]) <= now' + 1
    <3>1. CASE s = Newest
      BY <1>1, <1>5, <1>6, <2>1, <2>2, <3>1
    <3>2. CASE s # Newest
      BY <1>1, <1>5, <1>6, <2>1, <2>2, <3>2
    <3> QED
      BY <3>1, <3>2
  <2>4. ASSUME NEW s \in 1 .. Newest, NEW t \in 1 .. Newest, s < t
        PROVE  End(sessions'[s]) <= sessions'[t].base
    <3>1. s # Newest /\ sessions'[s] = sessions[s]
      BY <1>1, <1>6, <2>4
    <3>2. sessions'[t].base = sessions[t].base
      BY <1>4, <1>6
    <3> QED
      BY <2>2, <2>4, <3>1, <3>2
  <2> QED
    BY <1>6, <2>3, <2>4 DEF IdsBehindClock
<1>9. FlagsSeen'
  <2>1. /\ s0.after = 0
        /\ s0.dead => s0.late
    BY <1>1 DEF IInv, FlagsSeen
  <2>2. \A s \in 1 .. Newest :
          /\ ~sessions'[s].dead => sessions'[s].after = 0
          /\ sessions'[s].after <= 1
          /\ sessions'[s].dead /\ ~sessions'[s].late => sessions'[s].groups = <<>>
    <3> SUFFICES ASSUME NEW s \in 1 .. Newest
                 PROVE  /\ ~sessions'[s].dead => sessions'[s].after = 0
                        /\ sessions'[s].after <= 1
                        /\ sessions'[s].dead /\ ~sessions'[s].late
                             => sessions'[s].groups = <<>>
      OBVIOUS
    <3>1. CASE s = Newest
      BY <1>2, <1>4, <1>6, <2>1, <3>1
    <3>2. CASE s # Newest
      BY <1>6, <3>2 DEF IInv, FlagsSeen
    <3> QED
      BY <3>1, <3>2
  <2> QED
    BY <1>5, <1>6, <2>2 DEF FlagsSeen
<1> QED
  BY <1>7, <1>8, <1>9 DEF IInv

(* A step that changes only one session's flags.                           *)
LEMMA FlagsOnlyKeep ==
  ASSUME IInv, NEW s \in 1 .. Newest, NEW x \in Session,
         sessions' = [sessions EXCEPT ![s] = x],
         UNCHANGED <<now, pc, inner, next, start, first, life>>,
         claim' \in Nat \cup {Other},
         x.base = sessions[s].base, x.groups = sessions[s].groups,
         x.after = sessions[s].after,
         \/ x.dead = sessions[s].dead /\ x.late = sessions[s].late
         \/ ~sessions[s].dead /\ x.late = ~OnProbation(s)
  PROVE  IInv'
<1>1. sessions \in Seq(Session)
  BY DEF IInv, TypeOK
<1>2. /\ sessions' \in Seq(Session) /\ Newest' = Newest
      /\ sessions'[s] = x
      /\ \A t \in 1 .. Newest : t # s => sessions'[t] = sessions[t]
  BY <1>1
<1>3. TypeOK'
  BY <1>2 DEF IInv, TypeOK
<1>4. \A t \in 1 .. Newest :
        /\ sessions'[t].base = sessions[t].base
        /\ sessions'[t].groups = sessions[t].groups
        /\ sessions'[t].after = sessions[t].after
        /\ End(sessions'[t]) = End(sessions[t])
  BY <1>2 DEF End
<1>5. IdsBehindClock'
  BY <1>2, <1>4 DEF IInv, IdsBehindClock
<1>6. FlagsSeen'
  <2>1. /\ x.dead \in BOOLEAN /\ x.late \in BOOLEAN
        /\ sessions[s].dead \in BOOLEAN /\ sessions[s].late \in BOOLEAN
    BY Typed, Fields
  <2>0. /\ pc' = "probation" => /\ Newest \in 1 .. Newest
                                /\ sessions[Newest].groups = <<>>
        /\ pc' = "write" => /\ inner' = inner /\ inner \in 1 .. Newest
                            /\ sessions[inner].after = 0
                            /\ sessions[inner].dead => sessions[inner].late
    BY <1>1 DEF IInv, TypeOK, FlagsSeen
  <2>2. CASE x.dead = sessions[s].dead /\ x.late = sessions[s].late
    <3>1. \A t \in 1 .. Newest : /\ sessions'[t].dead = sessions[t].dead
                                /\ sessions'[t].late = sessions[t].late
      BY <1>2, <2>2
    <3>2. \A t \in 1 .. Newest :
            /\ ~sessions'[t].dead => sessions'[t].after = 0
            /\ sessions'[t].after <= 1
            /\ sessions'[t].dead /\ ~sessions'[t].late => sessions'[t].groups = <<>>
      BY <1>2, <1>4, <3>1 DEF IInv, FlagsSeen
    <3>3. pc' = "probation" => sessions'[Newest'].groups = <<>>
      BY <1>2, <1>4, <2>0
    <3>4. pc' = "write" => /\ inner' = inner
                           /\ sessions'[inner].after = 0
                           /\ sessions'[inner].dead => sessions'[inner].late
      BY <1>4, <2>0, <3>1
    <3> QED
      BY <1>2, <3>2, <3>3, <3>4 DEF FlagsSeen
  <2>3. CASE ~sessions[s].dead /\ x.late = ~OnProbation(s)
    <3>1. sessions[s].after = 0
      BY <2>3 DEF IInv, FlagsSeen
    <3>2. ~x.late => pc = "probation" /\ s = Newest /\ sessions[s].groups = <<>>
      BY <2>3 DEF OnProbation, IInv, FlagsSeen
    <3>3. \A t \in 1 .. Newest :
            /\ ~sessions'[t].dead => sessions'[t].after = 0
            /\ sessions'[t].after <= 1
            /\ sessions'[t].dead /\ ~sessions'[t].late => sessions'[t].groups = <<>>
      BY ZenonT(60), <1>2, <1>4, <3>1, <3>2 DEF IInv, FlagsSeen
    <3>4. pc' = "probation" => sessions'[Newest'].groups = <<>>
      BY <1>2, <1>4, <2>0
    <3>5. pc' = "write" => /\ sessions'[inner'].after = 0
                           /\ sessions'[inner'].dead => sessions'[inner'].late
      <4> SUFFICES ASSUME pc' = "write"
                   PROVE  /\ sessions'[inner].after = 0
                          /\ sessions'[inner].dead => sessions'[inner].late
        BY <2>0
      <4>1. CASE inner = s
        <5>1. x.late
          BY <2>3, <4>1 DEF OnProbation
        <5> QED
          BY <1>2, <1>4, <2>0, <4>1, <5>1
      <4>2. CASE inner # s
        BY <1>2, <1>4, <2>0, <4>2
      <4> QED
        BY <4>1, <4>2
    <3>6. pc' = "write" => inner' = inner
      BY <2>0
    <3> QED
      BY <1>2, <3>3, <3>4, <3>5, <3>6 DEF FlagsSeen
  <2> QED
    BY <2>2, <2>3
<1> QED
  BY <1>3, <1>5, <1>6 DEF IInv

(* What the session's task and the relay do leaves the groups alone.       *)
LEMMA SessionTaskKeeps ==
  ASSUME IInv, NEW s \in 1 .. Newest, Answer(s) \/ SessionEnds(s) \/ RaiseFlag(s)
  PROVE  IInv'
<1>1. /\ sessions \in Seq(Session) /\ claim \in Nat \cup {Other}
      /\ sessions[s] \in Session /\ s \in Nat
  BY Typed DEF IInv, TypeOK
<1>2. CASE Answer(s)
  <2>1. CASE claim = None
    <3> DEFINE x == [sessions[s] EXCEPT !.answer = "accepted"]
    <3>1. /\ sessions' = [sessions EXCEPT ![s] = x] /\ claim' = s
          /\ UNCHANGED <<now, pc, inner, next, start, first, life>>
      BY <1>2, <2>1 DEF Answer
    <3>2. /\ x \in Session /\ x.base = sessions[s].base
          /\ x.groups = sessions[s].groups /\ x.after = sessions[s].after
          /\ x.dead = sessions[s].dead /\ x.late = sessions[s].late
      BY <1>1 DEF Session
    <3> QED
      BY <1>1, <3>1, <3>2, FlagsOnlyKeep
  <2>2. CASE claim # None
    <3> DEFINE x == [sessions[s] EXCEPT !.answer = "refused", !.ended = TRUE]
    <3>1. /\ sessions' = [sessions EXCEPT ![s] = x] /\ claim' = claim
          /\ UNCHANGED <<now, pc, inner, next, start, first, life>>
      BY <1>1, <1>2, <2>2 DEF Answer
    <3>2. /\ x \in Session /\ x.base = sessions[s].base
          /\ x.groups = sessions[s].groups /\ x.after = sessions[s].after
          /\ x.dead = sessions[s].dead /\ x.late = sessions[s].late
      BY <1>1 DEF Session
    <3> QED
      BY <1>1, <3>1, <3>2, FlagsOnlyKeep
  <2> QED
    BY <2>1, <2>2
<1>3. CASE SessionEnds(s)
  <2> DEFINE x == [sessions[s] EXCEPT !.ended = TRUE]
  <2>1. /\ sessions' = [sessions EXCEPT ![s] = x] /\ claim' = claim
        /\ UNCHANGED <<now, pc, inner, next, start, first, life>>
    BY <1>3 DEF SessionEnds
  <2>2. /\ x \in Session /\ x.base = sessions[s].base
        /\ x.groups = sessions[s].groups /\ x.after = sessions[s].after
        /\ x.dead = sessions[s].dead /\ x.late = sessions[s].late
    BY <1>1 DEF Session
  <2> QED
    BY <1>1, <2>1, <2>2, FlagsOnlyKeep
<1>4. CASE RaiseFlag(s)
  <2> DEFINE x == [sessions[s] EXCEPT !.dead = TRUE, !.late = ~OnProbation(s)]
  <2>1. /\ sessions' = [sessions EXCEPT ![s] = x] /\ claim' = claim
        /\ ~sessions[s].dead
        /\ UNCHANGED <<now, pc, inner, next, start, first, life>>
    BY <1>1, <1>4 DEF RaiseFlag
  <2>2. OnProbation(s) \in BOOLEAN
    BY DEF OnProbation
  <2>3. /\ x \in Session /\ x.base = sessions[s].base
        /\ x.groups = sessions[s].groups /\ x.after = sessions[s].after
        /\ x.late = ~OnProbation(s)
    BY <1>1, <2>2 DEF Session
  <2> QED
    BY <1>1, <2>1, <2>3, FlagsOnlyKeep
<1> QED
  BY <1>2, <1>3, <1>4

(* A restart (dialect07.rs:135) keeps the old sessions' ids and forgets the *)
(* session held.                                                           *)
LEMMA CrashKeeps == IInv /\ Crash => IInv'
<1> SUFFICES ASSUME IInv, Crash PROVE IInv'
  OBVIOUS
<1>1. sessions \in Seq(Session) /\ next \in Nat \ {0} /\ life \in Nat
  BY DEF IInv, TypeOK
<1>2. /\ sessions' \in Seq(Session) /\ Len(sessions') = Newest
      /\ \A s \in 1 .. Newest :
           /\ sessions'[s].base = sessions[s].base
           /\ sessions'[s].groups = sessions[s].groups
           /\ sessions'[s].after = sessions[s].after
           /\ sessions'[s].dead = sessions[s].dead
           /\ sessions'[s].late = sessions[s].late
  <2>1. ASSUME NEW s \in 1 .. Newest
        PROVE  LET x == [sessions[s] EXCEPT !.ended = TRUE] IN
               /\ x \in Session
               /\ x.base = sessions[s].base /\ x.groups = sessions[s].groups
               /\ x.after = sessions[s].after
               /\ x.dead = sessions[s].dead /\ x.late = sessions[s].late
    BY Typed DEF Session
  <2> DEFINE all == [s \in 1 .. Newest |-> [sessions[s] EXCEPT !.ended = TRUE]]
  <2>2. all \in [1 .. Newest -> Session] /\ Newest \in Nat
    BY <1>1, <2>1
  <2>3. all \in Seq(Session) /\ Len(all) = Newest
    BY <2>2
  <2>4. sessions' = all
    BY DEF Crash
  <2> QED
    BY <2>1, <2>3, <2>4
<1>3. TypeOK'
  BY SMTT(40), <1>1, <1>2 DEF IInv, TypeOK, Crash
<1>4. IdsBehindClock'
  <2>1. \A s \in 1 .. Newest : End(sessions'[s]) = End(sessions[s])
    BY <1>2 DEF End
  <2> QED
    BY <1>2, <2>1 DEF IInv, IdsBehindClock, Crash
<1>5. FlagsSeen'
  BY <1>2 DEF IInv, FlagsSeen, Crash
<1> QED
  BY <1>3, <1>4, <1>5 DEF IInv

(* Every step keeps the invariant.                                         *)
LEMMA StepKeeps == IInv /\ [Next]_vars => IInv'
<1> SUFFICES ASSUME IInv, [Next]_vars PROVE IInv'
  OBVIOUS
<1>1. CASE Take
  BY <1>1 DEF Take, IInv, TypeOK, IdsBehindClock, End, FlagsSeen
<1>2. CASE WriteFails
  BY <1>2 DEF WriteFails, Dropped, Kept, IInv, TypeOK, IdsBehindClock, End, FlagsSeen
<1>3. CASE Release \/ OtherClaims
  BY SMTT(40), <1>3 DEF Release, OtherClaims, IInv, TypeOK, IdsBehindClock, End, FlagsSeen
<1>4. CASE UNCHANGED vars
  BY <1>4 DEF vars, IInv, TypeOK, IdsBehindClock, End, FlagsSeen
<1> QED
  BY <1>1, <1>2, <1>3, <1>4, CheckKeeps, ConnectKeeps, ProbationOverKeeps,
     WriteKeeps, SessionTaskKeeps, CrashKeeps DEF Next, Writer

(* The invariant holds in every reachable state.                           *)
LEMMA Invariance == Spec => []IInv
  BY InitIInv, StepKeeps, PTL DEF Spec

----------------------------------------------------------------------------
(* Type correctness, and that the writer holds the newest session or none. *)
THEOREM TypeCorrect == Spec => []TypeOK
  BY Invariance, PTL DEF IInv

(* No two groups ever started have the same id, over all sessions and      *)
(* lives of the process (dialect07.rs:77).                                 *)
THEOREM IdsNeverReused == Spec => []GroupIdsUnique
<1>1. IInv => GroupIdsUnique
  <2> SUFFICES ASSUME IInv, NEW s \in 1 .. Newest, NEW t \in 1 .. Newest,
                      NEW g \in DOMAIN sessions[s].groups,
                      NEW h \in DOMAIN sessions[t].groups,
                      GroupId(s, g) = GroupId(t, h)
               PROVE  s = t /\ g = h
    BY DEF GroupIdsUnique
  <2>1. /\ sessions[s].base \in Nat /\ sessions[t].base \in Nat
        /\ s \in Nat /\ t \in Nat
    BY Typed, Fields
  <2>2. /\ g \in 1 .. Len(sessions[s].groups) /\ h \in 1 .. Len(sessions[t].groups)
        /\ Len(sessions[s].groups) \in Nat /\ Len(sessions[t].groups) \in Nat
    BY Typed, Fields
  <2>3. sessions[s].base + g = sessions[t].base + h
    <3>1. sessions[s].base + g - 1 = sessions[t].base + h - 1
      BY DEF GroupId
    <3>2. g \in Nat /\ h \in Nat
      BY <2>2
    <3> QED
      BY SMTT(40), <2>1, <3>1, <3>2
  <2>4. /\ s < t => sessions[s].base + Len(sessions[s].groups) <= sessions[t].base
        /\ t < s => sessions[t].base + Len(sessions[t].groups) <= sessions[s].base
    BY DEF IInv, IdsBehindClock, End
  <2>5. s = t
    BY SMTT(40), <2>1, <2>2, <2>3, <2>4
  <2> QED
    BY <2>1, <2>2, <2>3, <2>5
<1> QED
  BY <1>1, Invariance, PTL

(* A session refused within the probation swallows nothing, and a dead one *)
(* at most the frame that was under way when its flag went up.             *)
THEOREM DeadSessionsSwallowLittle == Spec => []DeadSessionsTakeOneFrame
<1>1. IInv => DeadSessionsTakeOneFrame
  BY DEF IInv, FlagsSeen, DeadSessionsTakeOneFrame
<1> QED
  BY <1>1, Invariance, PTL

----------------------------------------------------------------------------
(* The frames of a life: a write adds the next frame in a place after all  *)
(* others; nothing else adds or removes one, and a crash starts anew.      *)
Opened ==
  /\ first \in 1 .. Newest + 1 /\ start <= next
  /\ inner # None => first <= Newest
  /\ pc = "probation" => first <= Newest

WInv == IInv /\ Opened /\ WrittenOnceInOrder

(* A step that adds nothing to the groups keeps where every frame is.      *)
LEMMA GroupsKept ==
  ASSUME WrittenOnceInOrder, first' = first, start' = start, next' = next,
         Newest \in Nat, Newest' \in Nat, Newest <= Newest', first \in Nat,
         \A s \in first .. Newest : sessions'[s].groups = sessions[s].groups,
         \A s \in Newest + 1 .. Newest' : sessions'[s].groups = <<>>
  PROVE  WrittenOnceInOrder'
<1>1. ASSUME NEW s \in first .. Newest', NEW g \in DOMAIN sessions'[s].groups
      PROVE  s \in first .. Newest
  <2>1. CASE s \in first .. Newest
    BY <2>1
  <2>2. CASE s \in Newest + 1 .. Newest'
    BY <2>2
  <2> QED
    BY <2>1, <2>2
<1>2. ASSUME NEW s \in first .. Newest', NEW t \in first .. Newest',
             NEW g \in DOMAIN sessions'[s].groups,
             NEW h \in DOMAIN sessions'[t].groups,
             NEW i \in DOMAIN sessions'[s].groups[g],
             NEW j \in DOMAIN sessions'[t].groups[h]
      PROVE  /\ sessions'[s].groups[g][i] \in start .. next - 1
             /\ Before(<<s, g, i>>, <<t, h, j>>)
                  => sessions'[s].groups[g][i] < sessions'[t].groups[h][j]
  <2>1. s \in first .. Newest /\ t \in first .. Newest
    BY <1>1
  <2>2. /\ sessions'[s].groups = sessions[s].groups
        /\ sessions'[t].groups = sessions[t].groups
    BY <2>1
  <2> QED
    BY <2>1, <2>2 DEF WrittenOnceInOrder, FrameAt
<1>3. ASSUME NEW f \in start .. next - 1
      PROVE  \E s \in first .. Newest' : \E g \in DOMAIN sessions'[s].groups :
               \E i \in DOMAIN sessions'[s].groups[g] :
                 sessions'[s].groups[g][i] = f
  <2>1. PICK s \in first .. Newest : \E g \in DOMAIN sessions[s].groups :
          \E i \in DOMAIN sessions[s].groups[g] : sessions[s].groups[g][i] = f
    BY DEF WrittenOnceInOrder, FrameAt
  <2>2. s \in first .. Newest' /\ sessions'[s].groups = sessions[s].groups
    OBVIOUS
  <2> QED
    BY <2>1, <2>2
<1> QED
  BY <1>2, <1>3 DEF WrittenOnceInOrder, FrameAt, Before

(* Where the frames of a session are after one was added: where they were, *)
(* and the new one behind them.                                            *)
LEMMA WithFramePlaces ==
  ASSUME NEW groups \in Seq(Seq(Nat)), next \in Nat
  PROVE  LET new == WithFrame(groups)
             G == Len(new)
             I == Len(new[G])
         IN  /\ G \in DOMAIN new /\ I \in DOMAIN new[G] /\ new[G][I] = next
             /\ \A g \in DOMAIN groups : \A i \in DOMAIN groups[g] :
                  /\ g \in DOMAIN new /\ i \in DOMAIN new[g]
                  /\ new[g][i] = groups[g][i]
             /\ \A g \in DOMAIN new : \A i \in DOMAIN new[g] :
                  \/ g = G /\ i = I
                  \/ /\ g \in DOMAIN groups /\ i \in DOMAIN groups[g]
                     /\ g < G \/ (g = G /\ i < I)
<1> DEFINE new == WithFrame(groups)
           G == Len(new)
           I == Len(new[G])
<1> DEFINE AtEnd == G \in DOMAIN new /\ I \in DOMAIN new[G] /\ new[G][I] = next
           OldKept == \A g \in DOMAIN groups : \A i \in DOMAIN groups[g] :
                      /\ g \in DOMAIN new /\ i \in DOMAIN new[g]
                      /\ new[g][i] = groups[g][i]
           OnlyAdded == \A g \in DOMAIN new : \A i \in DOMAIN new[g] :
                        \/ g = G /\ i = I
                        \/ /\ g \in DOMAIN groups /\ i \in DOMAIN groups[g]
                           /\ g < G \/ (g = G /\ i < I)
<1> SUFFICES AtEnd /\ OldKept /\ OnlyAdded
  OBVIOUS
<1>1. CASE Rotates(groups)
  <2>1. new = Append(groups, <<next>>)
    BY <1>1 DEF WithFrame
  <2>2. /\ Len(groups) \in Nat /\ G = Len(groups) + 1
        /\ new[G] = <<next>> /\ I = 1
        /\ \A g \in 1 .. Len(groups) : new[g] = groups[g]
        /\ DOMAIN new = 1 .. G /\ DOMAIN groups = 1 .. Len(groups)
    BY <2>1
  <2> HIDE DEF new
  <2>3. AtEnd
    BY <2>2
  <2>4. OldKept
    BY <2>2
  <2>5. OnlyAdded
    BY <2>2
  <2> QED
    BY <2>3, <2>4, <2>5
<1>2. CASE ~Rotates(groups)
  <2> DEFINE L == Len(groups)
             last == Append(groups[L], next)
  <2>1. groups # <<>> /\ L \in 1 .. L /\ groups[L] \in Seq(Nat)
    BY <1>2 DEF Rotates
  <2>2. /\ last \in Seq(Nat) /\ Len(last) = Len(groups[L]) + 1
        /\ Len(groups[L]) \in Nat /\ last[Len(groups[L]) + 1] = next
        /\ DOMAIN last = 1 .. Len(groups[L]) + 1
        /\ DOMAIN groups[L] = 1 .. Len(groups[L])
        /\ \A i \in 1 .. Len(groups[L]) : last[i] = groups[L][i]
    BY <2>1
  <2>3. new = [groups EXCEPT ![L] = last]
    BY <1>2 DEF WithFrame
  <2> HIDE DEF last
  <2>4. /\ G = L /\ L \in Nat /\ new[L] = last
        /\ \A g \in 1 .. L : g # L => new[g] = groups[g]
        /\ DOMAIN new = 1 .. L /\ DOMAIN groups = 1 .. L
    BY <2>1, <2>2, <2>3
  <2>5. I = Len(groups[L]) + 1
    BY <2>2, <2>4
  <2> HIDE DEF new, G, I, L
  <2>6. AtEnd
    BY <2>1, <2>2, <2>4, <2>5
  <2>7. OldKept
    <3> SUFFICES ASSUME NEW g \in DOMAIN groups, NEW i \in DOMAIN groups[g]
                 PROVE  /\ g \in DOMAIN new /\ i \in DOMAIN new[g]
                        /\ new[g][i] = groups[g][i]
      OBVIOUS
    <3>1. CASE g = L
      <4>1. i \in 1 .. Len(groups[L]) /\ i \in 1 .. Len(groups[L]) + 1
        BY <2>2, <3>1
      <4> QED
        BY <2>1, <2>2, <2>4, <3>1, <4>1
    <3>2. CASE g # L
      BY <2>4, <3>2
    <3> QED
      BY <3>1, <3>2
  <2>8. OnlyAdded
    <3> SUFFICES ASSUME NEW g \in DOMAIN new, NEW i \in DOMAIN new[g]
                 PROVE  \/ g = G /\ i = I
                        \/ /\ g \in DOMAIN groups /\ i \in DOMAIN groups[g]
                           /\ g < G \/ (g = G /\ i < I)
      OBVIOUS
    <3>1. CASE g = L
      <4>1. i \in 1 .. Len(groups[L]) + 1
        BY <2>2, <2>4, <3>1
      <4> QED
        BY <2>2, <2>4, <2>5, <3>1, <4>1
    <3>2. CASE g # L
      BY <2>2, <2>4, <3>2
    <3> QED
      BY <3>1, <3>2
  <2> QED
    BY <2>6, <2>7, <2>8
<1> QED
  BY <1>1, <1>2

(* A write adds the next frame behind every other, and no second copy of it. *)
LEMMA WriteAddsNext == WInv /\ Write => WInv'
<1> SUFFICES ASSUME WInv, Write PROVE WInv'
  OBVIOUS
<1> DEFINE n == inner
           old == sessions[n].groups
           new == WithFrame(old)
           G == Len(new)
           I == Len(new[G])
<1>1. /\ sessions \in Seq(Session) /\ n = Newest /\ n \in first .. Newest
      /\ n \in 1 .. Newest /\ Newest \in Nat /\ first \in Nat
      /\ next \in Nat /\ start \in Nat /\ start <= next /\ pc = "write"
  BY DEF WInv, IInv, TypeOK, Opened, Write
<1>2. old \in Seq(Seq(Nat))
  BY <1>1, Typed, Fields DEF WInv
<1>3. /\ G \in DOMAIN new /\ I \in DOMAIN new[G] /\ new[G][I] = next
      /\ \A g \in DOMAIN old : \A i \in DOMAIN old[g] :
           /\ g \in DOMAIN new /\ i \in DOMAIN new[g] /\ new[g][i] = old[g][i]
      /\ \A g \in DOMAIN new : \A i \in DOMAIN new[g] :
           \/ g = G /\ i = I
           \/ /\ g \in DOMAIN old /\ i \in DOMAIN old[g]
              /\ g < G \/ (g = G /\ i < I)
  BY <1>1, <1>2, WithFramePlaces
<1>4. /\ Newest' = Newest /\ sessions'[n].groups = new
      /\ \A s \in first .. Newest : s # n => sessions'[s].groups = sessions[s].groups
      /\ first' = first /\ start' = start /\ next' = next + 1
      /\ inner' = inner /\ pc' = "idle"
  BY <1>1, <1>2 DEF Write
<1>5. IInv'
  BY WriteKeeps DEF WInv
<1>6. Opened'
  BY <1>1, <1>4 DEF WInv, Opened
<1>7. G \in Nat /\ I \in Nat
  <2>1. new \in Seq(Seq(Nat))
    BY <1>1, <1>2, WithFrameGrows
  <2> QED
    BY <1>3, <2>1
<1> HIDE DEF new, old, G, I, n
(* Where a place of the new state was before.                              *)
<1>8. ASSUME NEW s \in first .. Newest, NEW g \in DOMAIN sessions'[s].groups,
             NEW i \in DOMAIN sessions'[s].groups[g]
      PROVE  \/ /\ s = n /\ g = G /\ i = I
                /\ sessions'[s].groups[g][i] = next
             \/ /\ g \in DOMAIN sessions[s].groups
                /\ i \in DOMAIN sessions[s].groups[g]
                /\ sessions'[s].groups[g][i] = sessions[s].groups[g][i]
                /\ s < n \/ (s = n /\ (g < G \/ (g = G /\ i < I)))
  <2>1. CASE s = n
    BY <1>3, <1>4, <2>1 DEF old
  <2>2. CASE s # n
    BY <1>1, <1>4, <2>2
  <2> QED
    BY <2>1, <2>2
<1>9. \A s \in first .. Newest : \A g \in DOMAIN sessions[s].groups :
        \A i \in DOMAIN sessions[s].groups[g] :
          /\ g \in DOMAIN sessions'[s].groups
          /\ i \in DOMAIN sessions'[s].groups[g]
          /\ sessions'[s].groups[g][i] = sessions[s].groups[g][i]
          /\ sessions[s].groups[g][i] \in start .. next - 1
  <2> SUFFICES ASSUME NEW s \in first .. Newest, NEW g \in DOMAIN sessions[s].groups,
                      NEW i \in DOMAIN sessions[s].groups[g]
               PROVE  /\ g \in DOMAIN sessions'[s].groups
                      /\ i \in DOMAIN sessions'[s].groups[g]
                      /\ sessions'[s].groups[g][i] = sessions[s].groups[g][i]
                      /\ sessions[s].groups[g][i] \in start .. next - 1
    OBVIOUS
  <2>1. sessions[s].groups[g][i] \in start .. next - 1
    BY DEF WInv, WrittenOnceInOrder, FrameAt
  <2>2. CASE s = n
    BY <1>3, <1>4, <2>1, <2>2 DEF old
  <2>3. CASE s # n
    BY <1>4, <2>1, <2>3
  <2> QED
    BY <2>2, <2>3
<1>10. ASSUME NEW s \in first .. Newest, NEW t \in first .. Newest,
              NEW g \in DOMAIN sessions'[s].groups,
              NEW h \in DOMAIN sessions'[t].groups,
              NEW i \in DOMAIN sessions'[s].groups[g],
              NEW j \in DOMAIN sessions'[t].groups[h]
       PROVE  /\ sessions'[s].groups[g][i] \in start .. next
              /\ Before(<<s, g, i>>, <<t, h, j>>)
                   => sessions'[s].groups[g][i] < sessions'[t].groups[h][j]
  <2>1. sessions'[s].groups[g][i] \in start .. next
    BY <1>1, <1>8, <1>9
  <2>2. ASSUME Before(<<s, g, i>>, <<t, h, j>>)
        PROVE  sessions'[s].groups[g][i] < sessions'[t].groups[h][j]
    <3>1. \/ s < t
          \/ s = t /\ g < h
          \/ s = t /\ g = h /\ i < j
      BY <2>2 DEF Before
    <3>2. CASE s = n /\ g = G /\ i = I
      <4>1. \/ /\ t = n /\ h = G /\ j = I
            \/ t < n \/ (t = n /\ (h < G \/ (h = G /\ j < I)))
        BY <1>8
      <4>2. h \in Int /\ j \in Int
        <5>1. sessions' \in Seq(Session) /\ t \in 1 .. Newest'
          BY <1>1, <1>4, <1>5 DEF IInv, TypeOK
        <5>2. sessions'[t] \in Session
          BY <5>1
        <5>3. /\ sessions'[t].groups \in Seq(Seq(Nat))
              /\ DOMAIN sessions'[t].groups = 1 .. Len(sessions'[t].groups)
              /\ Len(sessions'[t].groups) \in Nat
          BY <5>2, Fields
        <5>4. h \in Int /\ sessions'[t].groups[h] \in Seq(Nat)
          BY <5>3
        <5> QED
          BY <5>4
      <4> QED
        BY <1>1, <1>7, <3>1, <3>2, <4>1, <4>2
    <3>3. CASE ~(s = n /\ g = G /\ i = I)
      <4>1. /\ g \in DOMAIN sessions[s].groups
            /\ i \in DOMAIN sessions[s].groups[g]
            /\ sessions'[s].groups[g][i] = sessions[s].groups[g][i]
        BY <1>8, <3>3
      <4>2. CASE t = n /\ h = G /\ j = I
        <5>1. sessions'[t].groups[h][j] = next
          BY <1>3, <1>4, <4>2
        <5> QED
          BY <1>1, <1>9, <4>1, <5>1
      <4>3. CASE ~(t = n /\ h = G /\ j = I)
        <5>1. /\ h \in DOMAIN sessions[t].groups
              /\ j \in DOMAIN sessions[t].groups[h]
              /\ sessions'[t].groups[h][j] = sessions[t].groups[h][j]
          BY <1>8, <4>3
        <5> QED
          BY <2>2, <4>1, <5>1 DEF WInv, WrittenOnceInOrder, FrameAt
      <4> QED
        BY <4>2, <4>3
    <3> QED
      BY <3>2, <3>3
  <2> QED
    BY <2>1, <2>2
<1>11. ASSUME NEW f \in start .. next
       PROVE  \E s \in first .. Newest : \E g \in DOMAIN sessions'[s].groups :
                \E i \in DOMAIN sessions'[s].groups[g] :
                  sessions'[s].groups[g][i] = f
  <2>1. CASE f = next
    BY <1>1, <1>3, <1>4, <2>1
  <2>2. CASE f # next
    <3>1. f \in start .. next - 1
      BY <1>1, <2>2
    <3>2. PICK s \in first .. Newest : \E g \in DOMAIN sessions[s].groups :
            \E i \in DOMAIN sessions[s].groups[g] : sessions[s].groups[g][i] = f
      BY <3>1 DEF WInv, WrittenOnceInOrder, FrameAt
    <3> QED
      BY <1>9, <3>2
  <2> QED
    BY <2>1, <2>2
<1>12. WrittenOnceInOrder'
  <2>1. next' - 1 = next
    BY <1>1, <1>4
  <2> QED
    BY <1>4, <1>10, <1>11, <2>1 DEF WrittenOnceInOrder, FrameAt, Before
<1> QED
  BY <1>5, <1>6, <1>12 DEF WInv

(* Every step keeps the frames in order and without holes.                 *)
LEMMA StepKeepsFrames == WInv /\ [Next]_vars => WInv'
<1> SUFFICES ASSUME WInv, [Next]_vars PROVE WInv'
  OBVIOUS
<1>1. IInv'
  BY StepKeeps DEF WInv
<1>2. /\ sessions \in Seq(Session) /\ Newest \in Nat /\ first \in Nat
      /\ next \in Nat \ {0} /\ start \in Nat
  BY DEF WInv, IInv, TypeOK, Opened
<1>3. CASE Take \/ Check \/ ProbationOver \/ WriteFails \/ Release \/ OtherClaims
           \/ UNCHANGED vars
  <2>1. sessions' = sessions /\ first' = first /\ start' = start /\ next' = next
    BY <1>3 DEF Take, Check, ProbationOver, WriteFails, Kept, Release, OtherClaims, vars
  <2>2. Opened'
    BY <1>2, <1>3, <2>1 DEF WInv, Opened, Take, Check, Usable, Dropped, ProbationOver,
       AfterRefusal, Established, WriteFails, Release, OtherClaims, vars
  <2>3. WrittenOnceInOrder'
    BY <1>2, <2>1, GroupsKept DEF WInv
  <2> QED
    BY <1>1, <2>2, <2>3 DEF WInv
<1>4. CASE Connect
  <2>1. /\ Newest' = Newest + 1 /\ sessions'[Newest + 1].groups = <<>>
        /\ \A s \in 1 .. Newest : sessions'[s] = sessions[s]
        /\ first' = first /\ start' = start /\ next' = next
        /\ inner' = inner
    BY <1>2, <1>4 DEF Connect, NewSession
  <2>2. Opened'
    BY <1>2, <2>1 DEF WInv, Opened
  <2>3. WrittenOnceInOrder'
    <3>1. \A s \in first .. Newest : sessions'[s].groups = sessions[s].groups
      BY <1>2, <2>1 DEF WInv, Opened
    <3>2. \A s \in Newest + 1 .. Newest' : sessions'[s].groups = <<>>
      BY <1>2, <2>1
    <3>3. WrittenOnceInOrder /\ Newest' \in Nat /\ Newest <= Newest'
      BY <1>2, <2>1 DEF WInv
    <3> QED
      BY <1>2, <2>1, <3>1, <3>2, <3>3, GroupsKept
  <2> QED
    BY <1>1, <2>2, <2>3 DEF WInv
<1>5. CASE \E s \in 1 .. Newest : Answer(s) \/ SessionEnds(s) \/ RaiseFlag(s)
  <2>1. /\ Newest' = Newest
        /\ \A s \in 1 .. Newest : sessions'[s].groups = sessions[s].groups
        /\ first' = first /\ start' = start /\ next' = next
        /\ inner' = inner /\ pc' = pc
    <3>1. PICK s \in 1 .. Newest : Answer(s) \/ SessionEnds(s) \/ RaiseFlag(s)
      BY <1>5
    <3>2. sessions[s] \in Session
      BY <3>1, Typed DEF WInv
    <3>3. /\ first' = first /\ start' = start /\ next' = next
          /\ inner' = inner /\ pc' = pc
      BY <3>1 DEF Answer, SessionEnds, RaiseFlag
    <3>4. PICK x : sessions' = [sessions EXCEPT ![s] = x]
                   /\ x.groups = sessions[s].groups
      <4>1. CASE UNCHANGED claim /\ Answer(s)
        <5> DEFINE a == [sessions[s] EXCEPT !.answer = "accepted"]
                   r == [sessions[s] EXCEPT !.answer = "refused", !.ended = TRUE]
        <5>1. \/ sessions' = [sessions EXCEPT ![s] = a]
              \/ sessions' = [sessions EXCEPT ![s] = r]
          BY <1>2, <4>1 DEF Answer
        <5>2. a.groups = sessions[s].groups /\ r.groups = sessions[s].groups
          BY <3>2 DEF Session
        <5> HIDE DEF a, r
        <5> QED
          BY <5>1, <5>2
      <4>2. CASE ~UNCHANGED claim /\ Answer(s)
        <5> DEFINE a == [sessions[s] EXCEPT !.answer = "accepted"]
        <5>1. sessions' = [sessions EXCEPT ![s] = a]
          BY <4>2 DEF Answer
        <5>2. a.groups = sessions[s].groups
          BY <3>2 DEF Session
        <5> HIDE DEF a
        <5> QED
          BY <5>1, <5>2
      <4>3. CASE SessionEnds(s)
        <5> DEFINE a == [sessions[s] EXCEPT !.ended = TRUE]
        <5>1. sessions' = [sessions EXCEPT ![s] = a]
          BY <4>3 DEF SessionEnds
        <5>2. a.groups = sessions[s].groups
          BY <3>2 DEF Session
        <5> HIDE DEF a
        <5> QED
          BY <5>1, <5>2
      <4>4. CASE RaiseFlag(s)
        <5> DEFINE a == [sessions[s] EXCEPT !.dead = TRUE, !.late = ~OnProbation(s)]
        <5>1. sessions' = [sessions EXCEPT ![s] = a]
          BY <1>2, <4>4 DEF RaiseFlag
        <5>2. a.groups = sessions[s].groups
          BY <3>2 DEF Session
        <5> HIDE DEF a
        <5> QED
          BY <5>1, <5>2
      <4> QED
        BY <3>1, <4>1, <4>2, <4>3, <4>4
    <3> QED
      BY <1>2, <3>1, <3>3, <3>4
  <2>2. Opened'
    BY <2>1 DEF WInv, Opened
  <2>3. WrittenOnceInOrder'
    BY <1>2, <2>1, GroupsKept DEF WInv, Opened
  <2> QED
    BY <1>1, <2>2, <2>3 DEF WInv
<1>6. CASE Crash
  <2>1. /\ Newest' = Newest /\ first' = Newest + 1 /\ next' = start'
        /\ next' \in Nat /\ inner' = None /\ pc' = "idle"
    BY <1>2, <1>6 DEF Crash
  <2>2. Opened'
    BY <1>2, <2>1 DEF Opened
  <2>3. first' .. Newest' = {} /\ start' .. (next' - 1) = {}
    <3>1. \A m \in Nat : (m + 1) .. m = {} /\ m .. (m - 1) = {}
      OBVIOUS
    <3> QED
      BY <1>2, <2>1, <3>1
  <2>4. WrittenOnceInOrder'
    BY <2>3 DEF WrittenOnceInOrder
  <2> QED
    BY <1>1, <2>2, <2>4 DEF WInv
<1> QED
  BY <1>3, <1>4, <1>5, <1>6, WriteAddsNext DEF Next, Writer

(* No frame is skipped or written twice over all the sessions of a life    *)
(* (dialect07.rs:124), whenever sessions are refused or die.               *)
THEOREM NoFrameSkipped == Spec => []WrittenOnceInOrder
<1>1. Init => WInv
  <2>1. ASSUME Init
        PROVE  Opened /\ WrittenOnceInOrder
    <3>1. Newest = 0 /\ first = 1 /\ start = 1 /\ next = 1 /\ inner = None
          /\ pc = "idle"
      BY <2>1 DEF Init
    <3>2. first .. Newest = {} /\ start .. next - 1 = {}
      BY <3>1
    <3> QED
      BY <3>1, <3>2 DEF Opened, WrittenOnceInOrder
  <2> QED
    BY <2>1, InitIInv DEF WInv
<1> QED
  BY <1>1, StepKeepsFrames, PTL DEF Spec, WInv

=============================================================================
