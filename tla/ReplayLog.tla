------------------------------ MODULE ReplayLog ------------------------------
(***************************************************************************)
(* What the on-disk group store promises to the publisher, with the        *)
(* segments, the index and the crashes hidden: a log of finished groups    *)
(* that grows at the top and loses groups only from the bottom.  A group   *)
(* may reach the log and the process die before the publisher hears of it, *)
(* but a confirmed group is in the log until retention drops it.           *)
(*                                                                         *)
(* GroupStore.tla is shown to implement this module.                       *)
(***************************************************************************)
EXTENDS Naturals

CONSTANT Groups     \* the possible groups, each a record with a field seq

VARIABLES
  log,              \* the groups that can be read back
  confirmed         \* those of them whose append returned Ok

NewerThan(g, S) == {h \in S : h.seq > g.seq}

LogInit ==
  /\ log \in SUBSET Groups
  /\ confirmed \in SUBSET log

(* A finished group is added above everything the log holds.               *)
Store(g) ==
  /\ \A h \in log : h.seq < g.seq
  /\ log' = log \cup {g}
  /\ confirmed' \in {confirmed, confirmed \cup {g}}

(* Retention drops a group together with every older one, and no other.    *)
Evict(g) ==
  /\ log' = NewerThan(g, log)
  /\ confirmed' = NewerThan(g, confirmed)

LogNext ==
  \/ \E g \in Groups : Store(g)
  \/ \E g \in log : Evict(g)

LogSpec == LogInit /\ [][LogNext]_<<log, confirmed>>
=============================================================================
