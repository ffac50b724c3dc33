---------------------------- MODULE SelectiveSync ----------------------------
(***************************************************************************)
(* What selective sync promises its subscribers, with the tracks, the      *)
(* queue of requests, the generations and both clean-up tasks hidden: an   *)
(* account is served to everyone who asks for it or to nobody, whoever     *)
(* asks is fed or told that the subscription ended, and a subscriber that  *)
(* is fed stays fed until it leaves, unless it joined an account that had  *)
(* been found without subscribers.                                         *)
(*                                                                         *)
(* DidRouter.tla is shown to implement this module.                        *)
(***************************************************************************)
EXTENDS Naturals, FiniteSets

CONSTANTS
  Clients,      \* subscribers
  Names,        \* track names they ask for
  Dids,         \* those that are DIDs
  MaxTracks     \* the cap on served accounts

VARIABLES
  sub,          \* client -> how its subscription stands
  live,         \* the accounts that are served
  unwatched     \* those of them that were found without subscribers

Away       == [stage |-> "away"]
Waiting(n) == [stage |-> "waiting", name |-> n]
Fed(n)     == [stage |-> "fed", name |-> n]
Ended      == [stage |-> "ended"]

Becomes(old, new) == sub' = [c \in Clients |-> IF sub[c] = old THEN new ELSE sub[c]]

SyncInit ==
  /\ sub = [c \in Clients |-> Away]
  /\ live = {} /\ unwatched = {}

(* A name is asked for that nobody is fed with: the router has to decide.  *)
Ask(c, n) ==
  /\ sub[c] = Away /\ \A d \in Clients : sub[d] # Fed(n)
  /\ sub' = [sub EXCEPT ![c] = Waiting(n)]
  /\ UNCHANGED <<live, unwatched>>

(* An account that is served already is shared.                            *)
Join(c, n) ==
  /\ sub[c] = Away /\ n \in live /\ \A d \in Clients : sub[d] # Waiting(n)
  /\ sub' = [sub EXCEPT ![c] = Fed(n)]
  /\ UNCHANGED <<live, unwatched>>

(* The router serves an account to everyone who waits for it, or refuses   *)
(* it to all of them.                                                      *)
Serve(n) ==
  /\ n \in Dids /\ Cardinality(live) < MaxTracks
  /\ \E c \in Clients : sub[c] = Waiting(n)
  /\ Becomes(Waiting(n), Fed(n))
  /\ live' = live \cup {n} /\ unwatched' = unwatched \ {n}

Decline(n) ==
  /\ n \notin Dids \/ Cardinality(live) >= MaxTracks
  /\ \E c \in Clients : sub[c] = Waiting(n)
  /\ Becomes(Waiting(n), Ended)
  /\ UNCHANGED <<live, unwatched>>

(* Nobody is left on a served account.  Someone may still join it before   *)
(* it is dropped, and is then told.                                        *)
Watchless(n) ==
  /\ n \in live /\ \A c \in Clients : sub[c] # Fed(n)
  /\ unwatched' = unwatched \cup {n}
  /\ UNCHANGED <<sub, live>>

Drop(n) ==
  /\ n \in unwatched
  /\ live' = live \ {n} /\ unwatched' = unwatched \ {n}
  /\ Becomes(Fed(n), Ended)

(* Whoever was answered may go; a subscription that waits is answered.     *)
Leave(c) ==
  /\ sub[c].stage \in {"fed", "ended"}
  /\ sub' = [sub EXCEPT ![c] = Away]
  /\ UNCHANGED <<live, unwatched>>

SyncNext ==
  \/ \E c \in Clients, n \in Names : Ask(c, n) \/ Join(c, n)
  \/ \E n \in Names : Serve(n) \/ Decline(n) \/ Watchless(n) \/ Drop(n)
  \/ \E c \in Clients : Leave(c)

SyncSpec == SyncInit /\ [][SyncNext]_<<sub, live, unwatched>>
=============================================================================
