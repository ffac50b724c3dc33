------------------------------ MODULE MCReader ------------------------------
(***************************************************************************)
(* Reader.tla for TLC: the whole firehose over moq-lite, with a limit and  *)
(* with an idle time; over draft-07; and two accounts whose events         *)
(* alternate.  Some scripts have frames without a sequence.                *)
(***************************************************************************)
EXTENDS Reader

CONSTANTS alice, bob

Accounts == {alice, bob}

On(t, fs) == [i \in DOMAIN fs |-> [track |-> t, frame |-> fs[i]]]

Firehose(source, stop, frames) ==
  [source |-> source, dids |-> {}, stop |-> stop, script |-> On(Main, frames)]

Selective ==
  [source |-> "lite", dids |-> Accounts, stop |-> "never",
   script |-> On(alice, <<1>>) \o On(bob, <<2>>) \o On(alice, <<3>>)]

Tried ==
  {Firehose("lite", "limit", <<1, 2, 3>>), Firehose("lite", "idle", <<1, NoSeq, 2>>),
   Firehose("draft07", "never", <<1, 2, 3>>), Firehose("draft07", "idle", <<Garbage, 1>>),
   Selective}

=============================================================================
