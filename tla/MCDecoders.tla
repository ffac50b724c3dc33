----------------------------- MODULE MCDecoders -----------------------------
(***************************************************************************)
(* Decoders.tla for TLC: pieces for numbers, floats and strings; for       *)
(* arrays and maps; for links; and the entries of a CAR.                   *)
(***************************************************************************)
EXTENDS Decoders

Zeros(n) == [i \in 1 .. n |-> 0]

(* Numbers of every width, indefinite and reserved lengths, simple values, *)
(* floats that are 1.0, infinite or NaN, and text that is no UTF-8.        *)
Scalars ==
  {<<23>>, <<24>>, <<24, 24>>, <<25>>, <<1, 0>>, <<26>>, <<0, 1, 0, 0>>, <<27>>,
   <<31>>, <<56>>, <<244>>, <<247>>, <<255>>, <<251>>, <<63, 240>> \o Zeros(6),
   <<127, 240>> \o Zeros(6), <<255, 248>> \o Zeros(6), <<98>>, <<195>>, <<169>>,
   <<120>>}

(* Arrays and maps of one and two, with the longer head a map of two may   *)
(* have, a key, and keys with their values.                                *)
Structures ==
  {<<129>>, <<130>>, <<161>>, <<162>>, <<184, 2>>, <<97, 99>>, <<97, 98, 0>>,
   <<98, 97, 97, 0>>, <<0>>}

(* Tag 42 and others, byte strings with and without the prefix.            *)
Links ==
  {<<216, 42>>, <<217, 0, 42>>, <<192>>, <<64>>, <<66, 0, 1>>, <<66, 1, 0>>, <<97, 0>>,
   <<129>>, <<159>>}

Documents == {Scalars, Structures, Links}

(* A CID of five bytes is a version, a codec, a hash function, the length  *)
(* of the hash and the hash; lengths and codec may take two bytes, and a   *)
(* length of two bytes loses its ninth bit.                                *)
Short == <<1, 113, 18, 1, 5>>
Long == <<1, 129, 1, 18, 1, 5>>

Block(prefix, cid, block) ==
  [bytes |-> prefix \o cid \o block, cid |-> cid, block |-> block, kind |-> "block"]
Other(bytes, kind) == [bytes |-> bytes, cid |-> <<>>, block |-> <<>>, kind |-> kind]

CarsTried ==
  {Block(<<6>>, Short, <<7>>), Block(<<7>>, Short, <<1, 160>>), Block(<<5>>, Short, <<>>),
   Block(<<136, 0>>, Long, <<2, 8>>), Block(<<134, 2>>, Short, <<9>>),
   Other(<<0>>, "skipped"), Other(<<3, 0, 113, 18>>, "skipped"),
   Other(<<4, 1, 113, 18, 9>>, "skipped"), Other(<<3, 1, 113, 129>>, "skipped"),
   Other(<<128, 128, 1>>, "stop"), Other(<<120, 1>>, "stop")}

=============================================================================
