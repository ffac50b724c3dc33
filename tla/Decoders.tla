------------------------------ MODULE Decoders ------------------------------
(***************************************************************************)
(* The decoders of Drisl.tla on every input a few pieces long.  An input   *)
(* is a document put together from pieces of encodings, or a CAR of        *)
(* entries, which may be cut off anywhere.                                 *)
(*                                                                         *)
(* The validator is compared with a reference: a lenient decoder, as       *)
(* ciborium is one, followed by the deterministic encoding of what was     *)
(* decoded.  So what the validator checks of argument widths, lengths, the *)
(* order of keys, duplicates and nesting is found in another way.  The     *)
(* rules on floats, simple values, tags, UTF-8 and text keys have no other *)
(* form, and the reference states them again.                              *)
(***************************************************************************)
EXTENDS Drisl, SequencesExt

CONSTANTS
  Pieces,     \* sets of byte strings; a document is put together from one
  MaxPieces,  \* bound: pieces of a document
  CarEntries, \* entries of a CAR, with what becomes of each
  MaxEntries  \* bound: entries of a CAR

ASSUME DecodersAssumption ==
  /\ \A set \in Pieces : set \subseteq Seq(0 .. 255)
  /\ MaxPieces \in Nat /\ MaxEntries \in Nat
  /\ \A e \in CarEntries :
       /\ DOMAIN e = {"bytes", "cid", "block", "kind"}
       /\ e.kind \in {"block", "skipped", "stop"}

VARIABLES
  from,     \* the pieces a document is put together from, or none for a CAR
  length,   \* pieces, or entries, so far
  entries,  \* the entries of a CAR
  data      \* the input

vars == <<from, length, entries, data>>

CarHeader == <<1, 160>>

Init ==
  /\ from \in Pieces \cup {{}}
  /\ length = 0 /\ entries = <<>>
  /\ data = IF from = {} THEN CarHeader ELSE <<>>

AddPiece ==
  /\ from # {} /\ length < MaxPieces
  /\ \E p \in from : data' = data \o p
  /\ length' = length + 1
  /\ UNCHANGED <<from, entries>>

AddEntry ==
  /\ from = {} /\ length < MaxEntries
  /\ length' = length + 1
  /\ \E e \in CarEntries :
       /\ entries' = Append(entries, e)
       /\ data' = data \o e.bytes
  /\ UNCHANGED from

CutOff ==
  /\ from = {}
  /\ \E n \in 0 .. Len(data) - 1 : data' = SubSeq(data, 1, n)
  /\ length' = MaxEntries + 1
  /\ UNCHANGED <<from, entries>>

Next == AddPiece \/ AddEntry \/ CutOff

Spec == Init /\ [][Next]_vars

----------------------------------------------------------------------------
(* The reference.                                                          *)

NoItem == [bytes |-> <<>>, end |-> Err, depth |-> 0]

Stripped(arg) ==
  LET zeros == {i \in 0 .. Len(arg) : \A j \in 1 .. i : arg[j] = 0}
      most == CHOOSE i \in zeros : \A j \in zeros : j <= i
  IN SubSeq(arg, most + 1, Len(arg))

Padded(arg, n) == [i \in 1 .. n |-> IF i <= n - Len(arg) THEN 0
                                    ELSE arg[i - (n - Len(arg))]]

(* The shortest head with an argument.                                     *)
Head0(major, arg) ==
  LET s == Stripped(arg) IN
  CASE s = <<>> -> <<32 * major>>
    [] Len(s) = 1 /\ s[1] < 24 -> <<32 * major + s[1]>>
    [] Len(s) = 1 /\ s[1] >= 24 -> <<32 * major + 24>> \o s
    [] Len(s) = 2 -> <<32 * major + 25>> \o s
    [] Len(s) \in 3 .. 4 -> <<32 * major + 26>> \o Padded(s, 4)
    [] Len(s) > 4 -> <<32 * major + 27>> \o Padded(s, 8)

(* Text keys by length, then byte by byte.                                 *)
KeyBefore(a, b) ==
  \/ Len(a.key) < Len(b.key)
  \/ Len(a.key) = Len(b.key) /\ Less(a.key, b.key)

Concat(seqs) == FoldLeft(LAMBDA s, t : s \o t, <<>>, seqs)

Recoded(data0) ==
  LET item[o \in 0 .. Len(data0)] ==
    LET b == data0[o + 1]
        ai == b % 32
        major == b \div 32
        argEnd == o + 1 + IF ai < 24 THEN 0 ELSE 2 ^ (ai - 24)
        arg == IF ai < 24 THEN <<ai>> ELSE SubSeq(data0, o + 2, argEnd)
        head == Head0(major, arg)
        count == IF ValueOf(arg) > Len(data0) THEN Len(data0) + 1 ELSE ValueOf(arg)

        \* what follows the head: count items, or none if they are not there
        several[k \in 0 .. 2 * count] ==
          IF k = 0 THEN <<>>
          ELSE LET before == several[k - 1]
                   start == IF k = 1 THEN argEnd ELSE before[k - 1].end
               IN Append(before, IF start = Err THEN NoItem ELSE item[start])
        deepest(items) ==
          IF items = <<>> THEN 0
          ELSE 1 + (CHOOSE d \in {items[i].depth : i \in DOMAIN items} :
                      \A i \in DOMAIN items : items[i].depth <= d)
        all(items) == \A i \in DOMAIN items : items[i].end # Err
        end(items) == IF items = <<>> THEN argEnd ELSE items[Len(items)].end

        array == several[count]
        pairs == several[2 * count]
        entry(i) == [key |-> pairs[2 * i - 1].bytes, value |-> pairs[2 * i].bytes]
        map == {entry(i) : i \in 1 .. count}
        body == SubSeq(data0, argEnd + 1, argEnd + count)
    IN CASE o = Len(data0) -> NoItem
         [] o < Len(data0) /\ major = 7 ->
              IF b \in {244, 245, 246}
              THEN [bytes |-> <<b>>, end |-> o + 1, depth |-> 0]
              ELSE IF /\ b = 251 /\ o + 9 <= Len(data0)
                      /\ data0[o + 2] % 128 # 127 \/ data0[o + 3] < 240
              THEN [bytes |-> SubSeq(data0, o + 1, o + 9), end |-> o + 9, depth |-> 0]
              ELSE NoItem
         [] o < Len(data0) /\ major # 7 /\ (ai > 27 \/ argEnd > Len(data0)) -> NoItem
         [] o < Len(data0) /\ major # 7 /\ ai <= 27 /\ argEnd <= Len(data0) ->
              CASE major \in {0, 1} -> [bytes |-> head, end |-> argEnd, depth |-> 0]
                [] major \in {2, 3} ->
                     IF argEnd + count <= Len(data0) /\ (major = 3 => Utf8(body))
                     THEN [bytes |-> head \o body, end |-> argEnd + count, depth |-> 0]
                     ELSE NoItem
                [] major = 4 ->
                     IF all(array)
                     THEN [bytes |-> head \o Concat([i \in DOMAIN array |-> array[i].bytes]),
                           end |-> end(array), depth |-> deepest(array)]
                     ELSE NoItem
                [] major = 5 ->
                     IF /\ all(pairs)
                        /\ \A i \in 1 .. count : pairs[2 * i - 1].bytes[1] \div 32 = 3
                        /\ \A i, j \in 1 .. count :
                             i # j => entry(i).key # entry(j).key
                     THEN [bytes |-> head \o
                             Concat([i \in 1 .. count |->
                               LET e == SetToSortSeq(map, KeyBefore)[i]
                               IN e.key \o e.value]),
                           end |-> end(pairs), depth |-> deepest(pairs)]
                     ELSE NoItem
                [] major = 6 ->
                     IF argEnd < Len(data0) /\ ValueOf(arg) = 42
                     THEN LET link == item[argEnd] IN
                          IF /\ link.end # Err /\ data0[argEnd + 1] \div 32 = 2
                             /\ Len(link.bytes) > Len(Head0(2, <<Len(link.bytes)>>))
                             /\ data0[link.end - (Len(link.bytes) - 1) + 1] = 0
                          THEN [bytes |-> head \o link.bytes, end |-> link.end,
                                depth |-> link.depth + 1]
                          ELSE NoItem
                     ELSE NoItem
  IN item[0]

----------------------------------------------------------------------------
(* The entries a reader of a CAR can get at: those the data holds whole,   *)
(* before the first whose length cannot be read or is not there.           *)

Start(i) == Len(CarHeader) + FoldLeft(LAMBDA n, e : n + Len(e.bytes), 0,
                                      SubSeq(entries, 1, i - 1))

Reached == {i \in DOMAIN entries :
              /\ Start(i) + Len(entries[i].bytes) <= Len(data)
              /\ \A j \in 1 .. i : entries[j].kind # "stop"}

NewestOf(c) ==
  CHOOSE i \in Reached :
    /\ entries[i].kind = "block" /\ entries[i].cid = c
    /\ \A j \in Reached : entries[j].cid = c => j <= i

----------------------------------------------------------------------------
(* Properties.                                                             *)

(* The single pass of drisl.rs over the raw bytes accepts exactly the      *)
(* deterministic encodings: bytes that decode to a document, and that      *)
(* encoding the document again, with keys shortest first, gives back.      *)
AcceptsExactlyCanonical ==
  from # {} =>
    LET document == Recoded(data) IN
    ValidateExact(data) <=> /\ document.end = Len(data)
                            /\ document.bytes = data
                            /\ document.depth <= MaxDepth

(* Where frame.rs splits a frame is the only place where it falls into two *)
(* documents, and it splits every frame that has such a place.             *)
BoundaryUnique ==
  from # {} =>
    {h \in 1 .. Len(data) - 1 :
       /\ ValidateExact(SubSeq(data, 1, h))
       /\ ValidateExact(SubSeq(data, h + 1, Len(data)))}
      = {HeaderEnd(data)} \ {Err}

(* A CAR cut off anywhere, with entries that make no sense in it, yields   *)
(* the blocks of the entries before the cut, the newest of each CID        *)
(* (car.rs blocks): a bad entry takes none of its neighbours with it.      *)
ReadsWholeEntries ==
  from = {} =>
    IF Len(data) < Len(CarHeader) THEN Blocks(data) = NoCar
    ELSE Blocks(data) =
           [c \in {entries[i].cid : i \in {j \in Reached : entries[j].kind = "block"}} |->
              entries[NewestOf(c)].block]

=============================================================================
