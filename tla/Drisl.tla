------------------------------- MODULE Drisl -------------------------------
(***************************************************************************)
(* What the decoders make of a sequence of bytes: the DRISL validator      *)
(* (drisl.rs), the split of a frame into header and payload (frame.rs),    *)
(* and the blocks of a CAR (car.rs).  Offsets count from 0, as in the      *)
(* code.  A reader returns the offset after what it has read, or Err.      *)
(*                                                                         *)
(* A length above any input is as good as any other: Cap stands for it.    *)
(* A varint has VarintBits bits, one more than a multiple of seven, as 64. *)
(***************************************************************************)
EXTENDS Integers, Sequences

CONSTANTS
  MaxDepth,    \* MAX_DEPTH
  VarintBits

ASSUME DrislAssumption ==
  /\ MaxDepth \in Nat
  /\ VarintBits \in Nat /\ VarintBits > 7 /\ VarintBits % 7 = 1

Err == -1
Cap == 65536

At(data, o) == data[o + 1]
Slice(data, from, to) == SubSeq(data, from + 1, to)

Major(b) == b \div 32
Info(b) == b % 32

----------------------------------------------------------------------------
(* drisl.rs                                                                *)

(* Bytes of the argument after an initial byte.                            *)
Width(ai) == 2 ^ (ai - 24)

(* Mutant: one byte may hold what the initial byte could.                  *)
AnyArgument(arg) == TRUE

Minimal(arg) ==
  IF Len(arg) = 1 THEN arg[1] >= 24
  ELSE \E i \in 1 .. Len(arg) \div 2 : arg[i] # 0

ValueOf(arg) ==
  LET low(i) == arg[Len(arg) + 1 - i] IN
  IF \E i \in 3 .. Len(arg) : low(i) # 0 THEN Cap
  ELSE low(1) + IF Len(arg) > 1 THEN 256 * low(2) ELSE 0

NoArg == [value |-> 0, end |-> Err]

ReadArg(data, o) ==
  LET ai == Info(At(data, o))
      end == o + 1 + Width(ai)
      arg == Slice(data, o + 1, end)
  IN IF ai < 24 THEN [value |-> ai, end |-> o + 1]
     ELSE IF ai <= 27 /\ end <= Len(data) /\ Minimal(arg)
          THEN [value |-> ValueOf(arg), end |-> end]
          ELSE NoArg

(* UTF-8 as far as two bytes; longer forms are not among the inputs.       *)
Utf8(s) ==
  LET from[i \in 1 .. Len(s) + 2] ==
        \/ i = Len(s) + 1
        \/ i <= Len(s) /\ s[i] < 128 /\ from[i + 1]
        \/ /\ i < Len(s) /\ s[i] \in 194 .. 223 /\ s[i + 1] \in 128 .. 191
           /\ from[i + 2]
  IN from[1]

StringEnd(data, o) ==
  LET arg == ReadArg(data, o)
      end == arg.end + arg.value
  IN IF /\ arg.end # Err /\ end <= Len(data)
        /\ Major(At(data, o)) = 3 => Utf8(Slice(data, arg.end, end))
     THEN end ELSE Err

(* Bytewise lexicographic order.                                           *)
Less(a, b) ==
  \E i \in 1 .. Len(b) :
    /\ \A j \in 1 .. i - 1 : j <= Len(a) /\ a[j] = b[j]
    /\ i > Len(a) \/ a[i] < b[i]

(* Mutant: equal keys are in order.                                        *)
NotGreater(key, next) == key = <<>> \/ ~Less(next, key)

InOrder(key, next) == key = <<>> \/ Less(key, next)

(* A float of 64 bits, neither NaN nor infinite.                           *)
FloatEnd(data, o) ==
  IF /\ o + 9 <= Len(data)
     /\ ~(At(data, o + 1) % 128 = 127 /\ At(data, o + 2) >= 240)
  THEN o + 9 ELSE Err

SimpleEnd(data, o) ==
  CASE At(data, o) \in 244 .. 246 -> o + 1   \* false, true, null
    [] At(data, o) = 251 -> FloatEnd(data, o)
    [] OTHER -> Err

(* Tag 42: a byte string that starts with 0.                               *)
TagEnd(data, o) ==
  LET tag == ReadArg(data, o)
      body == ReadArg(data, tag.end).end
  IN IF /\ tag.end # Err /\ tag.value = 42
        /\ tag.end < Len(data) /\ Major(At(data, tag.end)) = 2
        /\ StringEnd(data, tag.end) # Err
        /\ StringEnd(data, tag.end) # body /\ At(data, body) = 0
     THEN StringEnd(data, tag.end) ELSE Err

(* More elements than bytes end in an error: the loops stop there.         *)
Times(arg, data) ==
  IF arg.end = Err THEN 0
  ELSE IF arg.value > Len(data) THEN Len(data) + 1 ELSE arg.value

(* validate_item, for every offset and depth.                              *)
Items(data) ==
  LET item[o \in 0 .. Len(data), d \in 0 .. MaxDepth + 1] ==
    LET arg == ReadArg(data, o)

        element[k \in 0 .. Times(arg, data)] ==
          IF k = 0 THEN arg.end
          ELSE IF element[k - 1] = Err THEN Err ELSE item[element[k - 1], d + 1]

        noEntry == [key |-> <<>>, end |-> Err]
        entry[k \in 0 .. Times(arg, data)] ==
          IF k = 0 THEN [key |-> <<>>, end |-> arg.end]
          ELSE LET start == entry[k - 1].end
                   keyEnd == item[start, d + 1]
                   key == Slice(data, start, keyEnd)
               IN IF /\ start # Err /\ start < Len(data)
                     /\ Major(At(data, start)) = 3 /\ keyEnd # Err
                     /\ InOrder(entry[k - 1].key, key)
                  THEN [key |-> key, end |-> item[keyEnd, d + 1]]
                  ELSE noEntry
    IN IF d > MaxDepth \/ o = Len(data) THEN Err
       ELSE CASE Major(At(data, o)) \in {0, 1} -> arg.end
              [] Major(At(data, o)) \in {2, 3} -> StringEnd(data, o)
              [] Major(At(data, o)) = 4 -> element[Times(arg, data)]
              [] Major(At(data, o)) = 5 -> entry[Times(arg, data)].end
              [] Major(At(data, o)) = 6 -> IF d < MaxDepth THEN TagEnd(data, o)
                                           ELSE Err
              [] Major(At(data, o)) = 7 -> SimpleEnd(data, o)
  IN item

Validate(data, o) == Items(data)[o, 0]

ValidateExact(data) == Validate(data, 0) = Len(data)

----------------------------------------------------------------------------
(* frame.rs                                                                *)

(* The end of the header, if the bytes are a header and a payload.         *)
(* Mutant: bytes after the payload are let through.                        *)
IgnoresTrailing(raw) ==
  LET h == Validate(raw, 0) IN
  IF h # Err /\ h < Len(raw) /\ Validate(raw, h) # Err THEN h ELSE Err

HeaderEnd(raw) ==
  LET h == Validate(raw, 0) IN
  IF h # Err /\ h < Len(raw) /\ Validate(raw, h) = Len(raw) THEN h ELSE Err

----------------------------------------------------------------------------
(* car.rs                                                                  *)

(* A varint: its value and the offset after it.                            *)
Varint(data, o) ==
  LET byte[i \in Nat] ==    \* the bytes so far, up to the i-th
        IF o + i >= Len(data) \/ 7 * i >= VarintBits THEN NoArg
        ELSE LET here == (At(data, o + i) % 128) * 2 ^ (7 * i)
                 rest == byte[i + 1]
             IN IF At(data, o + i) < 128
                THEN [value |-> here, end |-> o + i + 1]
                ELSE IF rest.end = Err THEN NoArg
                     ELSE [value |-> here + rest.value, end |-> rest.end]
      read == byte[0]
  IN [read EXCEPT !.value = @ % 2 ^ VarintBits]

(* The end of the CID an entry starts with: a version, a codec, a hash     *)
(* function and a hash, whose length comes first.                          *)
CidEnd(entry) ==
  LET version == Varint(entry, 0)
      codec == Varint(entry, version.end)
      hash == Varint(entry, codec.end)
      length == Varint(entry, hash.end)
  IN IF /\ version.end # Err /\ version.value = 1
        /\ codec.end # Err /\ hash.end # Err /\ length.end # Err
        /\ length.end + length.value <= Len(entry)
     THEN length.end + length.value ELSE Err

(* Mutant: a truncated entry is read as far as it goes.                    *)
AsMuchAsThereIs(data, o) ==
  LET length == Varint(data, o) IN
  IF length.end = Err THEN Err
  ELSE IF length.end + length.value <= Len(data) THEN length.end + length.value
       ELSE Len(data)

EntryEnd(data, o) ==
  LET length == Varint(data, o) IN
  IF length.end # Err /\ length.end + length.value <= Len(data)
  THEN length.end + length.value ELSE Err

(* The entries after the header, up to a truncated one.                    *)
Entries(data, start) ==
  LET from[o \in 0 .. Len(data)] ==
        IF o = Len(data) \/ EntryEnd(data, o) = Err THEN <<>>
        ELSE <<Slice(data, Varint(data, o).end, EntryEnd(data, o))>>
               \o from[EntryEnd(data, o)]
  IN from[start]

(* The blocks by CID: an entry without one is left out, a later block      *)
(* replaces an earlier.                                                    *)
(* Mutant: the first block is kept.                                        *)
Earlier(i, j) == j < i

Later(i, j) == j > i

BlocksOf(entries) ==
  LET cid(i) == Slice(entries[i], 0, CidEnd(entries[i]))
      kept == {i \in DOMAIN entries : CidEnd(entries[i]) # Err}
      last(c) == CHOOSE i \in kept :
                   cid(i) = c /\ \A j \in kept : cid(j) = c => ~Later(i, j)
  IN [c \in {cid(i) : i \in kept} |->
        Slice(entries[last(c)], CidEnd(entries[last(c)]), Len(entries[last(c)]))]

NoCar == [error |-> TRUE]

Blocks(data) ==
  IF EntryEnd(data, 0) = Err THEN NoCar
  ELSE BlocksOf(Entries(data, EntryEnd(data, 0)))

=============================================================================
