----------------------------- MODULE StateCodec -----------------------------
(***************************************************************************)
(* Contract state, encoded for storage and read back                       *)
(* (src/soroban/contractStateOptimization.ts): tagged bytes with variable- *)
(* length integers, perhaps compressed, and a fingerprint of the state.    *)
(* What is stored may be cut short, altered or extended before it is read. *)
(* A value is <<kind, content>>; objects are functions from texts, texts   *)
(* sequences of characters that take a byte each. "unsupported" stands for *)
(* undefined, functions, NaN and circles; "opaque" for a Date, a Map and   *)
(* whatever else has no keys of its own. The fingerprint is the canonical  *)
(* state itself, as if no two states had the same, and bytes that are read *)
(* as a double are taken for a number.                                     *)
(***************************************************************************)
EXTENDS Integers, SequencesExt

CONSTANTS
  Base,              \* the values of a byte of an integer without its flag, 128
  States,            \* the objects that callers store
  Modes,             \* subset of {"none", "auto"}
  MinCompressBytes,
  Lone, Replacement, \* a character that UTF-8 cannot encode, and what takes its place
  Proto,             \* the text __proto__
  Bytes,             \* those that damage leaves behind
  Remainders,        \* what may lie in a buffer behind the payload, <<>> for nothing
  NotStored, Error

VARIABLES
  state,
  data,        \* what is stored
  behind,      \* the rest of its buffer, when it is a view that ends before
  metadata,    \* compression and hash
  damage,
  result

vars == <<state, data, behind, metadata, damage, result>>

Tags == <<"null", "true", "false", "string", "int", "bigint", "bytes", "double", "array", "object">>
Tag(kind) == (CHOOSE i \in DOMAIN Tags : Tags[i] = kind) - 1

Kind(v) == v[1]
Object(f) == <<"object", f>>
DoubleBytes == 2     \* 8 in the code

-----------------------------------------------------------------------------
\* What is refused; the encoder has no test for values without keys.
RECURSIVE Supported(_)
Supported(v) ==
  CASE Kind(v) = "unsupported" -> FALSE
    [] Kind(v) \in {"array", "object"} -> \A i \in DOMAIN v[2] : Supported(v[2][i])
    [] OTHER -> TRUE

\* Zero loses its sign in the canonical form, and what has no keys is an object
\* without any.
RECURSIVE Canonical(_)
Canonical(v) ==
  CASE Kind(v) = "negative zero" -> <<"int", 0>>
    [] Kind(v) = "opaque"        -> Object(<<>>)
    [] Kind(v) \in {"array", "object"} -> <<Kind(v), [i \in DOMAIN v[2] |-> Canonical(v[2][i])]>>
    [] OTHER -> v

RECURSIVE Varint(_)
Varint(n) == IF n < Base THEN <<n>> ELSE <<Base + (n % Base)>> \o Varint(n \div Base)

\* Mutant: the sign is lost.
ZigZagSigned(n) == IF n < 0 THEN 2 * (-n) ELSE 2 * n

ZigZag(n) == IF n < 0 THEN 2 * (-n) - 1 ELSE 2 * n

Utf8(text) == [i \in DOMAIN text |-> IF text[i] = Lone THEN Replacement ELSE text[i]]

Sized(bytes) == Varint(Len(bytes)) \o bytes

EncodedText(text) == <<Tag("string")>> \o Sized(Utf8(text))

Before(s, t) ==
  \/ IsStrictPrefix(s, t)
  \/ \E i \in 1..Min({Len(s), Len(t)}) : SubSeq(s, 1, i - 1) = SubSeq(t, 1, i - 1) /\ s[i] < t[i]

RECURSIVE Encoded(_)
Encoded(v) ==
  LET tagged(content) == <<Tag(Kind(v))>> \o content
      keys == SetToSortSeq(DOMAIN v[2], Before)
  IN  CASE Kind(v) \in {"null", "true", "false"} -> tagged(<<>>)
        [] Kind(v) = "negative zero"      -> <<Tag("int")>> \o Varint(0)
        [] Kind(v) = "opaque"             -> <<Tag("object")>> \o Varint(0)
        [] Kind(v) \in {"int", "bigint"}  -> tagged(Varint(ZigZag(v[2])))
        [] Kind(v) = "string"             -> EncodedText(v[2])
        [] Kind(v) = "bytes"              -> tagged(Sized(v[2]))
        [] Kind(v) = "double"             -> tagged(v[2])
        [] Kind(v) = "array"              ->
             tagged(Varint(Len(v[2])) \o FlattenSeq([i \in DOMAIN v[2] |-> Encoded(v[2][i])]))
        [] Kind(v) = "object"             ->
             tagged(Varint(Len(keys)) \o
                    FlattenSeq([i \in DOMAIN keys |-> EncodedText(keys[i]) \o Encoded(v[2][keys[i]])]))

-----------------------------------------------------------------------------
\* Reading at a position gives a value and the next position, or breaks off.
Broken == [next |-> 0]
Read(value, next) == [value |-> value, next |-> next]
IsBroken(r) == r.next = 0

RECURSIVE ReadVarint(_, _)
ReadVarint(d, at) ==
  IF at > Len(d) THEN Broken
  ELSE IF d[at] < Base THEN Read(d[at], at + 1)
  ELSE LET rest == ReadVarint(d, at + 1)
       IN  IF IsBroken(rest) THEN Broken ELSE Read(d[at] - Base + Base * rest.value, rest.next)

ReadBytes(d, at, n) ==
  IF at + n - 1 > Len(d) THEN Broken ELSE Read(SubSeq(d, at, at + n - 1), at + n)

\* A double is read from the buffer: only the buffer's end stops it, not the payload's.
ReadDouble(d, at) ==
  LET buffer == d \o behind
  IN  IF at + DoubleBytes - 1 > Len(buffer) THEN Broken
      ELSE Read(SubSeq(buffer, at, at + DoubleBytes - 1), at + DoubleBytes)

ReadSized(d, at) ==
  LET n == ReadVarint(d, at) IN IF IsBroken(n) THEN Broken ELSE ReadBytes(d, n.next, n.value)

ReadSigned(d, at) ==
  LET n == ReadVarint(d, at)
  IN  IF IsBroken(n) THEN Broken
      ELSE Read(IF n.value % 2 = 1 THEN -((n.value + 1) \div 2) ELSE n.value \div 2, n.next)

Wrapped(kind, r) == IF IsBroken(r) THEN Broken ELSE Read(<<kind, r.value>>, r.next)

\* Assigning __proto__ gives the object a prototype and no entry.
Assign(f, key, value) == IF key = Proto THEN f ELSE [k \in DOMAIN f \cup {key} |-> IF k = key THEN value ELSE f[k]]

RECURSIVE Decoded(_, _), DecodedItems(_, _, _, _), DecodedEntries(_, _, _, _)
Decoded(d, at) ==
  IF at > Len(d) \/ (at <= Len(d) /\ d[at] \notin 0..(Len(Tags) - 1)) THEN Broken
  ELSE LET kind  == Tags[d[at] + 1]
           count == ReadVarint(d, at + 1)
       IN  CASE kind \in {"null", "true", "false"} -> Read(<<kind>>, at + 1)
             [] kind \in {"int", "bigint"}   -> Wrapped(kind, ReadSigned(d, at + 1))
             [] kind \in {"string", "bytes"} -> Wrapped(kind, ReadSized(d, at + 1))
             [] kind = "double"              -> Wrapped(kind, ReadDouble(d, at + 1))
             [] IsBroken(count)              -> Broken
             [] kind = "array"  -> Wrapped(kind, DecodedItems(d, count.next, count.value, <<>>))
             [] kind = "object" -> Wrapped(kind, DecodedEntries(d, count.next, count.value, <<>>))

DecodedItems(d, at, count, items) ==
  IF count = 0 THEN Read(items, at)
  ELSE LET item == Decoded(d, at)
       IN  IF IsBroken(item) THEN Broken
           ELSE DecodedItems(d, item.next, count - 1, Append(items, item.value))

DecodedEntries(d, at, count, f) ==
  IF count = 0 THEN Read(f, at)
  ELSE LET key == Decoded(d, at)
       IN  IF IsBroken(key) THEN Broken
           ELSE IF Kind(key.value) # "string" THEN Broken
           ELSE LET value == Decoded(d, key.next)
                IN  IF IsBroken(value) THEN Broken
                    ELSE DecodedEntries(d, value.next, count - 1,
                                        Assign(f, key.value[2], value.value))

-----------------------------------------------------------------------------
TypeOK ==
  /\ state \in States
  /\ data = NotStored \/ \A i \in DOMAIN data : data[i] \in 0..(2 * Base - 1)
  /\ behind \in Remainders \/ damage = "truncated"
  /\ metadata \in [compression : {"none", "gzip"}, hash : {Object(<<>>), Canonical(Object(state))}]
  /\ damage \in {"none", "truncated", "altered", "extended"}
  /\ result \in {NotStored, Error} \/ Kind(result) = "object"

Init ==
  /\ state \in States
  /\ data = NotStored /\ behind = <<>>
  /\ metadata = [compression |-> "none", hash |-> Object(<<>>)]
  /\ damage = "none"
  /\ result = NotStored

\* Compression that fails leaves the bytes as they are.
CompressContractState(mode) ==
  LET encoded == Encoded(Object(state))
      methods == IF mode = "auto" /\ Len(encoded) >= MinCompressBytes THEN {"gzip", "none"} ELSE {"none"}
  IN  /\ data = NotStored /\ result = NotStored
      /\ Supported(Object(state))
      /\ data' = encoded
      /\ \E method \in methods :
           metadata' = [compression |-> method, hash |-> Canonical(Object(state))]
      /\ UNCHANGED <<state, behind, damage, result>>

RefuseState ==
  /\ data = NotStored /\ result = NotStored
  /\ ~Supported(Object(state))
  /\ result' = Error
  /\ UNCHANGED <<state, data, behind, metadata, damage>>

\* The storage's doing, which the library only sees afterwards.
Damage(kind, damaged, rest) ==
  /\ data # NotStored /\ damage = "none" /\ result = NotStored
  /\ damage' = kind /\ data' = damaged /\ behind' = rest
  /\ UNCHANGED <<state, metadata, result>>

\* A payload may be cut short by a view of its own buffer, and what it lost
\* lies behind.
Truncate ==
  data # NotStored /\ \E n \in 0..(Len(data) - 1) :
    \E rest \in Remainders \cup {SubSeq(data, n + 1, Len(data))} :
      Damage("truncated", SubSeq(data, 1, n), rest)
Alter ==
  data # NotStored /\ \E i \in DOMAIN data, b \in Bytes, rest \in Remainders :
    data[i] # b /\ Damage("altered", [data EXCEPT ![i] = b], rest)
Extend ==
  data # NotStored /\ \E b \in Bytes, rest \in Remainders :
    Damage("extended", Append(data, b), rest)

\* gzip ignores what follows its end and some bytes of its header; any other damage
\* is an error. What it unpacks is what was packed.
Unpacked ==
  CASE metadata.compression = "none" -> {data}
    [] damage = "none"               -> {data}
    [] damage = "truncated"          -> {Error}
    [] OTHER                         -> {Error, Encoded(Object(state))}

Restored(payload) ==
  LET root == Decoded(payload, 1)
  IN  IF payload = Error THEN Error
      ELSE IF IsBroken(root) THEN Error
      ELSE IF Kind(root.value) \notin {"object", "bytes"} THEN Error
      ELSE IF Canonical(root.value) # metadata.hash THEN Error
      ELSE root.value

DecompressContractState ==
  /\ data # NotStored /\ result = NotStored
  /\ \E payload \in Unpacked : result' = Restored(payload)
  /\ UNCHANGED <<state, data, behind, metadata, damage>>

Next ==
  \/ \E mode \in Modes : CompressContractState(mode)
  \/ RefuseState
  \/ Truncate
  \/ Alter
  \/ Extend
  \/ DecompressContractState

Spec == Init /\ [][Next]_vars

-----------------------------------------------------------------------------
RECURSIVE Lossy(_)
Lossy(v) ==
  CASE Kind(v) = "string" -> Lone \in Range(v[2])
    [] Kind(v) = "array"  -> \E i \in DOMAIN v[2] : Lossy(v[2][i])
    [] Kind(v) = "object" ->
         \E k \in DOMAIN v[2] : k = Proto \/ Lone \in Range(k) \/ Lossy(v[2][k])
    [] OTHER -> FALSE

\* What is read back is what was stored, but for the sign of zero and for values
\* without keys, which come back as empty objects. What was stored intact is read
\* back, unless a text in it cannot be encoded or a key is __proto__. A payload cut
\* short is noticed by the decoder itself, whatever its fingerprint, unless more
\* bytes lie behind it in its buffer: then a double may have been read from them.
RestoredOrRefused ==
  /\ result \in {NotStored, Error} \/ Canonical(result) = Canonical(Object(state))
  /\ (data # NotStored /\ damage = "none" /\ result = Error) => Lossy(Object(state))
  /\ damage = "truncated" /\ behind = <<>> => IsBroken(Decoded(data, 1))
=============================================================================
