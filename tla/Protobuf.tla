------------------------------ MODULE Protobuf ------------------------------
(***************************************************************************)
(* What protobuf's generated classes do, for any message type.  A type is a *)
(* sequence K of pairs <<name, kind>>, numbered as its fields are; a        *)
(* message is a record of its fields and of the unknown ones it was parsed  *)
(* with.  Bytes are abstracted to the sequence of fields they hold; a field *)
(* on the wire has its number, the kind it was written as, and its value.   *)
(*                                                                          *)
(* The one submessage of the schemas is the header; a field of kind header  *)
(* is a sequence of at most one message.  Operators that must treat it      *)
(* differently take what to do with it as a parameter.                      *)
(***************************************************************************)
EXTENDS Integers, Sequences, FiniteSetsExt, SequencesExt

CONSTANTS
  NegZero,    (* the float -0.0                                             *)
  Garbled,    (* a text that is not UTF-8                                   *)
  TextSize,   (* the size in bytes of each text                             *)
  TagLike     (* texts whose bytes read as fields no Header knows           *)

ASSUME ProtobufAssumption ==
  /\ \A t \in DOMAIN TextSize : TextSize[t] \in Nat
  /\ TagLike \subseteq DOMAIN TextSize

WireType == [int |-> 0, text |-> 2, floats |-> 2, header |-> 2, float |-> 5, cut |-> 4]
Default  == [int |-> 0, float |-> 0, text |-> "", floats |-> <<>>, header |-> <<>>]

Field(n, kind, v) == [n |-> n, kind |-> kind, v |-> v]

(* Bytes that end inside a field, or hold no field.                        *)
Cut == Field(0, "cut", 0)

Name(K, n) == K[n][1]
Kind(K, n) == K[n][2]
Number(K, x) == CHOOSE n \in DOMAIN K : Name(K, n) = x

(* A scalar at its default is as good as not set; so is -0.0.              *)
Unset(kind, v) == v = Default[kind] \/ (kind = "float" /\ v = NegZero)

New(K) == [x \in {Name(K, n) : n \in DOMAIN K} \cup {"unknown"} |->
             IF x = "unknown" THEN <<>> ELSE Default[Kind(K, Number(K, x))]]

-----------------------------------------------------------------------------
(* Parsing.                                                                *)

(* The parser knows a field by its number and wire type.                   *)
Fits(K, f) ==
  /\ f.n \in DOMAIN K
  /\ \/ WireType[f.kind] = WireType[Kind(K, f.n)]
     \/ Kind(K, f.n) = "floats" /\ f.kind = "float"

(* What the bytes of a delimited field are, read as a submessage.          *)
Payload(f) ==
  IF f.kind = "header" THEN f.v
  ELSE IF f.v \in TagLike THEN <<Field(13, "int", 1)>> ELSE <<Cut>>

(* A field that ends the parse: bytes cut short, an end-group tag, a text   *)
(* that is not UTF-8, a delimited field that holds something else.          *)
Unreadable(K, SubReadable(_), f) ==
  \/ f.kind = "cut"
  \/ /\ Fits(K, f)
     /\ CASE Kind(K, f.n) = "text"   -> f.kind # "text" \/ f.v = Garbled
          [] Kind(K, f.n) = "floats" -> f.kind \notin {"floats", "float"}
          [] Kind(K, f.n) = "header" -> f.kind = "floats" \/ ~SubReadable(Payload(f))
          [] OTHER -> FALSE

Readable(K, SubReadable(_), fs) == \A i \in DOMAIN fs : ~Unreadable(K, SubReadable, fs[i])

(* The values a field on the wire adds to a repeated one, packed or not.    *)
Elements(f) == IF f.kind = "float" THEN <<f.v>> ELSE f.v

(* Fields are read into a message: scalars are assigned, the last of them   *)
(* remains, repeated ones extended, submessages merged, unknown ones kept.  *)
ReadInto(K, SubRead(_, _), m, fs) ==
  [x \in DOMAIN m |->
     IF x = "unknown"
     THEN m[x] \o FlattenSeq([i \in DOMAIN fs |-> IF Fits(K, fs[i]) THEN <<>> ELSE <<fs[i]>>])
     ELSE LET own  == {i \in DOMAIN fs : Fits(K, fs[i]) /\ Name(K, fs[i].n) = x}
              kind == Kind(K, Number(K, x))
          IN IF own = {} THEN m[x]
             ELSE CASE kind = "floats" ->
                         m[x] \o FlattenSeq([i \in DOMAIN fs |->
                                   IF i \in own THEN Elements(fs[i]) ELSE <<>>])
                    [] kind = "header" ->
                         <<SubRead(m[x], FlattenSeq([i \in DOMAIN fs |->
                                           IF i \in own THEN Payload(fs[i]) ELSE <<>>]))>>
                    [] OTHER -> fs[Max(own)].v]

(* What a parse leaves behind when it fails: the fields before the one that *)
(* ended it, and that one too if it is a text, which is checked when it is  *)
(* already stored.                                                          *)
Kept(K, SubReadable(_), fs) ==
  LET bad   == {i \in DOMAIN fs : Unreadable(K, SubReadable, fs[i])}
      first == Min(bad)
  IN IF bad = {} THEN fs
     ELSE SubSeq(fs, 1, IF fs[first].kind = "text" /\ fs[first].v = Garbled THEN first ELSE first - 1)

-----------------------------------------------------------------------------
(* Serialising: the fields that are set, by number, then the unknown ones.  *)
Write(K, SubWrite(_), m) ==
  LET Out(n) == IF Unset(Kind(K, n), m[Name(K, n)]) THEN <<>>
                ELSE <<Field(n, Kind(K, n), IF Kind(K, n) = "header"
                                            THEN SubWrite(m[Name(K, n)][1])
                                            ELSE m[Name(K, n)])>>
  IN FlattenSeq([n \in DOMAIN K |-> Out(n)]) \o m.unknown

(* MergeFrom(): what is set in one message is put into another.             *)
MergeInto(K, m, from) ==
  [x \in DOMAIN m |->
     IF x = "unknown" THEN m[x] \o from[x]
     ELSE LET kind == Kind(K, Number(K, x))
          IN IF Unset(kind, from[x]) THEN m[x]
             ELSE IF kind = "floats" THEN m[x] \o from[x] ELSE from[x]]

(* Flat message types have no submessage to treat.                         *)
NoSubWrite(m)    == <<>>
NoSubReadable(f) == FALSE
NoSubRead(m, fs) == m

-----------------------------------------------------------------------------
(* Sizes and bytes.  Every tag of the schemas is one byte.                  *)

SumOf(sizes) ==
  LET sum[i \in 0..Len(sizes)] == IF i = 0 THEN 0 ELSE sum[i - 1] + sizes[i]
  IN sum[Len(sizes)]

VarintSize(v) == IF v < 0 THEN 10 ELSE 1 + Cardinality({k \in 1..4 : v >= 2 ^ (7 * k)})

Delimited(size) == 1 + VarintSize(size) + size

FlatSize(f) ==
  CASE f.kind = "int"    -> 1 + VarintSize(f.v)
    [] f.kind = "float"  -> 1 + 4
    [] f.kind = "text"   -> Delimited(TextSize[f.v])
    [] f.kind = "floats" -> Delimited(4 * Len(f.v))
    [] f.kind = "cut"    -> 1

Size(f) ==
  IF f.kind = "header"
  THEN Delimited(SumOf([i \in DOMAIN f.v |-> FlatSize(f.v[i])]))
  ELSE FlatSize(f)

TotalSize(fs) == SumOf([i \in DOMAIN fs |-> Size(fs[i])])

Bytes(fs) ==
  FlattenSeq([i \in DOMAIN fs |-> [j \in 1..Size(fs[i]) |-> [field |-> fs[i], at |-> j]]])

(* The fields that bytes hold, and Cut where the bytes stop making sense.   *)
FieldsIn(bytes) ==
  LET fs    == FlattenSeq([j \in DOMAIN bytes |->
                 IF "at" \in DOMAIN bytes[j] /\ bytes[j].at = 1 THEN <<bytes[j].field>> ELSE <<>>])
      whole == {k \in 0..Len(fs) : IsPrefix(Bytes(SubSeq(fs, 1, k)), bytes)}
      k     == Max(whole)
  IN IF Bytes(SubSeq(fs, 1, k)) = bytes THEN fs ELSE Append(SubSeq(fs, 1, k), Cut)
=============================================================================
