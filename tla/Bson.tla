-------------------------------- MODULE Bson --------------------------------
(***************************************************************************)
(* The documents of requests and replies (BSON).  A reply is made in       *)
(* memory that was allocated by the sizes the bson_measure_* functions     *)
(* give; the bson_set_* functions append to it.  A request is searched     *)
(* with bson_get_props, which skips elements by their measured length.     *)
(*                                                                         *)
(* A document is the sequence of its bytes; offsets count from 0, as in C. *)
(* A reply also takes an element from the request ("id"), and may hold a   *)
(* document made before ("result").  Requests are well-formed, but code    *)
(* with scope in one is measured 4 bytes too long, so that what follows it *)
(* is read from the wrong place, which may be garbage or behind the end.   *)
(***************************************************************************)
EXTENDS Integers, SequencesExt

CONSTANTS
  Key,        \* the names of elements
  Text, Number, \* the values of strings and integers
  Binary,     \* the contents of binaries
  Others,   \* what else clients send: records of a type and its bytes
  MaxElements,  \* of the document being made
  MaxNested,    \* of one that another is to hold
  MaxRoom,      \* the bytes that malloc can give
  Behind        \* the bytes of memory behind a document that are read with it

MaxInt == 2147483647
Int32  == -MaxInt-1..MaxInt
Octet  == 0..255
Char   == 1..255  \* of a name or a string, which end with NUL

VARIABLES
  doc,    \* the document being made
  put,    \* the elements it was given, in their order
  room,   \* the sum of the sizes measured for it
  buf,    \* the offset of its last binary's content, or -1
  other,  \* the request, or the document made before
  given   \* its elements

bsonVars == <<doc, put, room, buf, other, given>>

-----------------------------------------------------------------------------
(* Bytes *)

\* write_unaligned_int
Int4(n) == <<n % 256, (n \div 256) % 256, (n \div 65536) % 256, (n \div 16777216) % 256>>

\* read_unaligned_int: 32 bits with a sign.
Read4(d, o) ==
  d[o+1] + 256 * d[o+2] + 65536 * d[o+3] + 16777216 * (IF d[o+4] < 128 THEN d[o+4] ELSE d[o+4] - 256)

\* The offset of the NUL at or behind o.
Nul(d, o) == CHOOSE n \in o..Len(d)-1 : d[n+1] = 0 /\ \A m \in o..n-1 : d[m+1] # 0
Name(d, o) == SubSeq(d, o + 1, Nul(d, o))

EmptyDocument == Int4(5) \o <<0>>

\* A value of one of the types that the firmware does not write.  The length
\* of code with scope (15) counts itself.
Foreign(type, b) ==
  \/ type \in {1, 9, 17, 18} /\ Len(b) = 8
  \/ type = 6 /\ Len(b) = 0
  \/ type = 7 /\ Len(b) = 12
  \/ type = 19 /\ Len(b) = 16
  \/ type = 11 /\ \E i \in 1..Len(b)-1 : \A j \in 1..Len(b) : b[j] = 0 <=> j \in {i, Len(b)}
  \/ type = 12 /\ Len(b) >= 16 /\ Read4(b, 0) = Len(b) - 16
  \/ type \in {13, 14} /\ Len(b) >= 4 /\ Read4(b, 0) = Len(b) - 4
  \/ type = 15 /\ Len(b) >= 14 /\ Read4(b, 0) = Len(b)

ASSUME BsonAssumption ==
  /\ Key \cup Text \subseteq Seq(Char)
  /\ Number \subseteq Int32
  /\ Binary \subseteq Seq(Octet)
  /\ \A e \in Others : e.bytes \in Seq(Octet) /\ Foreign(e.type, e.bytes)
  /\ MaxElements \in Nat /\ MaxNested \in Nat /\ MaxRoom \in 5..MaxInt
  /\ Behind \in Seq(Octet) /\ Len(Behind) = 4

-----------------------------------------------------------------------------
(* Reading *)

\* measure_value: the bytes of a value of this type at o, or -1.  The length it
\* begins with may lie behind the end.
Counted(n, more) == IF n < 0 THEN -1 ELSE n + more
Pattern(d, o) ==
  LET options == Nul(d, o) + 1
      end     == Nul(d, options) + 1
  IN  IF options >= Len(d) \/ end >= Len(d) THEN -1 ELSE end - o

MeasureValue(d, type, o) ==
  LET n == Read4(d \o Behind, o)
  IN  CASE type \in {1, 9, 17, 18}         -> 8
        [] type \in {2, 13, 14, 15}        -> Counted(n, 4)
        [] type \in {3, 4}                 -> Counted(n, 0)
        [] type = 5                        -> Counted(n, 4 + 1)
        [] type \in {6, 10}                -> 0
        [] type = 7                        -> 12
        [] type = 8                        -> 1
        [] type = 11                       -> Pattern(d, o)
        [] type = 12                       -> Counted(n, 4 + 12)
        [] type = 16                       -> 4
        [] type = 19                       -> 16
        [] OTHER                           -> -1

\* One round of the loop of bson_get_props: the element at offset s.at.  It ends
\* at the end marker, when all names are found, at a name that ends with the
\* document, and at a type it does not know.
ScanElement(d, s) ==
  LET k    == Name(d, s.at + 1)
      data == s.at + 1 + Len(k) + 1
      size == MeasureValue(d, d[s.at+1], data)
  IN  IF data >= Len(d) THEN [s EXCEPT !.at = Read4(d, 0)]
      ELSE [at  |-> IF size < 0 THEN Read4(d, 0) ELSE data + size,
            off |-> [j \in DOMAIN s.off |-> IF j = k /\ s.off[j] < 0 THEN s.at ELSE s.off[j]]]

Scan(d, s) ==
  IF s.at >= Read4(d, 0) \/ d[s.at+1] = 0 \/ \A k \in DOMAIN s.off : s.off[k] >= 0
  THEN s ELSE ScanElement(d, s)

\* bson_get_props: the offset of the first element of each name, or -1.  There
\* are less elements than bytes.
Props(d, keys) ==
  LET scan[n \in 0..Len(d)] ==
        IF n = 0 THEN [at |-> 4, off |-> [k \in keys |-> -1]] ELSE Scan(d, scan[n-1])
  IN  scan[Len(d)].off

\* seek_data: an element of one of these types at o?
Is(d, o, types) == o >= 4 /\ d[o+1] \in types
ValueAt(d, o) == Nul(d, o + 1) + 1

\* bson_get_*, with the default value for an element that is not there, has
\* another type or is empty.
GetString(d, o, default) ==
  IF ~Is(d, o, {2}) THEN default
  ELSE LET v == ValueAt(d, o)
           n == Read4(d, v)
       IN  IF n <= 0 \/ Len(d) < v + 4 + n \/ d[v+4+n] # 0 THEN default ELSE Name(d, v + 4)

GetSubdocument(d, o, default) ==
  IF ~Is(d, o, {3, 4}) THEN default
  ELSE LET v == ValueAt(d, o) IN SubSeq(d, v + 1, v + Read4(d, v))

GetBinary(d, o, default) ==
  IF ~Is(d, o, {5}) THEN default
  ELSE LET v == ValueAt(d, o)
           n == Read4(d, v)
       IN  IF n <= 0 \/ Len(d) < v + 5 + n THEN default ELSE SubSeq(d, v + 6, v + 5 + n)

GetBoolean(d, o, default) == IF Is(d, o, {8}) THEN d[ValueAt(d, o) + 1] # 0 ELSE default
GetInt32(d, o, default) == IF Is(d, o, {16}) THEN Read4(d, ValueAt(d, o)) ELSE default

-----------------------------------------------------------------------------
(* Writing *)

\* The end marker gives way to the element, and the length is written anew.
Appended(d, type, k, bytes) ==
  LET end == Read4(d, 0)
      body == SubSeq(d, 5, end - 1) \o <<type>> \o k \o <<0>> \o bytes \o <<0>>
  IN  Int4(4 + Len(body)) \o body

Element(type, k, v, bytes) == [type |-> type, key |-> k, value |-> v, bytes |-> bytes]

\* One bson_set_* into the reply, and the size its bson_measure_* gives.
Set(e, size) ==
  /\ Len(put) < MaxElements /\ room + size <= MaxRoom
  /\ doc' = Appended(doc, e.type, e.key, e.bytes)
  /\ put' = Append(put, e)
  /\ room' = room + size
  /\ UNCHANGED <<other, given>>

set_string(k, t) ==
  /\ Set(Element(2, k, t, Int4(Len(t) + 1) \o t \o <<0>>), 1 + (Len(k) + 1) + 4 + (Len(t) + 1))
  /\ UNCHANGED buf

\* set_subelement
SetSub(e) == Set(e, 1 + (Len(e.key) + 1) + Len(e.bytes)) /\ UNCHANGED buf

set_boolean(k, b) == SetSub(Element(8, k, b, <<IF b THEN 1 ELSE 0>>))
set_int32(k, n)   == SetSub(Element(16, k, n, Int4(n)))
set_null(k)       == SetSub(Element(10, k, <<>>, <<>>))

\* set_subdocument and set_array, of the document made before.
set_subdocument(k, type) == SetSub(Element(type, k, other, SubSeq(other, 1, Read4(other, 0))))

\* set_binary, and its caller fills in the content.
BinaryElement(k, data) == Element(5, k, data, Int4(Len(data)) \o <<0>> \o data)

set_binary(k, data) ==
  /\ Set(BinaryElement(k, data), 1 + (Len(k) + 1) + 4 + 1 + Len(data))
  /\ buf' = Read4(doc, 0) - 1 + 1 + (Len(k) + 1) + 4 + 1

\* The value of the first element of the other document with this name.
Original(from) ==
  LET first == {i \in DOMAIN given : given[i].key = from /\ \A j \in 1..i-1 : given[j].key # from}
  IN  IF first = {} THEN <<>> ELSE given[CHOOSE i \in first : TRUE].value

\* bson_set_element: the element of the other document named from, under the
\* name k; nothing if there is none.  A length that was read from a wrong place
\* is not followed far out of the document.
set_element(k, from) ==
  LET o == Props(other, {from})[from]
  IN  /\ o >= 4
      /\ LET type == other[o+1]
             v    == ValueAt(other, o)
             size == MeasureValue(other, type, v)
         IN  /\ size >= 0 /\ size <= Len(other) + Len(Behind) - v
             /\ Set(Element(type, k, Original(from), SubSeq(other \o Behind, v + 1, v + size)),
                    1 + (Len(k) + 1) + size)
  /\ UNCHANGED buf

\* A faulty variant: the length of the document stays.
ShrinkBinaryOnly(n) ==
  /\ buf >= 0
  /\ LET old == Read4(doc, buf - 5)
     IN  /\ doc[buf + old + 1] = 0 /\ n < old
         /\ doc' = SubSeq(doc, 1, buf - 5) \o Int4(n) \o SubSeq(doc, buf, buf + n)
                     \o [i \in 1..(old - n) + 1 |-> 0]
         /\ put' = [put EXCEPT ![Len(put)] = BinaryElement(@.key, SubSeq(@.value, 1, n))]
  /\ UNCHANGED <<room, buf, other, given>>

\* bson_shrink_binary: refused unless the end of the document follows.
shrink_binary(n) ==
  /\ buf >= 0
  /\ LET old == Read4(doc, buf - 5)
     IN  /\ doc[buf + old + 1] = 0 /\ n < old
         /\ doc' = Int4(Read4(doc, 0) - (old - n)) \o SubSeq(doc, 5, buf - 5)
                     \o Int4(n) \o SubSeq(doc, buf, buf + n) \o <<0>>
         /\ put' = [put EXCEPT ![Len(put)] = BinaryElement(@.key, SubSeq(@.value, 1, n))]
  /\ UNCHANGED <<room, buf, other, given>>

-----------------------------------------------------------------------------

NewDocument == doc' = EmptyDocument /\ put' = <<>> /\ room' = 5 /\ buf' = -1

\* The document that is done is the "result" of the next one.
Nest ==
  /\ given = <<>> /\ Len(put) \in 1..MaxNested
  /\ other' = doc /\ given' = put
  /\ NewDocument

\* The reply is sent, and both documents are freed.
Sent ==
  /\ put # <<>>
  /\ other' = EmptyDocument /\ given' = <<>>
  /\ NewDocument

\* What a client makes an element of: its value for the firmware, its bytes.
FromClient ==
       {[type |-> e.type, value |-> e.bytes, bytes |-> e.bytes] : e \in Others}
  \cup {[type |-> 16, value |-> n, bytes |-> Int4(n)] : n \in Number}

Request(k1, e1, k2, e2) ==
  /\ given = <<>> /\ put = <<>>
  /\ 5 + (1 + Len(k1) + 1 + Len(e1.bytes)) + (1 + Len(k2) + 1 + Len(e2.bytes)) <= MaxRoom
  /\ other' = Appended(Appended(EmptyDocument, e1.type, k1, e1.bytes), e2.type, k2, e2.bytes)
  /\ given' = <<Element(e1.type, k1, e1.value, e1.bytes), Element(e2.type, k2, e2.value, e2.bytes)>>
  /\ UNCHANGED <<doc, put, room, buf>>

BsonInit ==
  /\ doc = EmptyDocument /\ put = <<>> /\ room = 5 /\ buf = -1
  /\ other = EmptyDocument /\ given = <<>>

BsonNext ==
  \/ \E k \in Key :
       \/ \E t \in Text : set_string(k, t)
       \/ \E b \in BOOLEAN : set_boolean(k, b)
       \/ \E n \in Number : set_int32(k, n)
       \/ set_null(k)
       \/ \E type \in {3, 4} : set_subdocument(k, type)
       \/ \E data \in Binary : set_binary(k, data)
       \/ \E from \in Key : set_element(k, from)
  \/ \E data \in Binary : \E n \in 0..Len(data) : shrink_binary(n)
  \/ Nest \/ Sent
  \/ \E k1, k2 \in Key, e1, e2 \in FromClient : Request(k1, e1, k2, e2)

BsonSpec == BsonInit /\ [][BsonNext]_bsonVars

-----------------------------------------------------------------------------
(* Properties *)

\* The getters give the value of element e at o, and their default for a value
\* of another type and for an empty binary; an element of no such type has its
\* bytes.
Reads(d, o, e) ==
  /\ GetString(d, o, <<0>>) = IF e.type = 2 THEN e.value ELSE <<0>>
  /\ GetSubdocument(d, o, <<>>) = IF e.type \in {3, 4} THEN e.value ELSE <<>>
  /\ GetBinary(d, o, <<-1>>) = IF e.type = 5 /\ e.value # <<>> THEN e.value ELSE <<-1>>
  /\ \A default \in BOOLEAN : GetBoolean(d, o, default) = IF e.type = 8 THEN e.value ELSE default
  /\ \A default \in {0, 1} : GetInt32(d, o, default) = IF e.type = 16 THEN e.value ELSE default
  /\ e.type \notin {2, 3, 4, 5, 8, 16} =>
       SubSeq(d, ValueAt(d, o) + 1, ValueAt(d, o) + Len(e.bytes)) = e.value

\* Whatever names are asked for together, each is found where its first element
\* is, and none that is not there.
Holds(d, elements) ==
  /\ Len(d) = Read4(d, 0)
  /\ \A keys \in SUBSET Key : \A k \in keys :
       LET o    == Props(d, keys)[k]
           here == {i \in DOMAIN elements : elements[i].key = k}
       IN  IF here = {} THEN o = -1
           ELSE \E i \in here : (\A j \in here : i <= j) /\ Reads(d, o, elements[i])

\* A request with code with scope.
Scoped(elements) == \E i \in DOMAIN elements : elements[i].type = 15

\* Unless the request has code with scope, a reply has, for whoever reads it, the
\* elements it was given, copied and nested ones and a binary shrunk in place
\* included, and stays within the memory that was measured for it; and the
\* request is read as the client made it.
RoundTrip == Scoped(given) \/ (Holds(doc, put) /\ Holds(other, given) /\ Len(doc) <= room)

\* The table of bson.c:39 knows code with scope: whatever a client sends, its
\* elements are found.  The code counts the length twice.
RequestIsRead == Holds(other, given)
=============================================================================
