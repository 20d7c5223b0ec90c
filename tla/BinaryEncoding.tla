--------------------------- MODULE BinaryEncoding ---------------------------
(****************************************************************************)
(* Messages in UA binary form (stackcore/opcua_binaryencoder.c and          *)
(* opcua_binarydecoder.c): the built-in types whose form depends on their   *)
(* value, arrays, structures, and a message written by one side, passed on  *)
(* by programs that may not know every type in it, and read at the end.     *)
(*                                                                          *)
(* A structure is the sequence of its fields; the value of an array is      *)
(* << >> for a null pointer and << items >> otherwise.  Sizing and writing  *)
(* change what they are given: an ExtensionObject remembers the size of its *)
(* body (BodySize), so both return the value with its memory.               *)
(****************************************************************************)
EXTENDS NodeIds, SequencesExt

CONSTANTS
  Messages,            \* the messages an application may send, [type, value], indexed
  Bodies,              \* the bodies it may put in place of a LiteralOperand
  MaxArrayLength,      \* the limits of OpcUa_MessageContext
  MaxMessageLength,
  MaxRecursionDepth,
  SizeOf,              \* SizeOf[t]: sizeof the built-in type t in the memory of the reader
  CheckLengths,        \* the values of AlwaysCheckLengths to look at
  ReuseSized,          \* may a message be changed after it was written?
  MaxSends,            \* how often a message is written (bound)
  MaxHops              \* how often it is passed on (bound)

VARIABLES
  message,             \* the message of the program that writes it
  meant,               \* what the application put into it
  check,               \* AlwaysCheckLengths of the writers
  sends, hops,
  wire,                \* the message as it was written last
  knows, got,          \* its last reader: the types it knows, what it read
  pc

vars == << message, meant, check, sends, hops, wire, knows, got, pc >>

----------------------------------------------------------------------------
(* The types.                                                               *)

Ua == INSTANCE UaMessages

\* The number of bytes of a value of a type whose size does not depend on it.
ByteWidth     == [Boolean |-> 1, SByte |-> 1, Byte |-> 1]
IntegerWidth  == [Int16 |-> 2, UInt16 |-> 2, Int32 |-> 4, UInt32 |-> 4]
LongWidth     == [Int64 |-> 8, UInt64 |-> 8, Float |-> 4, Double |-> 8]
ComposedWidth == [DateTime |-> LongWidth.Int64,
                  Guid |-> IntegerWidth.UInt32 + 2 * IntegerWidth.UInt16 + 8]
Width == ByteWidth @@ IntegerWidth @@ LongWidth @@ ComposedWidth
           @@ [StatusCode |-> IntegerWidth.UInt32]

\* And the number of those that the reader, whose functions are others, takes.
ByteTaken     == [Boolean |-> 1, SByte |-> 1, Byte |-> 1]
IntegerTaken  == [Int16 |-> 2, UInt16 |-> 2, Int32 |-> 4, UInt32 |-> 4]
LongTaken     == [Int64 |-> 8, UInt64 |-> 8, Float |-> 4, Double |-> 8]
ComposedTaken == [DateTime |-> LongTaken.Int64,
                  Guid |-> IntegerTaken.UInt32 + 2 * IntegerTaken.UInt16 + 8]
Taken == ByteTaken @@ IntegerTaken @@ LongTaken @@ ComposedTaken
           @@ [StatusCode |-> IntegerTaken.UInt32]

\* The range of the integers that are narrower in a cell than they are here.
SignedRange == [SByte |-> ByteRange, Int16 |-> UInt16Range]

\* Strings and what is written like one, with the reader's limit of each.
Limit == [String |-> MaxStringLength, ByteString |-> MaxByteStringLength,
          XmlElement |-> MaxByteStringLength]

\* The built-in types that are their fields.
Composite == [QualifiedName |-> << "UInt16", "String" >>]

\* The fields of a structure, the items of an array of one.
Structure == [t \in DOMAIN Ua!KnownTypes |-> Ua!KnownTypes[t].fields]
Element   == Ua!Element

\* The types whose arrays are written whatever their length.
WrittenUnlimited == DOMAIN Structure \cup DOMAIN Ua!EnumeratedTypes

\* The three numbers a type goes by (OpcUa_EncodeableType).
TypeIds == [t \in DOMAIN Ua!KnownTypes |-> Ua!KnownTypes[t].ids]

NamedBy(id) == {t \in DOMAIN Structure : LET ids == TypeIds[t]
                                         IN  id = ids.TypeId \/ id = ids.Binary \/ id = ids.Xml}
BinaryId(t) == [ns |-> 0, type |-> "Numeric", id |-> TypeIds[t].Binary]

\* The type codes of a Variant.
TypeCode == [Null |-> 0, Boolean |-> 1, SByte |-> 2, Byte |-> 3, Int16 |-> 4, UInt16 |-> 5,
             Int32 |-> 6, UInt32 |-> 7, Int64 |-> 8, UInt64 |-> 9, Float |-> 10,
             Double |-> 11, String |-> 12, DateTime |-> 13, Guid |-> 14, ByteString |-> 15,
             XmlElement |-> 16, NodeId |-> 17, ExpandedNodeId |-> 18, StatusCode |-> 19,
             QualifiedName |-> 20, LocalizedText |-> 21, ExtensionObject |-> 22,
             DataValue |-> 23, Variant |-> 24]
ArrayMask           == 128
ArrayDimensionsMask == 64
CodedAs(byte) == CHOOSE t \in DOMAIN TypeCode : TypeCode[t] = byte % ArrayDimensionsMask

\* The items of an array of a built-in type have room in as many bytes of memory
\* as a message may be long; a length is compared without its sign.
FitsInMemory(t, n) == t \in WrittenUnlimited \/ n \in 0 .. (MaxMessageLength \div SizeOf[t])

\* The sizes are those of a build; unlike the limits of lengths, this one is
\* not switched off by 0.
ASSUME MemoryAssumption ==
  /\ MaxMessageLength \in Nat
  /\ \A t \in (DOMAIN TypeCode \ {"Null"}) \cup {"DiagnosticInfo"} : SizeOf[t] \in Nat \ {0}

NullVariant == [type |-> "Null", rank |-> "Scalar", items |-> << >>, dims |-> << >>]

\* The types of optional fields: the writer leaves out what has this value.
Absent == [UInt16 |-> 0, Int32 |-> -1, StatusCode |-> 0, DateTime |-> 0,
           String |-> NullString, Variant |-> NullVariant, DiagnosticInfo |-> << >>]

----------------------------------------------------------------------------
(* Optional fields: one bit of an encoding byte tells whether each is there.*)
(* The tables give the fields in the order in which the writer writes them  *)
(* and in that in which the reader reads them.                              *)

Field(bit, type) == [bit |-> bit, type |-> type]

Written ==
  [LocalizedText  |-> << Field(1, "String"), Field(2, "String") >>,
   DiagnosticInfo |-> << Field(1, "Int32"), Field(2, "Int32"), Field(8, "Int32"),
                         Field(4, "Int32"), Field(16, "String"), Field(32, "StatusCode"),
                         Field(64, "DiagnosticInfo") >>,
   DataValue      |-> << Field(1, "Variant"), Field(2, "StatusCode"), Field(4, "DateTime"),
                         Field(16, "UInt16"), Field(8, "DateTime"), Field(32, "UInt16") >>]

\* Mutant: the picoseconds are read in the order of the bits.
ExpectedByBit ==
  [Written EXCEPT !.DataValue = << @[1], @[2], @[3], @[5], @[4], @[6] >>]

Expected ==
  [LocalizedText  |-> << Field(1, "String"), Field(2, "String") >>,
   DiagnosticInfo |-> << Field(1, "Int32"), Field(2, "Int32"), Field(8, "Int32"),
                         Field(4, "Int32"), Field(16, "String"), Field(32, "StatusCode"),
                         Field(64, "DiagnosticInfo") >>,
   DataValue      |-> << Field(1, "Variant"), Field(2, "StatusCode"), Field(4, "DateTime"),
                         Field(16, "UInt16"), Field(8, "DateTime"), Field(32, "UInt16") >>]

\* The types of the fields of v that are there; "Nothing" stands for the others.
Present(t, v) ==
  [i \in DOMAIN Written[t] |->
     IF v[i] = Absent[Written[t][i].type] THEN "Nothing" ELSE Written[t][i].type]

EncodingByte(t, v) ==
  FoldLeft(LAMBDA n, i : n + (IF Present(t, v)[i] = "Nothing" THEN 0 ELSE Written[t][i].bit),
           0, [i \in DOMAIN Written[t] |-> i])

Marked(byte, bit) == (byte \div bit) % 2 = 1

----------------------------------------------------------------------------
(* The form of an ExtensionObject.                                          *)

\* OpcUa_ExtensionObjectEncoding; an object in memory is written as binary.
FormByte == [None |-> 0, Binary |-> 1, Xml |-> 2, EncodeableObject |-> 1]

\* An object with no TypeId goes by the binary one of its type.
IsNull(id)  == id.type = "Numeric" /\ id.ns = 0 /\ id.id = 0
TypeIdOf(o) == IF o.form = "EncodeableObject" /\ IsNull(o.id)
               THEN BinaryId(o.type) ELSE o.id

\* The number of bytes in the cells of a message.
RECURSIVE Bytes(_)
Bytes(cells) == IF cells = << >> THEN 0 ELSE Head(cells).w + Bytes(Tail(cells))

----------------------------------------------------------------------------
(* Sizes.                                                                   *)

Size(n, v)  == [st |-> "Good", n |-> n, v |-> v]
NoSize(v)   == [st |-> "BadEncodingError", n |-> -1, v |-> v]

\* n bytes more, and the value that the sized one is part of.
Plus(n, sized, v) == IF sized.st # "Good" THEN NoSize(v) ELSE Size(sized.n + n, v)

\* The size of a first value and that of the values behind it.
AndSize(one, rest, tail) ==
  IF one.st # "Good" THEN NoSize(<< one.v >> \o tail)
                     ELSE Plus(one.n, rest, << one.v >> \o rest.v)

RECURSIVE GetSize(_, _), GetSizes(_, _)

GetSizes(types, values) ==
  IF types = << >> THEN Size(0, << >>)
  ELSE AndSize(GetSize(Head(types), Head(values)), GetSizes(Tail(types), Tail(values)),
               Tail(values))

ItemsSize(items) == Plus(4, items, << items.v >>)

\* Mutant: a null array takes no bytes.
ArrayGetSizeOfItems(t, array) ==
  IF array = << >> THEN Size(0, array)
  ELSE ItemsSize(GetSizes([i \in DOMAIN array[1] |-> t], array[1]))

ArrayGetSize(t, array) ==
  IF array = << >> THEN Size(4, array)
  ELSE ItemsSize(GetSizes([i \in DOMAIN array[1] |-> t], array[1]))

\* The size of the body is taken from the object if it has one already.
ExtensionObjectGetSize(o) ==
  LET head == NodeIdGetSize(TypeIdOf(o), GetEncodingType(TypeIdOf(o))) + 1
      OfBody(body) == Plus(head + 4, body,
                           [o EXCEPT !.body = body.v,
                                     !.size = IF body.st = "Good" THEN body.n ELSE @])
  IN  IF o.form = "None" THEN Size(head, [o EXCEPT !.size = 0])
      ELSE IF ~ check /\ o.size # 0 THEN Size(head + 4 + o.size, o)
      ELSE OfBody(IF o.form = "EncodeableObject" THEN GetSizes(Structure[o.type], o.body)
                                                 ELSE Size(Bytes(o.body), o.body))

\* A Variant holds no Variant, unless it is an array of them.
VariantItemGetSize(x) ==
  IF x.type = "Null" THEN Size(0, x.items)
  ELSE IF x.type = "Variant" THEN NoSize(x.items)
  ELSE GetSizes(<< x.type >>, x.items)

VariantGetSize(x) ==
  LET WithItems(items) == Plus(1 + (IF x.rank = "Matrix" THEN 4 + 4 * Len(x.dims) ELSE 0),
                               items, [x EXCEPT !.items = items.v])
  IN  WithItems(IF x.rank = "Scalar" THEN VariantItemGetSize(x)
                                     ELSE ArrayGetSize(x.type, x.items))

OptionalGetSize(fields) == Plus(1, fields, fields.v)

GetSize(t, v) ==
  IF t = "Nothing" THEN Size(0, v)
  ELSE IF t \in DOMAIN Width THEN Size(Width[t], v)
  ELSE IF t \in DOMAIN Ua!EnumeratedTypes THEN Size(4, v)
  ELSE IF t \in DOMAIN Limit THEN Size(StringGetSize(v), v)
  ELSE IF t = "NodeId" THEN Size(NodeIdGetSize(v, GetEncodingType(v)), v)
  ELSE IF t = "ExpandedNodeId" THEN Size(ExpandedNodeIdGetSize(v), v)
  ELSE IF t = "ExtensionObject" THEN ExtensionObjectGetSize(v)
  ELSE IF t = "Variant" THEN VariantGetSize(v)
  ELSE IF t \in DOMAIN Composite THEN GetSizes(Composite[t], v)
  ELSE IF t \in DOMAIN Element THEN ArrayGetSize(Element[t], v)
  ELSE IF t \in DOMAIN Written
       THEN OptionalGetSize(GetSizes(Present(t, v), v))
  ELSE GetSizes(Structure[t], v)

----------------------------------------------------------------------------
(* Writing.                                                                 *)

Wrote(cells, v)   == [st |-> "Good", cells |-> cells, v |-> v]
Stopped(cells, v) == [st |-> "BadEncodingError", cells |-> cells, v |-> v]

\* What was written, with the cells before it and the value it is part of.
Behind(cells, w, v) == [w EXCEPT !.cells = cells \o @, !.v = v]

AndWritten(one, rest, tail) ==
  IF one.st # "Good" THEN Stopped(one.cells, << one.v >> \o tail)
                     ELSE Behind(one.cells, rest, << one.v >> \o rest.v)

RECURSIVE Write(_, _), WriteFields(_, _)

WriteFields(types, values) ==
  IF types = << >> THEN Wrote(<< >>, << >>)
  ELSE AndWritten(Write(Head(types), Head(values)), WriteFields(Tail(types), Tail(values)),
                  Tail(values))

WriteItems(t, items) ==
  LET written == WriteFields([i \in DOMAIN items |-> t], items)
  IN  Behind(<< Cell(4, Len(items)) >>, written, << written.v >>)

WriteArray(t, array) ==
  IF array = << >> THEN Wrote(<< Cell(4, -1) >>, array)
  ELSE IF t \notin WrittenUnlimited /\ ~ Fits(Len(array[1]), MaxArrayLength)
       THEN Stopped(<< Cell(4, Len(array[1])) >>, array)
  ELSE WriteItems(t, array[1])

WriteEncodeable(t, v) ==
  LET WriteSized(sized) == IF sized.st # "Good" THEN Stopped(<< >>, sized.v)
                           ELSE WriteFields(Structure[t], sized.v)
  IN  WriteSized(IF check THEN GetSizes(Structure[t], v) ELSE Size(0, v))

WriteExtensionObject(o) ==
  LET head == WriteNodeId(TypeIdOf(o)) \o << Cell(1, FormByte[o.form]) >>
      WithSize(n, body) == Behind(head \o << Cell(4, n) >>, body,
                                  [o EXCEPT !.size = n, !.body = body.v])
      Sized(sized) ==
        IF sized.st # "Good" THEN Stopped(head, [o EXCEPT !.size = -1, !.body = sized.v])
        ELSE WithSize(sized.n, WriteEncodeable(o.type, sized.v))
  IN  IF o.form = "None" THEN Wrote(head, o)
      ELSE IF o.form # "EncodeableObject"
           THEN Wrote(head \o << Cell(4, Bytes(o.body)) >> \o o.body, o)
      ELSE Sized(IF o.size > 0 THEN Size(o.size, o.body)
                                  ELSE GetSizes(Structure[o.type], o.body))

VariantByte(x) ==
  TypeCode[x.type] + (IF x.rank = "Scalar" THEN 0 ELSE ArrayMask)
                   + (IF x.rank = "Matrix" THEN ArrayDimensionsMask ELSE 0)

WriteVariantItem(x) ==
  IF x.type = "Null" THEN Wrote(<< >>, x.items)
  ELSE IF x.type = "Variant" THEN Stopped(<< >>, x.items)
  ELSE WriteFields(<< x.type >>, x.items)

\* The dimensions of a matrix are written behind its items.
AndDimensions(x, items) ==
  LET dims == WriteArray("Int32", << x.dims >>)
  IN  IF x.rank # "Matrix" \/ items.st # "Good" THEN items
      ELSE [items EXCEPT !.cells = @ \o dims.cells, !.st = dims.st]

WriteVariant(x) ==
  LET WithItems(items) ==
        Behind(<< Cell(1, VariantByte(x)) >>, items, [x EXCEPT !.items = items.v])
  IN  WithItems(IF x.rank = "Scalar" THEN WriteVariantItem(x)
                ELSE AndDimensions(x, WriteArray(x.type, x.items)))

WriteOptional(byte, fields) == Behind(<< Cell(1, byte) >>, fields, fields.v)

Write(t, v) ==
  IF t = "Nothing" THEN Wrote(<< >>, v)
  ELSE IF t \in DOMAIN Width THEN Wrote(<< Cell(Width[t], v) >>, v)
  ELSE IF t \in DOMAIN Ua!EnumeratedTypes THEN Wrote(<< Cell(4, v) >>, v)
  ELSE IF t \in DOMAIN Limit THEN Wrote(WriteString(v), v)
  ELSE IF t = "NodeId" THEN Wrote(WriteNodeId(v), v)
  ELSE IF t = "ExpandedNodeId" THEN Wrote(WriteExpandedNodeId(v), v)
  ELSE IF t = "ExtensionObject" THEN WriteExtensionObject(v)
  ELSE IF t = "Variant" THEN WriteVariant(v)
  ELSE IF t \in DOMAIN Composite THEN WriteFields(Composite[t], v)
  ELSE IF t \in DOMAIN Element THEN WriteArray(Element[t], v)
  ELSE IF t \in DOMAIN Written
       THEN WriteOptional(EncodingByte(t, v), WriteFields(Present(t, v), v))
  ELSE WriteEncodeable(t, v)

WriteMessage(m) ==
  LET WithTypeId(body) == Behind(WriteNodeId(BinaryId(m.type)), body, body.v)
  IN  WithTypeId(WriteEncodeable(m.type, m.value))

----------------------------------------------------------------------------
(* Reading.  A reader is [types |-> the types it knows, depth |-> how deep  *)
(* in structures and Variants it is].                                       *)

\* What is read goes on with what was read before it.
Then(read, Continue(_)) == IF read.st # "Good" THEN read ELSE Continue(read)

Deeper(r) == [r EXCEPT !.depth = @ + 1]

\* Mutant: the last level of nesting the limit allows is refused.
TooDeepByOne(r) == r.depth >= MaxRecursionDepth

TooDeep(r) == r.depth > MaxRecursionDepth

\* The type a body is read as: none for an id of another namespace, one that
\* is no number, or a number of no type the reader knows.
FindBodyType(id, r) ==
  IF id.ns = 0 /\ id.type = "Numeric" THEN NamedBy(id.id) \cap r.types ELSE {}

ReadFixed(t, s, p) ==
  LET value == Read(s, p, Taken[t])
  IN  IF /\ value.st = "Good" /\ t \in DOMAIN SignedRange
         /\ value.v >= SignedRange[t] \div 2
      THEN [value EXCEPT !.v = @ - SignedRange[t]] ELSE value

\* A value without a name is an error, unless one is named Invalid.
ReadEnumerated(enumeration, s, p) ==
  LET value == Read(s, p, 4)
  IN  IF value.st # "Good" \/ value.v \in enumeration.values THEN value
      ELSE IF enumeration.invalid = {} THEN Failed("BadInvalidArgument", p)
      ELSE [value EXCEPT !.v = CHOOSE i \in enumeration.invalid : TRUE]

RECURSIVE ReadValue(_, _, _, _), ReadFields(_, _, _, _)

ReadFields(types, s, p, r) ==
  IF types = << >> THEN Good(<< >>, p)
  ELSE Then(ReadValue(Head(types), s, p, r), LAMBDA one :
         Then(ReadFields(Tail(types), s, one.at, r), LAMBDA rest :
           Good(<< one.v >> \o rest.v, rest.at)))

ReadItems(t, length, s, p, r) ==
  Then(ReadFields([i \in 1 .. length |-> t], s, p, r), LAMBDA items :
    Good(<< items.v >>, items.at))

ReadArray(t, s, p, r) ==
  Then(Read(s, p, 4), LAMBDA length :
    IF length.v = -1 THEN Good(<< >>, length.at)
    ELSE IF ~ Fits(length.v, MaxArrayLength) \/ ~ FitsInMemory(t, length.v)
         THEN Failed("BadEncodingLimitsExceeded", p)
    ELSE ReadItems(t, length.v, s, length.at, r))

ReadEncodeable(t, s, p, r) ==
  IF TooDeep(r) THEN Failed("BadEncodingLimitsExceeded", p)
  ELSE ReadFields(Structure[t], s, p, Deeper(r))

\* The position n bytes behind p, 0 if it is within a cell or behind the end.
RECURSIVE After(_, _, _)
After(s, p, n) == IF n = 0 THEN p
                  ELSE IF n < 0 \/ p > Len(s) THEN 0 ELSE After(s, p + 1, n - s[p].w)

\* Bytes the reader does not look into; the length must end where a cell does.
ReadOpaque(s, p) ==
  Then(Read(s, p, 4), LAMBDA length :
    LET end == After(s, length.at, length.v)
    IN  IF length.v = -1 THEN Good(<< >>, length.at)
        ELSE IF ~ Fits(length.v, MaxByteStringLength)
             THEN Failed("BadEncodingLimitsExceeded", p)
        ELSE IF end = 0 THEN Failed("OutOfStep", p)
        ELSE Good(SubSeq(s, length.at, end - 1), end))

Object(form, id, type, body) ==
  [form |-> form, id |-> id, type |-> type, body |-> body, size |-> 0]

\* A known body is read as its type says, whatever length stands before it.
\* The id must then be the binary one: the index of the namespace of any other
\* is looked up by a name that the types of namespace 0 do not have.
ReadBody(id, type, s, p, r) ==
  Then(Read(s, p, 4), LAMBDA length :
    Then(ReadEncodeable(type, s, length.at, r), LAMBDA body :
      IF id # BinaryId(type) THEN Failed("BadNotFound", p)
      ELSE Good(Object("EncodeableObject", id, type, body.v), body.at)))

ReadUnknownBody(form, id, s, p) ==
  Then(ReadOpaque(s, p), LAMBDA body : Good(Object(form, id, "", body.v), body.at))

ReadExtensionObject(s, p, r) ==
  Then(ReadNodeId(s, p), LAMBDA id :
    Then(Read(s, id.at, 1), LAMBDA form :
      LET known == FindBodyType(id.v, r)
      IN  IF form.v = FormByte.None THEN Good(Object("None", id.v, "", << >>), form.at)
          ELSE IF form.v = FormByte.Xml THEN ReadUnknownBody("Xml", id.v, s, form.at)
          ELSE IF form.v # FormByte.Binary THEN Failed("BadDataEncodingUnsupported", p)
          ELSE IF known = {} THEN ReadUnknownBody("Binary", id.v, s, form.at)
          ELSE ReadBody(id.v, CHOOSE t \in known : TRUE, s, form.at, r)))

\* The dimensions of a matrix divide the number of its items without a rest.
Divides(items, dims) ==
  /\ dims # << >>
  /\ \A i \in DOMAIN dims : dims[i] > 0
  /\ FoldLeft(LAMBDA n, d : n * d, 1, dims) = items

ReadDimensions(x, s, p, r) ==
  Then(ReadArray("Int32", s, p, r), LAMBDA dims :
    IF dims.v # << >> /\ x.items # << >> /\ Divides(Len(x.items[1]), dims.v[1])
    THEN Good([x EXCEPT !.rank = "Matrix", !.dims = dims.v[1]], dims.at)
    ELSE Failed("BadDecodingError", p))

VariantOf(type, rank, items) ==
  [type |-> type, rank |-> rank, items |-> items, dims |-> << >>]

ReadVariantArray(type, matrix, s, p, r) ==
  IF type = "Null" THEN Failed("BadEncodingError", p)
  ELSE Then(ReadArray(type, s, p, Deeper(r)), LAMBDA array :
         IF matrix THEN ReadDimensions(VariantOf(type, "Array", array.v), s, array.at, r)
                   ELSE Good(VariantOf(type, "Array", array.v), array.at))

ReadVariantItem(type, s, p, r) ==
  IF type = "Null" THEN Good(NullVariant, p)
  ELSE IF type = "Variant" THEN Failed("BadEncodingError", p)
  ELSE Then(ReadValue(type, s, p, Deeper(r)), LAMBDA item :
         Good(VariantOf(type, "Scalar", << item.v >>), item.at))

ReadVariant(s, p, r) ==
  Then(Read(s, p, 1), LAMBDA byte :
    LET coded == \E t \in DOMAIN TypeCode : TypeCode[t] = byte.v % ArrayDimensionsMask
    IN  IF TooDeep(r) THEN Failed("BadEncodingLimitsExceeded", p)
        ELSE IF ~ coded THEN Failed("BadEncodingError", p)
        ELSE IF Marked(byte.v, ArrayMask)
             THEN ReadVariantArray(CodedAs(byte.v), Marked(byte.v, ArrayDimensionsMask),
                                   s, byte.at, r)
        ELSE ReadVariantItem(CodedAs(byte.v), s, byte.at, r))

ReadOptional(t, s, p, r) ==
  Then(Read(s, p, 1), LAMBDA byte :
    LET there == [i \in DOMAIN Expected[t] |-> Marked(byte.v, Expected[t][i].bit)]
    IN  Then(ReadFields([i \in DOMAIN there |-> IF there[i] THEN Expected[t][i].type
                                                            ELSE "Nothing"],
                        s, byte.at, r), LAMBDA fields :
          Good([i \in DOMAIN there |-> IF there[i] THEN fields.v[i]
                                                   ELSE Absent[Expected[t][i].type]],
               fields.at)))

ReadValue(t, s, p, r) ==
  IF t = "Nothing" THEN Good(<< >>, p)
  ELSE IF t \in DOMAIN Taken THEN ReadFixed(t, s, p)
  ELSE IF t \in DOMAIN Ua!EnumeratedTypes THEN ReadEnumerated(Ua!EnumeratedTypes[t], s, p)
  ELSE IF t \in DOMAIN Limit THEN ReadString(s, p, Limit[t])
  ELSE IF t = "NodeId" THEN ReadNodeId(s, p)
  ELSE IF t = "ExpandedNodeId" THEN ReadExpandedNodeId(s, p)
  ELSE IF t = "ExtensionObject" THEN ReadExtensionObject(s, p, r)
  ELSE IF t = "Variant" THEN ReadVariant(s, p, r)
  ELSE IF t \in DOMAIN Composite THEN ReadFields(Composite[t], s, p, r)
  ELSE IF t \in DOMAIN Element THEN ReadArray(Element[t], s, p, r)
  ELSE IF t \in DOMAIN Expected THEN ReadOptional(t, s, p, r)
  ELSE ReadEncodeable(t, s, p, r)

\* A message is of a type of the UA namespace, named by any of its numbers.
ReadMessage(s, types) ==
  Then(ReadNodeId(s, 1), LAMBDA id :
    LET found == NamedBy(id.v.id) \cap types
        type  == CHOOSE t \in found : TRUE
    IN  IF id.v.type # "Numeric" \/ id.v.ns # 0 THEN Failed("BadNotSupported", 1)
        ELSE IF found = {} THEN Failed("BadNotFound", 1)
        ELSE Then(ReadEncodeable(type, s, id.at, [types |-> types, depth |-> 0]), LAMBDA body :
               Good([type |-> type, value |-> body.v], body.at)))

----------------------------------------------------------------------------
(* A message on its way.                                                    *)

\* The requests and responses of the services.
MessageTypes == DOMAIN Ua!KnownMessages

Init ==
  /\ \E i \in DOMAIN Messages : message = Messages[i]
  /\ meant = message
  /\ check \in CheckLengths
  /\ sends = 0 /\ hops = 0
  /\ wire = << >>
  /\ knows = {} /\ got = Failed("None", 0)
  /\ pc = "ready"

\* The program writes its message; a request may be sent once more.
Send ==
  /\ pc \in {"ready", "sent"}
  /\ sends < MaxSends
  /\ \E w \in {WriteMessage(message)} :
       /\ message' = [message EXCEPT !.value = w.v]
       /\ wire' = w.cells
       /\ pc' = IF w.st = "Good" THEN "sent" ELSE "refused"
  /\ sends' = sends + 1
  /\ UNCHANGED << meant, check, hops, knows, got >>

\* The object in the header of a message, the last field of its first field.
InHeader(m) == Last(m.value[1])
WithBody(m, b) ==
  [m EXCEPT !.value[1] = [@ EXCEPT ![Len(@)] = [@ EXCEPT !.body = b]]]

\* The application puts something else into a message it sent before.
Change ==
  /\ pc = "sent" /\ hops = 0
  /\ check \/ ReuseSized
  /\ InHeader(message).form = "EncodeableObject"
  /\ InHeader(message).type = "LiteralOperand"
  /\ \E b \in Bodies : /\ message' = WithBody(message, b)
                       /\ meant' = WithBody(meant, b)
  /\ pc' = "ready"
  /\ UNCHANGED << check, sends, hops, wire, knows, got >>

Receive ==
  /\ pc = "sent"
  /\ knows' \in {MessageTypes, DOMAIN Structure}
  /\ got' = ReadMessage(wire, knows')
  /\ pc' = "read"
  /\ UNCHANGED << message, meant, check, sends, hops, wire >>

\* A program passes on the message it read.
PassOn ==
  /\ pc = "read" /\ got.st = "Good"
  /\ hops < MaxHops
  /\ message' = got.v
  /\ sends' = 0 /\ hops' = hops + 1
  /\ pc' = "ready"
  /\ UNCHANGED << meant, check, wire, knows, got >>

Next == Send \/ Change \/ Receive \/ PassOn

Spec == Init /\ [][Next]_vars

----------------------------------------------------------------------------
(* What was meant, stated without the encoding.                             *)

RECURSIVE Same(_, _), Acceptable(_, _, _)

\* A value as a reader that knows all its types should have it.
Same(t, v) ==
  LET all(ts, vs) == [i \in DOMAIN vs |-> Same(ts[i], vs[i])]
      array(e, a) == [k \in DOMAIN a |-> [i \in DOMAIN a[k] |-> Same(e, a[k][i])]]
  IN  IF t = "ExpandedNodeId" THEN Received(v)
      ELSE IF t = "ExtensionObject"
           THEN [v EXCEPT !.id = TypeIdOf(v), !.size = 0,
                          !.body = IF v.form = "EncodeableObject"
                                   THEN all(Structure[v.type], @) ELSE @]
      ELSE IF t = "Variant"
           THEN [v EXCEPT !.items = IF v.rank = "Scalar"
                                    THEN [i \in DOMAIN @ |-> Same(v.type, @[i])]
                                    ELSE array(v.type, @)]
      ELSE IF t \in DOMAIN Ua!EnumeratedTypes
           THEN IF v \in Ua!EnumeratedTypes[t].values THEN v
                ELSE CHOOSE i \in Ua!EnumeratedTypes[t].invalid : TRUE
      ELSE IF t \in DOMAIN Element THEN array(Element[t], v)
      ELSE IF t \in DOMAIN Written THEN all(Present(t, v), v)
      ELSE IF t \in DOMAIN Structure THEN all(Structure[t], v)
      ELSE v

\* A value a reader takes: within its limits of lengths, of memory and, at the
\* depth d, of nesting, and with objects that go by the binary number of their type.
Acceptable(t, v, d) ==
  LET all(ts, vs, e) == \A i \in DOMAIN vs : Acceptable(ts[i], vs[i], e)
      array(el, a, e) == \A k \in DOMAIN a :
                           /\ Fits(Len(a[k]), MaxArrayLength)
                           /\ FitsInMemory(el, Len(a[k]))
                           /\ \A i \in DOMAIN a[k] : Acceptable(el, a[k][i], e)
  IN  IF t \in DOMAIN Limit THEN Fits(v.len, Limit[t])
      ELSE IF t \in DOMAIN Ua!EnumeratedTypes
           THEN Ua!EnumeratedTypes[t].invalid # {} \/ v \in Ua!EnumeratedTypes[t].values
      ELSE IF t \in DOMAIN Composite
           THEN \A i \in DOMAIN v : Acceptable(Composite[t][i], v[i], d)
      ELSE IF t = "NodeId" THEN NodeIdFits(v)
      ELSE IF t = "ExpandedNodeId"
           THEN NodeIdFits(v.node) /\ Fits(v.uri.len, MaxStringLength)
      ELSE IF t = "ExtensionObject"
           THEN /\ NodeIdFits(v.id)
                /\ IF v.form = "EncodeableObject"
                   THEN /\ TypeIdOf(v) = BinaryId(v.type)
                        /\ d <= MaxRecursionDepth
                        /\ all(Structure[v.type], v.body, d + 1)
                   ELSE Fits(Bytes(v.body), MaxByteStringLength)
      ELSE IF t = "Variant"
           THEN /\ d <= MaxRecursionDepth
                /\ IF v.rank = "Scalar"
                   THEN /\ v.type # "Variant"
                        /\ \A i \in DOMAIN v.items : Acceptable(v.type, v.items[i], d + 1)
                   ELSE array(v.type, v.items, d + 1) /\ array("Int32", << v.dims >>, d + 1)
      ELSE IF t \in DOMAIN Element THEN array(Element[t], v, d)
      ELSE IF t \in DOMAIN Written THEN all(Present(t, v), v, d)
      ELSE IF t \in DOMAIN Structure
           THEN d <= MaxRecursionDepth /\ all(Structure[t], v, d + 1)
      ELSE TRUE

Fair(m)        == Acceptable(m.type, m.value, 0)
KnowsAll       == knows = DOMAIN Structure
HeaderFits(m)  == LET o == InHeader(m)
                  IN  o.form # "EncodeableObject"
                        \/ Fits(GetSizes(Structure[o.type], o.body).n, MaxByteStringLength)

----------------------------------------------------------------------------
(* Properties.                                                              *)

\* A reader that knows every type has what the application meant, whichever
\* programs passed the message on and however often it was written, exactly if
\* it is acceptable: within every limit of OpcUa_MessageContext, the room of an
\* array in memory included.  Nothing else makes a writer or a reader refuse it,
\* but for a body too long to be kept as it came by one that does not know it.
Delivered ==
  /\ pc = "refused" => ~ Fair(meant)
  /\ pc = "read" /\ got.st = "Good" /\ KnowsAll =>
       Fair(meant) /\ got.v = [meant EXCEPT !.value = Same(meant.type, @)]
  /\ pc = "read" /\ got.st # "Good" => ~ Fair(meant) \/ (~ KnowsAll /\ ~ HeaderFits(meant))

\* No reader takes a field for another or stops before the end of the message:
\* the fields are written in the order, the widths and the lengths they are
\* read in, also around a body that one of the readers cannot look into.
InStep ==
  pc = "read" => /\ got.st # "OutOfStep"
                 /\ got.st = "Good" => got.at = Len(wire) + 1

\* A message is as long as GetSize says, before and after it was written: the
\* body sizes that are written in front of the bodies come from it.
SizeExact ==
  pc = "sent" => \A m \in {message} \cup (IF hops = 0 THEN {meant} ELSE {}) :
                   GetSizes(Structure[m.type], m.value).n
                     = Bytes(wire) - NodeIdGetSize(BinaryId(m.type), FourByte)
=============================================================================
