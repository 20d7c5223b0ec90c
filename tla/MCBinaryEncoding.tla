-------------------------- MODULE MCBinaryEncoding --------------------------
EXTENDS BinaryEncoding

----------------------------------------------------------------------------
(* Values of every type and form; the lengths lie around the limits of      *)
(* BinaryEncoding.cfg.  They are kept in sequences: TLC cannot order them.  *)

Each(F(_), s)        == [i \in DOMAIN s |-> F(s[i])]
Pairs(F(_, _), s, t) == FlattenSeq(Each(LAMBDA a : Each(LAMBDA b : F(a, b), t), s))

\* Every way to take each of the numbers of s or to put 0 in its place.
OnOff(s) == FoldLeft(LAMBDA cs, n : Pairs(LAMBDA c, m : Append(c, m), cs, << 0, n >>),
                       << << >> >>, s)

Str(n)      == [len |-> n, txt |-> IF n > 0 THEN n ELSE 0]
Num(ns, id) == [ns |-> ns, type |-> "Numeric", id |-> id]

\* What gcc makes of the built-in types for a 64-bit target.
MCSizeOf ==
  [Boolean |-> 1, SByte |-> 1, Byte |-> 1, Int16 |-> 2, UInt16 |-> 2, Int32 |-> 4,
   UInt32 |-> 4, Int64 |-> 8, UInt64 |-> 8, Float |-> 4, Double |-> 8, DateTime |-> 8,
   Guid |-> 16, StatusCode |-> 4, String |-> 16, ByteString |-> 16, XmlElement |-> 16,
   NodeId |-> 24, ExpandedNodeId |-> 48, QualifiedName |-> 24, LocalizedText |-> 32,
   ExtensionObject |-> 80, DataValue |-> 56, DiagnosticInfo |-> 48, Variant |-> 32]

NodeIdValues ==
  << NullNodeId, Num(0, 255), Num(0, 256), Num(255, 65535), Num(256, 1), Num(1, 65536),
     [ns |-> 3, type |-> "Guid", id |-> 9],
     [ns |-> 1, type |-> "String", id |-> Str(4)], [ns |-> 1, type |-> "String", id |-> Str(5)],
     [ns |-> 2, type |-> "Opaque", id |-> NullString] >>

Expanded == Pairs(LAMBDA u, s : [node |-> Num(7, 300), uri |-> u, server |-> s],
                  << NullString, Str(0), Str(3) >>, << 0, 2 >>)

Variant(t, v)   == [type |-> t, rank |-> "Scalar", items |-> << v >>, dims |-> << >>]
Array(t, a)     == [type |-> t, rank |-> "Array", items |-> a, dims |-> << >>]
Matrix(t, a, d) == [type |-> t, rank |-> "Matrix", items |-> << a >>, dims |-> d]

DataValue(x, status, source, pico, server) == << x, status, source, pico, server, 0 >>
Plain(x) == DataValue(x, 0, 0, 0, 0)

Literal(x, id)  == [form |-> "EncodeableObject", id |-> id, type |-> "LiteralOperand",
                    body |-> << x >>, size |-> 0]
Opaque(form, n) == [form |-> form, id |-> Num(1, 5), type |-> "",
                    body |-> << [w |-> n, v |-> 77] >>, size |-> 0]
Filter(n, object) == [form |-> "EncodeableObject", id |-> NullNodeId,
                      type |-> "ContentFilterElement",
                      body |-> << 0, << [i \in 1 .. n |-> object] >> >>, size |-> 0]
NoObject == [form |-> "None", id |-> NullNodeId, type |-> "", body |-> << >>, size |-> 0]

Leaves ==
  << NullVariant, Variant("UInt32", 7), Variant("String", Str(4)), Variant("String", Str(5)),
     Variant("LocalizedText", << NullString, Str(0) >>),
     Array("String", << >>), Array("UInt32", << << >> >>), Array("UInt32", << << 1, 2, 3 >> >>),
     Array("NodeId", << << NullNodeId, Num(1, 300), Num(0, 2), NullNodeId >> >>),
     Matrix("Int32", << 4, 5 >>, << 2, 1 >>), Matrix("DateTime", << 8 >>, << 1 >>) >>
    \o Each(LAMBDA e : Variant("ExpandedNodeId", e), Expanded)
    \o Each(LAMBDA n : Variant("NodeId", n), NodeIdValues)

\* Variants in Variants, in the ways the encoding allows and in the one it does not.
Nested(xs) ==
  Each(LAMBDA x : Variant("DataValue", Plain(x)), xs)
    \o Each(LAMBDA x : Variant("ExtensionObject", Literal(x, NullNodeId)), xs)
    \o Each(LAMBDA x : Array("Variant", << << x, NullVariant >> >>), xs)
    \o Each(LAMBDA x : Variant("Variant", x), xs)

Once  == Nested(<< NullVariant, Variant("UInt32", 7), Variant("String", Str(5)) >>)
Twice == Nested(SelectSeq(Once, LAMBDA x : x.rank = "Array" \/ x.type # "Variant"))

\* Arrays around the limit of memory: three values fill it, two objects fit,
\* three are within the other limits only.
Large ==
  << Array("DataValue", << [i \in 1 .. 3 |-> Plain(NullVariant)] >>),
     Array("ExtensionObject", << [i \in 1 .. 2 |-> NoObject] >>),
     Array("ExtensionObject", << [i \in 1 .. 3 |-> NoObject] >>) >>

DataValues ==
  Each(Plain, Leaves \o Large \o Once \o Twice)
    \o Pairs(LAMBDA x, f : DataValue(x, f[1], f[2], f[3], f[4]),
             << NullVariant, Variant("UInt32", 7) >>,
             OnOff(<< 1, 2, 3, 4 >>))

Objects ==
  << NoObject, Opaque("Binary", 2), Opaque("Xml", 200), Opaque("Binary", 201),
     Filter(2, NoObject), Filter(3, NoObject) >>
    \o Pairs(Literal,
             << NullVariant, Variant("String", Str(4)),
                Variant("LocalizedText", << Str(3), Str(4) >>) >> \o Once,
             << NullNodeId, BinaryId("LiteralOperand"), Num(0, 595) >>)

RequestHeader(id, object) == << id, 1, 2, 3, NullString, 4, object >>
Request(id, object, values) ==
  [type |-> "WriteRequest",
   value |-> << RequestHeader(id, object),
                << [i \in DOMAIN values |-> << Num(2, 9), 13, Str(1), values[i] >>] >> >>]

DiagnosticInfo(n, text, status, inner) == << n, -1, n, -1, text, status, inner >>
Leaf  == DiagnosticInfo(-1, NullString, 0, << >>)
Infos == Pairs(LAMBDA f, i : DiagnosticInfo(f[1] - 1, IF f[2] = 0 THEN NullString ELSE Str(4),
                                            f[3], i),
               OnOff(<< 1, 1, 1 >>),
               << << >>, Leaf, DiagnosticInfo(6, Str(1), 0, Leaf) >>)

Response(info, strings, object, results, infos) ==
  [type |-> "WriteResponse",
   value |-> << << 1, 2, 0, info, strings, object >>, results, infos >>]

----------------------------------------------------------------------------
(* A value of every structure with its fields as they are initialised, one  *)
(* with a value in every field, and one with enumerations that have no name.*)

FullLeaf ==
  [Boolean |-> 1, SByte |-> -1, Byte |-> 255, Int16 |-> -2, Int32 |-> -3, UInt32 |-> 4,
   Int64 |-> 5, Float |-> 6, Double |-> 7, DateTime |-> 8, StatusCode |-> 9, UInt16 |-> 65535,
   String |-> Str(2), ByteString |-> Str(6), NodeId |-> Num(2, 300),
   ExpandedNodeId |-> [node |-> Num(0, 70000), uri |-> Str(1), server |-> 3],
   ExtensionObject |-> Literal(Variant("UInt32", 7), NullNodeId),
   Variant |-> Variant("QualifiedName", << 1, Str(3) >>),
   DataValue |-> DataValue(Variant("ByteString", Str(5)), 1, 2, 3, 4),
   DiagnosticInfo |-> DiagnosticInfo(1, Str(2), 3, << >>),
   LocalizedText |-> << Str(2), Str(3) >>, QualifiedName |-> << 5, Str(4) >>]

EmptyLeaf ==
  [t \in DOMAIN FullLeaf |->
     IF t \in {"String", "ByteString"} THEN NullString
     ELSE IF t = "NodeId" THEN NullNodeId
     ELSE IF t = "ExpandedNodeId" THEN [node |-> NullNodeId, uri |-> NullString, server |-> 0]
     ELSE IF t = "ExtensionObject" THEN NoObject
     ELSE IF t = "Variant" THEN NullVariant
     ELSE IF t = "DataValue" THEN Plain(NullVariant)
     ELSE IF t = "DiagnosticInfo" THEN Leaf
     ELSE IF t = "LocalizedText" THEN << NullString, NullString >>
     ELSE IF t = "QualifiedName" THEN << 0, NullString >>
     ELSE 0]

\* The first value of an enumeration is the one it is initialised with, unless
\* one is named Invalid in MessageSecurityMode, which is first as well.
Least(values) == CHOOSE v \in values : \A w \in values : v <= w
Greatest(values) == CHOOSE v \in values : \A w \in values : v >= w

RECURSIVE Value(_, _)
Value(t, kind) ==
  IF t \in DOMAIN FullLeaf THEN IF kind = "full" THEN FullLeaf[t] ELSE EmptyLeaf[t]
  ELSE IF t \in DOMAIN Ua!EnumeratedTypes
       THEN CASE kind = "empty" -> Least(Ua!EnumeratedTypes[t].values)
              [] kind = "full"  -> Greatest(Ua!EnumeratedTypes[t].values)
              [] kind = "odd"   -> 99
  ELSE IF t \in DOMAIN Element
       THEN CASE kind = "empty" -> << >>
              [] kind = "full"  -> << [i \in 1 .. 2 |-> Value(Element[t], kind)] >>
              [] kind = "odd"   -> << << Value(Element[t], kind) >> >>
  ELSE [i \in DOMAIN Structure[t] |-> Value(Structure[t][i], kind)]

\* A message is sent as such, any other structure as the body of an object.
Carried(t, kind) ==
  IF t \in MessageTypes THEN [type |-> t, value |-> Value(t, kind)]
  ELSE Request(NullNodeId,
               [form |-> "EncodeableObject", id |-> NullNodeId, type |-> t,
                body |-> Value(t, kind), size |-> 0], << >>)

Made ==
  Each(LAMBDA d : Request(NullNodeId, NoObject, << d >>), DataValues)
    \o Each(LAMBDA n : Request(n, NoObject, << >>), NodeIdValues)
    \o Each(LAMBDA o : Request(Num(1, 1), o, << Plain(Variant("UInt32", 1)), Plain(NullVariant) >>),
            Objects)
    \o Each(LAMBDA n : Request(NullNodeId, NoObject, [i \in 1 .. n |-> Plain(NullVariant)]),
            << 3, 4 >>)
    \o Each(LAMBDA i : Response(i, << >>, NoObject, << << 0, 1 >> >>, << << Leaf, i >> >>), Infos)
    \o Pairs(LAMBDA s, o : Response(Leaf, s, o, << << 0 >> >>, << >>),
             << << >>, << << >> >>, << << Str(1), NullString, Str(4) >> >>,
                << << Str(0), Str(0), Str(0), Str(0) >> >> >>,
             << NoObject, Literal(Variant("UInt32", 1), NullNodeId) >>)

Kinds == << "empty", "full", "odd" >>

MCMessages ==
  [x \in ({"Made"} \X DOMAIN Made) \cup ((DOMAIN Structure) \X DOMAIN Kinds) |->
     IF x[1] = "Made" THEN Made[x[2]] ELSE Carried(x[1], Kinds[x[2]])]

MCBodies == { << Variant("UInt32", 8) >>, << Variant("String", Str(4)) >> }
=============================================================================
