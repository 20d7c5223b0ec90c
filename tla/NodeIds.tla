------------------------------ MODULE NodeIds ------------------------------
(****************************************************************************)
(* The binary form of strings, NodeIds and ExpandedNodeIds                  *)
(* (stackcore/opcua_binaryencoder.c and opcua_binarydecoder.c).             *)
(*                                                                          *)
(* A message is a sequence of cells; a cell is one primitive value and the  *)
(* number of bytes it takes.  What a field loses when it is written in      *)
(* fewer bytes than it has in memory is kept (Cell narrows its value), and  *)
(* so is what happens when the reader takes the fields in other widths than *)
(* the writer put them: it is OutOfStep.  The text of a string is a number  *)
(* that names it, a Guid is the number of its 16 bytes.                     *)
(****************************************************************************)
EXTENDS Integers, Sequences

CONSTANTS
  MaxStringLength,          \* the limits of OpcUa_MessageContext; 0: no limit
  MaxByteStringLength

ASSUME StringLimitAssumption ==
         MaxStringLength \in Nat /\ MaxByteStringLength \in Nat

----------------------------------------------------------------------------
(* Primitive values.                                                        *)

ByteRange   == 256
UInt16Range == 65536
UInt16      == {v \in Nat : v < UInt16Range}

\* A native value cast to the unsigned type of w bytes it is written as.
Narrow(w, v) == IF w = 1 THEN v % ByteRange
                ELSE IF w = 2 THEN v % UInt16Range ELSE v

Cell(w, v) == [w |-> w, v |-> Narrow(w, v)]

Good(v, p)    == [st |-> "Good", v |-> v, at |-> p]
Failed(st, p) == [st |-> st, v |-> 0, at |-> p]

\* Reading w bytes of the message s at the position p.
Read(s, p, w) == IF p \in DOMAIN s /\ s[p].w = w THEN Good(s[p].v, p + 1)
                                                 ELSE Failed("OutOfStep", p)

----------------------------------------------------------------------------
(* Strings; a ByteString has the same form and a limit of its own.          *)

NullString == [len |-> -1, txt |-> 0]
Strings    == {str \in [len : Int, txt : Int] :
                 str.len >= -1 /\ (str.len <= 0 => str.txt = 0)}

WriteString(str) ==
  IF str.len <= 0 THEN << Cell(4, str.len) >>
                  ELSE << Cell(4, str.len), [w |-> str.len, v |-> str.txt] >>

\* What the reader accepts: the limit is the reader's, the writer has none.
Fits(n, limit) == limit = 0 \/ n <= limit

ReadString(s, p, limit) ==
  LET length == Read(s, p, 4)
      text   == Read(s, length.at, length.v)
  IN  IF length.st # "Good" THEN length
      ELSE IF length.v = -1 THEN Good(NullString, length.at)
      ELSE IF ~ Fits(length.v, limit) THEN Failed("BadEncodingLimitsExceeded", p)
      ELSE IF length.v = 0 THEN Good([len |-> 0, txt |-> 0], length.at)
      ELSE IF text.st # "Good" THEN text
      ELSE Good([len |-> length.v, txt |-> text.v], text.at)

----------------------------------------------------------------------------
(* NodeIds.                                                                 *)

NodeId == [ns : UInt16, type : {"Numeric"}, id : Nat]
            \cup [ns : UInt16, type : {"Guid"}, id : Int]
            \cup [ns : UInt16, type : {"String", "Opaque"}, id : Strings]

NullNodeId == [ns |-> 0, type |-> "Numeric", id |-> 0]

\* The forms a NodeId is written in, with the low bits of the encoding byte.
TwoByte    == 0
FourByte   == 1
Numeric    == 2
StringForm == 3
GuidForm   == 4
ByteString == 5

GetEncodingType(n) ==
  IF n.type = "String" THEN StringForm
  ELSE IF n.type = "Guid" THEN GuidForm
  ELSE IF n.type = "Opaque" THEN ByteString
  ELSE IF n.ns = 0 /\ n.id < ByteRange THEN TwoByte
  ELSE IF n.ns < ByteRange /\ n.id < UInt16Range THEN FourByte
  ELSE Numeric

\* The flags of an ExpandedNodeId in the same byte.
UriMask         == 128
ServerIndexMask == 64
TypeOf(byte)         == byte % ServerIndexMask
HasUri(byte)         == (byte \div UriMask) % 2 = 1
HasServerIndex(byte) == (byte \div ServerIndexMask) % 2 = 1

\* The namespace index is not written beside a namespace URI.
WriteNodeIdBody(n, byte) ==
  LET ns == IF HasUri(byte) THEN 0 ELSE n.ns
  IN  IF TypeOf(byte) = TwoByte THEN << Cell(1, n.id) >>
      ELSE IF TypeOf(byte) = FourByte THEN << Cell(1, ns), Cell(2, n.id) >>
      ELSE IF TypeOf(byte) = Numeric  THEN << Cell(2, ns), Cell(4, n.id) >>
      ELSE IF TypeOf(byte) = GuidForm THEN << Cell(2, ns), Cell(16, n.id) >>
      ELSE << Cell(2, ns) >> \o WriteString(n.id)

WriteNodeId(n) ==
  << Cell(1, GetEncodingType(n)) >> \o WriteNodeIdBody(n, GetEncodingType(n))

\* A body: the namespace index in nsWidth bytes, then the identifier.
ReadNumeric(s, p, nsWidth, idWidth, type) ==
  LET ns == Read(s, p, nsWidth)
      id == Read(s, ns.at, idWidth)
  IN  IF ns.st # "Good" THEN ns
      ELSE IF id.st # "Good" THEN id
      ELSE Good([ns |-> ns.v, type |-> type, id |-> id.v], id.at)

ReadTextual(s, p, limit, type) ==
  LET ns == Read(s, p, 2)
      id == ReadString(s, ns.at, limit)
  IN  IF ns.st # "Good" THEN ns
      ELSE IF id.st # "Good" THEN id
      ELSE Good([ns |-> ns.v, type |-> type, id |-> id.v], id.at)

\* A form that is none of the six leaves the NodeId as it was initialized.
ReadNodeIdBody(s, p, byte) ==
  LET short == Read(s, p, 1)
  IN  IF TypeOf(byte) = TwoByte
      THEN IF short.st # "Good" THEN short
           ELSE Good([ns |-> 0, type |-> "Numeric", id |-> short.v], short.at)
      ELSE IF TypeOf(byte) = FourByte   THEN ReadNumeric(s, p, 1, 2, "Numeric")
      ELSE IF TypeOf(byte) = Numeric    THEN ReadNumeric(s, p, 2, 4, "Numeric")
      ELSE IF TypeOf(byte) = GuidForm   THEN ReadNumeric(s, p, 2, 16, "Guid")
      ELSE IF TypeOf(byte) = StringForm THEN ReadTextual(s, p, MaxStringLength, "String")
      ELSE IF TypeOf(byte) = ByteString
           THEN ReadTextual(s, p, MaxByteStringLength, "Opaque")
      ELSE Good(NullNodeId, p)

ReadNodeId(s, p) ==
  LET byte == Read(s, p, 1)
  IN  IF byte.st = "Good" THEN ReadNodeIdBody(s, byte.at, byte.v) ELSE byte

----------------------------------------------------------------------------
(* ExpandedNodeIds: a NodeId, the URI of its namespace and the index of the *)
(* server it is on.                                                         *)

ExpandedNodeId == [node : NodeId, uri : Strings, server : Nat]

ExpandedByte(e) == GetEncodingType(e.node)
                     + (IF e.uri.len > 0 THEN UriMask ELSE 0)
                     + (IF e.server > 0 THEN ServerIndexMask ELSE 0)

WriteExpandedNodeId(e) ==
  << Cell(1, ExpandedByte(e)) >> \o WriteNodeIdBody(e.node, ExpandedByte(e))
     \o (IF HasUri(ExpandedByte(e)) THEN WriteString(e.uri) ELSE << >>)
     \o (IF HasServerIndex(ExpandedByte(e)) THEN << Cell(4, e.server) >> ELSE << >>)

ReadExpandedNodeId(s, p) ==
  LET byte   == Read(s, p, 1)
      node   == ReadNodeIdBody(s, byte.at, byte.v)
      uri    == IF HasUri(byte.v) THEN ReadString(s, node.at, MaxStringLength)
                                  ELSE Good(NullString, node.at)
      server == IF HasServerIndex(byte.v) THEN Read(s, uri.at, 4)
                                          ELSE Good(0, uri.at)
  IN  IF byte.st # "Good" THEN byte
      ELSE IF node.st # "Good" THEN node
      ELSE IF uri.st # "Good" THEN uri
      ELSE IF server.st # "Good" THEN server
      ELSE Good([node |-> node.v, uri |-> uri.v, server |-> server.v], server.at)

----------------------------------------------------------------------------
(* Sizes, as the encoder computes them without writing.                     *)

StringGetSize(str) == 4 + (IF str.len > 0 THEN str.len ELSE 0)

NodeIdGetSize(n, byte) ==
  1 + (IF TypeOf(byte) = TwoByte THEN 1
       ELSE IF TypeOf(byte) = FourByte THEN 1 + 2
       ELSE IF TypeOf(byte) = Numeric  THEN 2 + 4
       ELSE IF TypeOf(byte) = GuidForm THEN 2 + 16
       ELSE 2 + StringGetSize(n.id))

ExpandedNodeIdGetSize(e) ==
  NodeIdGetSize(e.node, ExpandedByte(e))
    + (IF HasUri(ExpandedByte(e)) THEN StringGetSize(e.uri) ELSE 0)
    + (IF HasServerIndex(ExpandedByte(e)) THEN 4 ELSE 0)

----------------------------------------------------------------------------
(* What a reader should find, stated without the encoding: the message      *)
(* keeps the value, except that a namespace URI takes the place of the      *)
(* namespace index and that an empty URI is no URI.                         *)

Received(e) ==
  [node   |-> [e.node EXCEPT !.ns = IF e.uri.len > 0 THEN 0 ELSE @],
   uri    |-> IF e.uri.len > 0 THEN e.uri ELSE NullString,
   server |-> e.server]

\* The cells m stand in the message s from position p on.
Standing(m, s, p) == \A i \in DOMAIN m : p + i - 1 \in DOMAIN s /\ s[p + i - 1] = m[i]

\* The strings of a NodeId are within the reader's limits.
NodeIdFits(n) == /\ n.type = "String" => Fits(n.id.len, MaxStringLength)
                 /\ n.type = "Opaque" => Fits(n.id.len, MaxByteStringLength)
=============================================================================
