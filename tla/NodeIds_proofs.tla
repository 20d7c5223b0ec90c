--------------------------- MODULE NodeIds_proofs ---------------------------
(****************************************************************************)
(* Proofs about NodeIds.tla: every NodeId and ExpandedNodeId within the     *)
(* reader's limits is read as it was written, every other one is refused,   *)
(* and the size the encoder computes is the size it writes.                 *)
(****************************************************************************)
EXTENDS NodeIds, SequenceTheorems, TLAPS

\* A reader that takes a field in the width it was written in gets its value.
LEMMA ReadStanding ==
  ASSUME NEW s, NEW p \in Nat, NEW w, NEW v,
         p \in DOMAIN s, s[p] = [w |-> w, v |-> v]
  PROVE  Read(s, p, w) = Good(v, p + 1)
BY DEF Read

\* The values that fit into a field are not changed by writing them there.
LEMMA CellKeeps ==
  ASSUME NEW w \in {1, 2, 4, 16}, NEW v \in Int,
         w = 1 => v >= 0 /\ v < ByteRange,
         w = 2 => v >= 0 /\ v < UInt16Range
  PROVE  Cell(w, v) = [w |-> w, v |-> v]
<1>1. CASE w = 1
  BY <1>1 DEF Cell, Narrow, ByteRange
<1>2. CASE w = 2
  BY <1>2 DEF Cell, Narrow, UInt16Range
<1>3. CASE w \in {4, 16}
  BY <1>3 DEF Cell, Narrow
<1> QED BY <1>1, <1>2, <1>3

LEMMA StringRoundTrip ==
  ASSUME NEW s, NEW p \in Nat, NEW str \in Strings, NEW limit \in Nat,
         Fits(str.len, limit), Standing(WriteString(str), s, p)
  PROVE  ReadString(s, p, limit) = Good(str, p + Len(WriteString(str)))
<1> DEFINE m == WriteString(str)
<1>1. str.len \in Int /\ str.txt \in Int /\ str.len >= -1 /\ (str.len <= 0 => str.txt = 0)
  BY DEF Strings
<1>2. Cell(4, str.len) = [w |-> 4, v |-> str.len]
  BY <1>1, CellKeeps
<1>3. m[1] = [w |-> 4, v |-> str.len] /\ 1 \in DOMAIN m
  BY <1>1, <1>2 DEF WriteString
<1>4. p \in DOMAIN s /\ s[p] = [w |-> 4, v |-> str.len]
  BY <1>3 DEF Standing
<1>5. Read(s, p, 4) = Good(str.len, p + 1)
  BY <1>4, ReadStanding
<1>6. Read(s, p, 4).st = "Good" /\ Read(s, p, 4).v = str.len /\ Read(s, p, 4).at = p + 1
  BY <1>5 DEF Good
<1>7. str = [len |-> str.len, txt |-> str.txt]
  BY DEF Strings
<1>8. CASE str.len <= 0
  <2>1. Len(m) = 1
    BY <1>8 DEF WriteString
  <2>2. str.len = -1 \/ str.len = 0
    BY <1>1, <1>8
  <2> QED BY <1>1, <1>6, <1>7, <1>8, <2>1, <2>2 DEF ReadString, NullString, Fits
<1>9. CASE str.len > 0
  <2>1. m = << Cell(4, str.len), [w |-> str.len, v |-> str.txt] >>
    BY <1>1, <1>9 DEF WriteString
  <2>2. Len(m) = 2 /\ 2 \in DOMAIN m /\ m[2] = [w |-> str.len, v |-> str.txt]
    BY <2>1
  <2>3. p + 1 \in DOMAIN s /\ s[p + 1] = [w |-> str.len, v |-> str.txt]
    BY <2>2 DEF Standing
  <2>4. Read(s, p + 1, str.len) = Good(str.txt, p + 2)
    BY <2>3, ReadStanding
  <2>5. Read(s, p + 1, str.len).st = "Good" /\ Read(s, p + 1, str.len).v = str.txt
        /\ Read(s, p + 1, str.len).at = p + 2
    BY <2>4 DEF Good
  <2> QED BY <1>1, <1>6, <1>7, <1>9, <2>2, <2>5 DEF ReadString, Fits
<1> QED BY <1>1, <1>8, <1>9

----------------------------------------------------------------------------
(* What stands in a message: the parts of a concatenation.                  *)

Cells == [w : Int, v : Int]

LEMMA StandingParts ==
  ASSUME NEW s, NEW p \in Nat, NEW a \in Seq(Cells), NEW b \in Seq(Cells),
         Standing(a \o b, s, p)
  PROVE  Standing(a, s, p) /\ Standing(b, s, p + Len(a))
<1> DEFINE m == a \o b
<1>1. /\ Len(m) = Len(a) + Len(b) /\ m \in Seq(Cells)
      /\ \A i \in 1..Len(a) : m[i] = a[i]
      /\ \A i \in 1..Len(b) : m[Len(a) + i] = b[i]
  OBVIOUS
<1>2. Standing(a, s, p)
  <2>1. SUFFICES ASSUME NEW i \in DOMAIN a
                 PROVE  p + i - 1 \in DOMAIN s /\ s[p + i - 1] = a[i]
    BY DEF Standing
  <2>2. i \in DOMAIN m /\ m[i] = a[i]
    BY <1>1
  <2> QED BY <2>2 DEF Standing
<1>3. Standing(b, s, p + Len(a))
  <2>1. SUFFICES ASSUME NEW i \in DOMAIN b
                 PROVE  p + Len(a) + i - 1 \in DOMAIN s /\ s[p + Len(a) + i - 1] = b[i]
    BY DEF Standing
  <2>2. Len(a) + i \in DOMAIN m /\ m[Len(a) + i] = b[i]
    BY <1>1
  <2>3. p + (Len(a) + i) - 1 \in DOMAIN s /\ s[p + (Len(a) + i) - 1] = b[i]
    BY <2>2 DEF Standing
  <2> QED BY <2>3
<1> QED BY <1>2, <1>3

LEMMA Concatenation ==
  ASSUME NEW a \in Seq(Cells), NEW b \in Seq(Cells)
  PROVE  a \o b \in Seq(Cells) /\ Len(a \o b) = Len(a) + Len(b)
OBVIOUS

LEMMA StandingOne ==
  ASSUME NEW s, NEW p \in Nat, NEW c, Standing(<< c >>, s, p)
  PROVE  p \in DOMAIN s /\ s[p] = c
BY DEF Standing

\* A cell and what follows it.
LEMMA StandingCons ==
  ASSUME NEW s, NEW p \in Nat, NEW c \in Cells, NEW m \in Seq(Cells),
         Standing(<< c >> \o m, s, p)
  PROVE  p \in DOMAIN s /\ s[p] = c /\ Standing(m, s, p + 1)
<1>1. << c >> \in Seq(Cells) /\ Len(<< c >>) = 1
  OBVIOUS
<1>2. Standing(<< c >>, s, p) /\ Standing(m, s, p + Len(<< c >>))
  BY <1>1, StandingParts
<1> QED BY <1>1, <1>2, StandingOne

LEMMA StandingTwo ==
  ASSUME NEW s, NEW p \in Nat, NEW c, NEW d, Standing(<< c, d >>, s, p)
  PROVE  /\ p \in DOMAIN s /\ s[p] = c
         /\ p + 1 \in DOMAIN s /\ s[p + 1] = d
<1>1. p + 2 - 1 \in DOMAIN s /\ s[p + 2 - 1] = d
  BY DEF Standing
<1> QED BY <1>1 DEF Standing

LEMMA CellType ==
  ASSUME NEW w \in Int, NEW v \in Int
  PROVE  Cell(w, v) \in Cells
<1>1. Narrow(w, v) \in Int
  BY DEF Narrow, ByteRange, UInt16Range
<1> QED BY <1>1 DEF Cell, Cells

LEMMA StringType ==
  ASSUME NEW str \in Strings
  PROVE  WriteString(str) \in Seq(Cells) /\ Len(WriteString(str)) \in Nat
<1>1. str.len \in Int /\ str.txt \in Int
  BY DEF Strings
<1>2. Cell(4, str.len) \in Cells /\ [w |-> str.len, v |-> str.txt] \in Cells
  BY <1>1 DEF Cells, Cell, Narrow
<1> QED BY <1>2 DEF WriteString

----------------------------------------------------------------------------
(* NodeIds.                                                                 *)

\* The namespace index a body carries.
WrittenNs(n, byte) == IF HasUri(byte) THEN 0 ELSE n.ns

LEMMA NumericRoundTrip ==
  ASSUME NEW s, NEW p \in Nat, NEW nsWidth \in Nat, NEW idWidth \in Nat,
         NEW ns, NEW id, NEW type,
         Standing(<< [w |-> nsWidth, v |-> ns], [w |-> idWidth, v |-> id] >>, s, p)
  PROVE  ReadNumeric(s, p, nsWidth, idWidth, type)
           = Good([ns |-> ns, type |-> type, id |-> id], p + 2)
<1> DEFINE c == [w |-> nsWidth, v |-> ns]
           d == [w |-> idWidth, v |-> id]
<1>0. Standing(<< c, d >>, s, p)
  OBVIOUS
<1>1. /\ p \in DOMAIN s /\ s[p] = c
      /\ p + 1 \in DOMAIN s /\ s[p + 1] = d
  <2> HIDE DEF c, d
  <2> QED BY <1>0, StandingTwo
<1>2. Read(s, p, nsWidth) = Good(ns, p + 1)
  BY <1>1, ReadStanding
<1>3. Read(s, p + 1, idWidth) = Good(id, p + 2)
  BY <1>1, ReadStanding
<1> QED BY <1>2, <1>3 DEF ReadNumeric, Good

LEMMA TextualRoundTrip ==
  ASSUME NEW s, NEW p \in Nat, NEW ns \in UInt16, NEW str \in Strings,
         NEW limit \in Nat, NEW type, Fits(str.len, limit),
         Standing(<< Cell(2, ns) >> \o WriteString(str), s, p)
  PROVE  ReadTextual(s, p, limit, type)
           = Good([ns |-> ns, type |-> type, id |-> str], p + 1 + Len(WriteString(str)))
<1>1. Cell(2, ns) = [w |-> 2, v |-> ns] /\ Cell(2, ns) \in Cells
  <2>1. ns \in Int /\ ns % UInt16Range = ns
    BY DEF UInt16, UInt16Range
  <2>2. Narrow(2, ns) = ns
    BY <2>1 DEF Narrow
  <2>3. Cell(2, ns) = [w |-> 2, v |-> ns]
    BY <2>2 DEF Cell
  <2> QED BY <2>1, <2>3 DEF Cells
<1>2. Standing(<< Cell(2, ns) >>, s, p) /\ Standing(WriteString(str), s, p + 1)
  <2>1. << Cell(2, ns) >> \in Seq(Cells) /\ Len(<< Cell(2, ns) >>) = 1
    BY <1>1
  <2> QED BY <2>1, StringType, StandingParts
<1>3. Read(s, p, 2) = Good(ns, p + 1)
  <2>1. p \in DOMAIN s /\ s[p] = Cell(2, ns)
    BY <1>2, StandingOne
  <2> QED BY <1>1, <2>1, ReadStanding
<1>4. ReadString(s, p + 1, limit) = Good(str, p + 1 + Len(WriteString(str)))
  BY <1>2, StringRoundTrip
<1> QED BY <1>3, <1>4 DEF ReadTextual, Good

LEMMA BodyRoundTrip ==
  ASSUME NEW s, NEW p \in Nat, NEW n \in NodeId, NEW byte \in Nat,
         TypeOf(byte) = GetEncodingType(n), NodeIdFits(n),
         Standing(WriteNodeIdBody(n, byte), s, p)
  PROVE  ReadNodeIdBody(s, p, byte)
           = Good([n EXCEPT !.ns = WrittenNs(n, byte)],
                  p + Len(WriteNodeIdBody(n, byte)))
<1> DEFINE ns == WrittenNs(n, byte)
           m  == WriteNodeIdBody(n, byte)
           t  == TypeOf(byte)
<1>1. n.ns \in UInt16 /\ ns \in UInt16
  BY DEF NodeId, WrittenNs, UInt16, UInt16Range
<1>2. n = [ns |-> n.ns, type |-> n.type, id |-> n.id]
  BY DEF NodeId
<1>3. [n EXCEPT !.ns = ns] = [ns |-> ns, type |-> n.type, id |-> n.id]
  BY <1>2
<1>4. CASE t = TwoByte
  <2>1. n.type = "Numeric" /\ n.ns = 0 /\ n.id \in Nat /\ n.id < ByteRange /\ ns = 0
    BY <1>4 DEF NodeId, GetEncodingType, TwoByte, FourByte, Numeric, StringForm,
                GuidForm, ByteString, WrittenNs, ByteRange
  <2>2. Cell(1, n.id) = [w |-> 1, v |-> n.id]
    <3>1. n.id \in Int /\ n.id >= 0
      BY <2>1
    <3> QED BY <2>1, <3>1, CellKeeps
  <2>3. m = << [w |-> 1, v |-> n.id] >> /\ Len(m) = 1
    BY <1>4, <2>2 DEF WriteNodeIdBody
  <2>4. p \in DOMAIN s /\ s[p] = [w |-> 1, v |-> n.id]
    BY <2>3, StandingOne
  <2>5. Read(s, p, 1) = Good(n.id, p + 1)
    BY <2>4, ReadStanding
  <2>6. ReadNodeIdBody(s, p, byte)
          = Good([ns |-> 0, type |-> "Numeric", id |-> n.id], p + 1)
    BY <1>4, <2>5 DEF ReadNodeIdBody, Good
  <2> QED BY <1>3, <2>1, <2>3, <2>6
<1>5. CASE t = FourByte
  <2>1. n.type = "Numeric" /\ n.id \in Nat /\ n.id < UInt16Range /\ ns \in Nat /\ ns < ByteRange
    BY <1>5 DEF NodeId, GetEncodingType, TwoByte, FourByte, Numeric, StringForm,
                GuidForm, ByteString, WrittenNs, ByteRange, UInt16Range, UInt16
  <2>2. Cell(1, ns) = [w |-> 1, v |-> ns] /\ Cell(2, n.id) = [w |-> 2, v |-> n.id]
    <3>1. ns \in Int /\ n.id \in Int /\ ns >= 0 /\ n.id >= 0
      BY <2>1
    <3> QED BY <2>1, <3>1, CellKeeps
  <2>3. m = << [w |-> 1, v |-> ns], [w |-> 2, v |-> n.id] >> /\ Len(m) = 2
    BY <1>5, <2>2 DEF WriteNodeIdBody, WrittenNs, TwoByte, FourByte
  <2>4. ReadNumeric(s, p, 1, 2, "Numeric")
          = Good([ns |-> ns, type |-> "Numeric", id |-> n.id], p + 2)
    BY <2>3, NumericRoundTrip
  <2>5. ReadNodeIdBody(s, p, byte) = ReadNumeric(s, p, 1, 2, "Numeric")
    BY <1>5 DEF ReadNodeIdBody, TwoByte, FourByte
  <2> QED BY <1>3, <2>1, <2>3, <2>4, <2>5
<1>6. CASE t = Numeric
  <2>1. n.type = "Numeric" /\ n.id \in Int
    BY <1>6 DEF NodeId, GetEncodingType, TwoByte, FourByte, Numeric, StringForm,
                GuidForm, ByteString
  <2>2. Cell(2, ns) = [w |-> 2, v |-> ns] /\ Cell(4, n.id) = [w |-> 4, v |-> n.id]
    <3>1. ns \in Int /\ ns >= 0 /\ ns < UInt16Range
      BY <1>1 DEF UInt16
    <3> QED BY <1>1, <2>1, <3>1, CellKeeps
  <2>3. m = << [w |-> 2, v |-> ns], [w |-> 4, v |-> n.id] >> /\ Len(m) = 2
    BY <1>6, <2>2 DEF WriteNodeIdBody, WrittenNs, TwoByte, FourByte, Numeric
  <2>4. ReadNumeric(s, p, 2, 4, "Numeric")
          = Good([ns |-> ns, type |-> "Numeric", id |-> n.id], p + 2)
    <3>1. Standing(<< [w |-> 2, v |-> ns], [w |-> 4, v |-> n.id] >>, s, p)
      BY <2>3
    <3> HIDE DEF ns
    <3> QED BY <3>1, NumericRoundTrip
  <2>5. ReadNodeIdBody(s, p, byte) = ReadNumeric(s, p, 2, 4, "Numeric")
    BY <1>6 DEF ReadNodeIdBody, TwoByte, FourByte, Numeric
  <2> QED BY <1>3, <2>1, <2>3, <2>4, <2>5
<1>7. CASE t = GuidForm
  <2>1. n.type = "Guid" /\ n.id \in Int
    BY <1>7 DEF NodeId, GetEncodingType, TwoByte, FourByte, Numeric, StringForm,
                GuidForm, ByteString
  <2>2. Cell(2, ns) = [w |-> 2, v |-> ns] /\ Cell(16, n.id) = [w |-> 16, v |-> n.id]
    <3>1. ns \in Int /\ ns >= 0 /\ ns < UInt16Range
      BY <1>1 DEF UInt16
    <3> QED BY <1>1, <2>1, <3>1, CellKeeps
  <2>3. m = << [w |-> 2, v |-> ns], [w |-> 16, v |-> n.id] >> /\ Len(m) = 2
    BY <1>7, <2>2 DEF WriteNodeIdBody, WrittenNs, TwoByte, FourByte, Numeric, GuidForm
  <2>4. ReadNumeric(s, p, 2, 16, "Guid")
          = Good([ns |-> ns, type |-> "Guid", id |-> n.id], p + 2)
    <3>1. Standing(<< [w |-> 2, v |-> ns], [w |-> 16, v |-> n.id] >>, s, p)
      BY <2>3
    <3> HIDE DEF ns
    <3> QED BY <3>1, NumericRoundTrip
  <2>5. ReadNodeIdBody(s, p, byte) = ReadNumeric(s, p, 2, 16, "Guid")
    BY <1>7 DEF ReadNodeIdBody, TwoByte, FourByte, Numeric, GuidForm
  <2> QED BY <1>3, <2>1, <2>3, <2>4, <2>5
<1>8. CASE t \in {StringForm, ByteString}
  <2>1. /\ n.type \in {"String", "Opaque"} /\ n.id \in Strings
        /\ n.type = (IF t = StringForm THEN "String" ELSE "Opaque")
    BY <1>8 DEF NodeId, GetEncodingType, TwoByte, FourByte, Numeric, StringForm,
                GuidForm, ByteString
  <2> DEFINE limit == IF t = StringForm THEN MaxStringLength ELSE MaxByteStringLength
  <2>2. limit \in Nat /\ Fits(n.id.len, limit)
    BY <1>8, <2>1, StringLimitAssumption DEF NodeIdFits
  <2>3. m = << Cell(2, ns) >> \o WriteString(n.id)
    BY <1>8 DEF WriteNodeIdBody, WrittenNs, TwoByte, FourByte, Numeric, GuidForm,
                StringForm, ByteString
  <2>4. Len(m) = 1 + Len(WriteString(n.id))
    <3>1. << Cell(2, ns) >> \in Seq({Cell(2, ns)}) /\ Len(<< Cell(2, ns) >>) = 1
      OBVIOUS
    <3>2. Cell(2, ns) \in Cells
      <4>1. ns \in Int
        BY <1>1 DEF UInt16
      <4> QED BY <4>1, CellType
    <3>3. << Cell(2, ns) >> \in Seq(Cells)
      BY <3>2
    <3> QED BY <2>1, <2>3, <3>1, <3>3, StringType
  <2>5. ReadTextual(s, p, limit, n.type)
          = Good([ns |-> ns, type |-> n.type, id |-> n.id], p + 1 + Len(WriteString(n.id)))
    BY <1>1, <2>1, <2>2, <2>3, TextualRoundTrip
  <2>6. ReadNodeIdBody(s, p, byte) = ReadTextual(s, p, limit, n.type)
    BY <1>8, <2>1 DEF ReadNodeIdBody, TwoByte, FourByte, Numeric, GuidForm, StringForm,
                      ByteString
  <2>7. p + 1 + Len(WriteString(n.id)) = p + Len(m)
    BY <2>1, <2>4, StringType
  <2> QED BY <1>3, <2>5, <2>6, <2>7
<1> QED
  <2>1. t \in {TwoByte, FourByte, Numeric, GuidForm, StringForm, ByteString}
    BY DEF GetEncodingType
  <2> QED BY <2>1, <1>4, <1>5, <1>6, <1>7, <1>8

\* The flags of the encoding byte do not touch its type, nor one another.
LEMMA EncodingByte ==
  ASSUME NEW t \in 0..5, NEW u \in {0, UriMask}, NEW x \in {0, ServerIndexMask}
  PROVE  /\ t + u + x \in Nat /\ t + u + x < ByteRange
         /\ TypeOf(t + u + x) = t
         /\ HasUri(t + u + x) <=> u # 0
         /\ HasServerIndex(t + u + x) <=> x # 0
BY DEF UriMask, ServerIndexMask, ByteRange, TypeOf, HasUri, HasServerIndex

LEMMA EncodingTypes ==
  ASSUME NEW n
  PROVE  GetEncodingType(n) \in 0..5
BY DEF GetEncodingType, TwoByte, FourByte, Numeric, StringForm, GuidForm, ByteString

LEMMA BodyType ==
  ASSUME NEW n \in NodeId, NEW byte \in Nat, TypeOf(byte) = GetEncodingType(n)
  PROVE  WriteNodeIdBody(n, byte) \in Seq(Cells)
<1> DEFINE ns == WrittenNs(n, byte)
<1>1. ns \in Int
  BY DEF NodeId, WrittenNs, UInt16
<1>2. Cell(1, ns) \in Cells /\ Cell(2, ns) \in Cells
  BY <1>1, CellType
<1>3. CASE TypeOf(byte) \in {StringForm, ByteString}
  <2>1. n.id \in Strings
    BY <1>3 DEF NodeId, GetEncodingType, TwoByte, FourByte, Numeric, StringForm,
                GuidForm, ByteString
  <2>2. WriteNodeIdBody(n, byte) = << Cell(2, ns) >> \o WriteString(n.id)
    BY <1>3 DEF WriteNodeIdBody, WrittenNs, TwoByte, FourByte, Numeric, GuidForm,
                StringForm, ByteString
  <2>3. << Cell(2, ns) >> \in Seq(Cells) /\ WriteString(n.id) \in Seq(Cells)
    BY <1>2, <2>1, StringType
  <2> QED BY <2>2, <2>3
<1>4. CASE TypeOf(byte) \notin {StringForm, ByteString}
  <2>1. n.id \in Int
    BY <1>4 DEF NodeId, GetEncodingType, StringForm, ByteString
  <2>2. /\ Cell(1, n.id) \in Cells /\ Cell(2, n.id) \in Cells
        /\ Cell(4, n.id) \in Cells /\ Cell(16, n.id) \in Cells
    BY <2>1, CellType
  <2>3. TypeOf(byte) \in {TwoByte, FourByte, Numeric, GuidForm}
    BY <1>4 DEF GetEncodingType
  <2> QED BY <1>2, <2>2, <2>3 DEF WriteNodeIdBody, WrittenNs
<1> QED BY <1>3, <1>4

\* A NodeId whose strings are within the reader's limits is read as it was
\* written, wherever it stands in the message (WriteNodeId and ReadNodeId with
\* their bodies): none of the short forms loses a part of it.
THEOREM NodeIdRoundTrip ==
  ASSUME NEW s, NEW p \in Nat, NEW n \in NodeId, NodeIdFits(n),
         Standing(WriteNodeId(n), s, p)
  PROVE  ReadNodeId(s, p) = Good(n, p + Len(WriteNodeId(n)))
<1> DEFINE byte == GetEncodingType(n)
           body == WriteNodeIdBody(n, byte)
<1>1. byte \in Nat /\ byte < ByteRange /\ TypeOf(byte) = byte /\ ~ HasUri(byte)
  <2>1. byte \in 0..5
    BY EncodingTypes
  <2>2. byte + 0 + 0 = byte
    BY <2>1
  <2> QED BY <2>1, <2>2, EncodingByte
<1>2. Cell(1, byte) = [w |-> 1, v |-> byte] /\ Cell(1, byte) \in Cells
  <2>1. byte \in Int /\ byte >= 0
    BY <1>1
  <2> QED BY <1>1, <2>1, CellKeeps, CellType
<1>3. body \in Seq(Cells)
  BY <1>1, BodyType
<1>4. << Cell(1, byte) >> \in Seq(Cells) /\ Len(<< Cell(1, byte) >>) = 1
  BY <1>2
<1>5. WriteNodeId(n) = << Cell(1, byte) >> \o body
  BY DEF WriteNodeId
<1>6. Standing(<< Cell(1, byte) >>, s, p) /\ Standing(body, s, p + 1)
  <2> HIDE DEF byte, body
  <2> QED BY <1>3, <1>4, <1>5, StandingParts
<1>7. Read(s, p, 1) = Good(byte, p + 1)
  <2>1. p \in DOMAIN s /\ s[p] = Cell(1, byte)
    BY <1>6, StandingOne
  <2> QED BY <1>2, <2>1, ReadStanding
<1>8. ReadNodeIdBody(s, p + 1, byte)
        = Good([n EXCEPT !.ns = WrittenNs(n, byte)], p + 1 + Len(body))
  BY <1>1, <1>6, BodyRoundTrip
<1>9. [n EXCEPT !.ns = WrittenNs(n, byte)] = n
  BY <1>1 DEF WrittenNs, NodeId
<1>10. p + 1 + Len(body) = p + Len(WriteNodeId(n))
  <2> HIDE DEF byte, body
  <2> QED BY <1>3, <1>4, <1>5
<1> QED BY <1>7, <1>8, <1>9, <1>10 DEF ReadNodeId, Good

----------------------------------------------------------------------------
(* ExpandedNodeIds.                                                         *)

\* The encoding byte of an ExpandedNodeId tells its parts.
LEMMA ExpandedFlags ==
  ASSUME NEW e \in ExpandedNodeId
  PROVE  /\ ExpandedByte(e) \in Nat /\ ExpandedByte(e) < ByteRange
         /\ TypeOf(ExpandedByte(e)) = GetEncodingType(e.node)
         /\ HasUri(ExpandedByte(e)) <=> e.uri.len > 0
         /\ HasServerIndex(ExpandedByte(e)) <=> e.server > 0
<1> DEFINE u == IF e.uri.len > 0 THEN UriMask ELSE 0
           x == IF e.server > 0 THEN ServerIndexMask ELSE 0
<1>1. GetEncodingType(e.node) \in 0..5
  BY EncodingTypes
<1>2. u \in {0, UriMask} /\ x \in {0, ServerIndexMask}
  OBVIOUS
<1>3. (u # 0 <=> e.uri.len > 0) /\ (x # 0 <=> e.server > 0)
  BY DEF UriMask, ServerIndexMask
<1>4. ExpandedByte(e) = GetEncodingType(e.node) + u + x
  BY DEF ExpandedByte
<1> HIDE DEF u, x
<1> QED BY <1>1, <1>2, <1>3, <1>4, EncodingByte

\* An ExpandedNodeId within the reader's limits arrives as Received says: with
\* its identifier, its URI in place of the namespace index when it has one, and
\* its server index (WriteExpandedNodeId and ReadExpandedNodeId).
THEOREM ExpandedNodeIdRoundTrip ==
  ASSUME NEW s, NEW p \in Nat, NEW e \in ExpandedNodeId,
         NodeIdFits(e.node), Fits(e.uri.len, MaxStringLength),
         Standing(WriteExpandedNodeId(e), s, p)
  PROVE  ReadExpandedNodeId(s, p) = Good(Received(e), p + Len(WriteExpandedNodeId(e)))
<1> DEFINE n      == e.node
           byte   == ExpandedByte(e)
           body   == WriteNodeIdBody(n, byte)
           uri    == IF HasUri(byte) THEN WriteString(e.uri) ELSE << >>
           server == IF HasServerIndex(byte) THEN << Cell(4, e.server) >> ELSE << >>
           at1    == p + 1 + Len(body)
           at2    == at1 + Len(uri)
<1>1. /\ n \in NodeId /\ e.uri \in Strings /\ e.server \in Nat
      /\ e = [node |-> n, uri |-> e.uri, server |-> e.server]
      /\ n = [ns |-> n.ns, type |-> n.type, id |-> n.id] /\ n.ns \in Nat
      /\ e.uri.len \in Int
  BY DEF ExpandedNodeId, NodeId, Strings, UInt16
<1>2. /\ byte \in Nat /\ byte < ByteRange /\ TypeOf(byte) = GetEncodingType(n)
      /\ HasUri(byte) <=> e.uri.len > 0
      /\ HasServerIndex(byte) <=> e.server > 0
  BY ExpandedFlags
<1>3. Cell(1, byte) = [w |-> 1, v |-> byte] /\ Cell(1, byte) \in Cells
  <2>1. byte \in Int /\ byte >= 0
    BY <1>2
  <2> QED BY <1>2, <2>1, CellKeeps, CellType
<1>4. /\ << Cell(1, byte) >> \in Seq(Cells) /\ Len(<< Cell(1, byte) >>) = 1
      /\ body \in Seq(Cells) /\ uri \in Seq(Cells) /\ server \in Seq(Cells)
  <2>1. Cell(4, e.server) \in Cells /\ Cell(4, e.server) = [w |-> 4, v |-> e.server]
    BY <1>1 DEF Cell, Narrow, Cells
  <2>2. body \in Seq(Cells)
    BY <1>1, <1>2, BodyType
  <2>3. uri \in Seq(Cells)
    BY <1>1, StringType
  <2>4. server \in Seq(Cells)
    BY <2>1
  <2> QED BY <1>3, <2>2, <2>3, <2>4
<1>5. WriteExpandedNodeId(e) = ((<< Cell(1, byte) >> \o body) \o uri) \o server
  BY DEF WriteExpandedNodeId
<1>6. /\ Standing(<< Cell(1, byte) >>, s, p) /\ Standing(body, s, p + 1)
      /\ Standing(uri, s, at1) /\ Standing(server, s, at2)
      /\ p + Len(WriteExpandedNodeId(e)) = at2 + Len(server)
      /\ at1 \in Nat /\ at2 \in Nat
  <2> DEFINE a == << Cell(1, byte) >>
             b == a \o body
             c == b \o uri
  <2>1. a \in Seq(Cells) /\ Len(a) = 1
    BY <1>4
  <2> HIDE DEF a, body, uri, server
  <2>0. body \in Seq(Cells) /\ uri \in Seq(Cells) /\ server \in Seq(Cells)
    BY <1>4
  <2>2. b \in Seq(Cells) /\ Len(b) = 1 + Len(body)
    BY <2>0, <2>1, Concatenation
  <2>3. c \in Seq(Cells) /\ Len(c) = 1 + Len(body) + Len(uri)
    <3> HIDE DEF b
    <3> QED BY <1>4, <2>1, <2>2
  <2>4. Standing(c \o server, s, p)
    BY <1>5 DEF a
  <2>5. Standing(c, s, p) /\ Standing(server, s, p + Len(c))
    <3> HIDE DEF c
    <3> QED BY <1>4, <2>3, <2>4, StandingParts
  <2>6. Standing(b, s, p) /\ Standing(uri, s, p + Len(b))
    <3> HIDE DEF b
    <3> QED BY <1>4, <2>2, <2>5, StandingParts
  <2>7. Standing(a, s, p) /\ Standing(body, s, p + Len(a))
    BY <1>4, <2>1, <2>6, StandingParts
  <2>8. Len(c \o server) = Len(c) + Len(server)
    <3> HIDE DEF c
    <3> QED BY <1>4, <2>3
  <2>9. Len(body) \in Nat /\ Len(uri) \in Nat /\ Len(server) \in Nat
    BY <1>4
  <2>10. p + Len(b) = at1 /\ p + Len(c) = at2 /\ at1 \in Nat /\ at2 \in Nat
    <3> HIDE DEF b, c
    <3> QED BY <2>2, <2>3, <2>9
  <2>11. WriteExpandedNodeId(e) = c \o server
    BY <1>5 DEF a
  <2>12. p + Len(WriteExpandedNodeId(e)) = at2 + Len(server)
    <3>1. Len(c) \in Nat
      BY <2>3
    <3>2. Len(WriteExpandedNodeId(e)) = Len(c) + Len(server)
      BY <2>8, <2>11
    <3> HIDE DEF c, at2
    <3> QED BY <2>9, <2>10, <3>1, <3>2
  <2>13. Standing(<< Cell(1, byte) >>, s, p)
    BY <2>7 DEF a
  <2> QED BY <2>1, <2>5, <2>6, <2>7, <2>10, <2>12, <2>13
<1>7. Read(s, p, 1) = Good(byte, p + 1)
  <2>1. p \in DOMAIN s /\ s[p] = Cell(1, byte)
    BY <1>6, StandingOne
  <2> QED BY <1>3, <2>1, ReadStanding
<1>8. ReadNodeIdBody(s, p + 1, byte) = Good([n EXCEPT !.ns = WrittenNs(n, byte)], at1)
  <2>1. p + 1 \in Nat /\ Standing(body, s, p + 1) /\ NodeIdFits(n)
    BY <1>6
  <2>2. ReadNodeIdBody(s, p + 1, byte)
          = Good([n EXCEPT !.ns = WrittenNs(n, byte)], p + 1 + Len(body))
    <3> HIDE DEF n, byte
    <3> QED BY <1>1, <1>2, <2>1, BodyRoundTrip
  <2> QED BY <2>2
<1>9. (IF HasUri(byte) THEN ReadString(s, at1, MaxStringLength) ELSE Good(NullString, at1))
        = Good(IF e.uri.len > 0 THEN e.uri ELSE NullString, at2)
  <2>1. CASE HasUri(byte)
    <3>1. uri = WriteString(e.uri) /\ e.uri.len > 0
      BY <1>2, <2>1
    <3>2. ReadString(s, at1, MaxStringLength) = Good(e.uri, at2)
      <4> HIDE DEF at1
      <4>1. Standing(WriteString(e.uri), s, at1) /\ at1 \in Nat
        BY <1>6, <3>1
      <4> QED BY <1>1, <3>1, <4>1, StringRoundTrip, StringLimitAssumption
    <3> QED BY <2>1, <3>1, <3>2
  <2>2. CASE ~ HasUri(byte)
    <3>1. at2 = at1
      <4> HIDE DEF at1
      <4> QED BY <1>6, <2>2
    <3> QED BY <1>2, <2>2, <3>1
  <2> QED BY <2>1, <2>2
<1>10. (IF HasServerIndex(byte) THEN Read(s, at2, 4) ELSE Good(0, at2))
         = Good(e.server, at2 + Len(server))
  <2> HIDE DEF at2, byte
  <2>1. CASE HasServerIndex(byte)
    <3>1. server = << Cell(4, e.server) >> /\ Cell(4, e.server) = [w |-> 4, v |-> e.server]
      BY <2>1 DEF Cell, Narrow
    <3>2. at2 \in DOMAIN s /\ s[at2] = [w |-> 4, v |-> e.server]
      <4>1. Standing(<< Cell(4, e.server) >>, s, at2)
        BY <1>6, <3>1
      <4>2. at2 \in DOMAIN s /\ s[at2] = Cell(4, e.server)
        BY <1>6, <4>1, StandingOne
      <4> QED BY <3>1, <4>2
    <3>3. Read(s, at2, 4) = Good(e.server, at2 + 1)
      BY <1>6, <3>2, ReadStanding
    <3>4. Len(server) = 1
      BY <3>1
    <3> QED BY <2>1, <3>3, <3>4
  <2>2. CASE ~ HasServerIndex(byte)
    <3>1. e.server = 0 /\ at2 + Len(server) = at2
      BY <1>1, <1>2, <1>6, <2>2
    <3> QED BY <2>2, <3>1
  <2> QED BY <2>1, <2>2
<1>11. Received(e) = [node |-> [n EXCEPT !.ns = WrittenNs(n, byte)],
                      uri |-> IF e.uri.len > 0 THEN e.uri ELSE NullString,
                      server |-> e.server]
  <2>1. [n EXCEPT !.ns = WrittenNs(n, byte)]
          = [ns |-> WrittenNs(n, byte), type |-> n.type, id |-> n.id]
    BY <1>1
  <2>2. WrittenNs(n, byte) = IF e.uri.len > 0 THEN 0 ELSE n.ns
    BY <1>2 DEF WrittenNs
  <2>3. [n EXCEPT !.ns = IF e.uri.len > 0 THEN 0 ELSE @]
          = [ns |-> IF e.uri.len > 0 THEN 0 ELSE n.ns, type |-> n.type, id |-> n.id]
    BY <1>1
  <2> QED BY <2>1, <2>2, <2>3 DEF Received
<1> QED
  <2> HIDE DEF at1, at2, byte, server
  <2> QED BY <1>6, <1>7, <1>8, <1>9, <1>10, <1>11 DEF ReadExpandedNodeId, Good

----------------------------------------------------------------------------
(* What does not fit is refused.                                            *)

\* A string that is longer than the reader's limit is refused for its length,
\* before its text is looked at.
LEMMA StringRefused ==
  ASSUME NEW s, NEW p \in Nat, NEW str \in Strings, NEW limit \in Nat,
         ~ Fits(str.len, limit), Standing(WriteString(str), s, p)
  PROVE  ReadString(s, p, limit) = Failed("BadEncodingLimitsExceeded", p)
<1>1. str.len \in Int /\ str.len > 0
  BY DEF Strings, Fits
<1>2. Cell(4, str.len) = [w |-> 4, v |-> str.len]
  BY <1>1, CellKeeps
<1>3. p \in DOMAIN s /\ s[p] = [w |-> 4, v |-> str.len]
  <2>1. /\ WriteString(str)[1] = [w |-> 4, v |-> str.len]
        /\ 1 \in DOMAIN WriteString(str)
    BY <1>1, <1>2 DEF WriteString
  <2> QED BY <2>1 DEF Standing
<1>4. Read(s, p, 4) = Good(str.len, p + 1)
  BY <1>3, ReadStanding
<1> QED BY <1>1, <1>4 DEF ReadString, Good

LEMMA BodyRefused ==
  ASSUME NEW s, NEW p \in Nat, NEW n \in NodeId, NEW byte \in Nat,
         TypeOf(byte) = GetEncodingType(n), ~ NodeIdFits(n),
         Standing(WriteNodeIdBody(n, byte), s, p)
  PROVE  ReadNodeIdBody(s, p, byte) = Failed("BadEncodingLimitsExceeded", p + 1)
<1> DEFINE ns == WrittenNs(n, byte)
           t  == TypeOf(byte)
           limit == IF t = StringForm THEN MaxStringLength ELSE MaxByteStringLength
<1>1. /\ n.type \in {"String", "Opaque"}
      /\ t = IF n.type = "String" THEN StringForm ELSE ByteString
  BY DEF NodeIdFits, GetEncodingType
<1>2. n.id \in Strings /\ ns \in UInt16 /\ ns \in Int
  BY <1>1 DEF NodeId, WrittenNs, UInt16, UInt16Range
<1>3. limit \in Nat /\ ~ Fits(n.id.len, limit)
  BY <1>1, StringLimitAssumption DEF NodeIdFits, StringForm, ByteString
<1>4. WriteNodeIdBody(n, byte) = << Cell(2, ns) >> \o WriteString(n.id)
  BY <1>1 DEF WriteNodeIdBody, WrittenNs, TwoByte, FourByte, Numeric, GuidForm,
              StringForm, ByteString
<1>5. Cell(2, ns) = [w |-> 2, v |-> ns] /\ Cell(2, ns) \in Cells
  <2>1. ns >= 0 /\ ns < UInt16Range
    BY <1>2 DEF UInt16
  <2> QED BY <1>2, <2>1, CellKeeps, CellType
<1>6. p \in DOMAIN s /\ s[p] = Cell(2, ns) /\ Standing(WriteString(n.id), s, p + 1)
  <2>1. WriteString(n.id) \in Seq(Cells)
    BY <1>2, StringType
  <2>2. Standing(<< Cell(2, ns) >> \o WriteString(n.id), s, p)
    BY <1>4
  <2> QED BY <1>5, <2>1, <2>2, StandingCons
<1>7. Read(s, p, 2) = Good(ns, p + 1)
  BY <1>5, <1>6, ReadStanding
<1>8. ReadString(s, p + 1, limit) = Failed("BadEncodingLimitsExceeded", p + 1)
  BY <1>2, <1>3, <1>6, StringRefused
<1>9. ReadTextual(s, p, limit, n.type) = Failed("BadEncodingLimitsExceeded", p + 1)
  BY <1>7, <1>8 DEF ReadTextual, Good, Failed
<1>10. ReadNodeIdBody(s, p, byte) = ReadTextual(s, p, limit, n.type)
  BY <1>1 DEF ReadNodeIdBody, TwoByte, FourByte, Numeric, GuidForm, StringForm, ByteString
<1> QED BY <1>9, <1>10

\* A NodeId whose string is beyond the reader's limit is refused, wherever it
\* stands in the message (ReadNodeId): together with NodeIdRoundTrip, the limits
\* alone decide what becomes of a NodeId.
THEOREM NodeIdRefused ==
  ASSUME NEW s, NEW p \in Nat, NEW n \in NodeId, ~ NodeIdFits(n),
         Standing(WriteNodeId(n), s, p)
  PROVE  ReadNodeId(s, p).st = "BadEncodingLimitsExceeded"
<1> DEFINE byte == GetEncodingType(n)
           body == WriteNodeIdBody(n, byte)
<1>1. byte \in Nat /\ byte < ByteRange /\ TypeOf(byte) = byte
  <2>1. byte \in 0..5
    BY EncodingTypes
  <2>2. byte + 0 + 0 = byte
    BY <2>1
  <2> QED BY <2>1, <2>2, EncodingByte
<1>2. Cell(1, byte) = [w |-> 1, v |-> byte] /\ Cell(1, byte) \in Cells
  <2>1. byte \in Int /\ byte >= 0
    BY <1>1
  <2> QED BY <1>1, <2>1, CellKeeps, CellType
<1>3. p \in DOMAIN s /\ s[p] = Cell(1, byte) /\ Standing(body, s, p + 1)
  <2>1. body \in Seq(Cells)
    BY <1>1, BodyType
  <2>2. Standing(<< Cell(1, byte) >> \o body, s, p)
    BY DEF WriteNodeId
  <2> HIDE DEF byte, body
  <2> QED BY <1>2, <2>1, <2>2, StandingCons
<1>4. Read(s, p, 1) = Good(byte, p + 1)
  BY <1>2, <1>3, ReadStanding
<1>5. ReadNodeIdBody(s, p + 1, byte) = Failed("BadEncodingLimitsExceeded", p + 1 + 1)
  BY <1>1, <1>3, BodyRefused
<1> QED BY <1>4, <1>5 DEF ReadNodeId, Good, Failed

\* An ExpandedNodeId is refused for its identifier or for its URI, whichever is
\* beyond the limit (ReadExpandedNodeId).
THEOREM ExpandedNodeIdRefused ==
  ASSUME NEW s, NEW p \in Nat, NEW e \in ExpandedNodeId,
         ~ NodeIdFits(e.node) \/ ~ Fits(e.uri.len, MaxStringLength),
         Standing(WriteExpandedNodeId(e), s, p)
  PROVE  ReadExpandedNodeId(s, p).st = "BadEncodingLimitsExceeded"
<1> DEFINE n      == e.node
           byte   == ExpandedByte(e)
           body   == WriteNodeIdBody(n, byte)
           uri    == IF HasUri(byte) THEN WriteString(e.uri) ELSE << >>
           server == IF HasServerIndex(byte) THEN << Cell(4, e.server) >> ELSE << >>
<1>1. n \in NodeId /\ e.uri \in Strings /\ e.server \in Nat /\ e.uri.len \in Int
  BY DEF ExpandedNodeId, Strings
<1>2. /\ byte \in Nat /\ byte < ByteRange /\ TypeOf(byte) = GetEncodingType(n)
      /\ HasUri(byte) <=> e.uri.len > 0
  BY ExpandedFlags
<1>3. Cell(1, byte) = [w |-> 1, v |-> byte] /\ Cell(1, byte) \in Cells
  <2>1. byte \in Int /\ byte >= 0
    BY <1>2
  <2> QED BY <1>2, <2>1, CellKeeps, CellType
<1>4. body \in Seq(Cells) /\ uri \in Seq(Cells) /\ server \in Seq(Cells)
  <2>1. Cell(4, e.server) \in Cells
    BY <1>1, CellType
  <2>2. body \in Seq(Cells)
    BY <1>1, <1>2, BodyType
  <2>3. WriteString(e.uri) \in Seq(Cells)
    BY <1>1, StringType
  <2> QED BY <2>1, <2>2, <2>3
<1>5. /\ p \in DOMAIN s /\ s[p] = Cell(1, byte) /\ Standing(body, s, p + 1)
      /\ Standing(uri, s, p + 1 + Len(body))
  <2> DEFINE b == << Cell(1, byte) >> \o body
             c == b \o uri
  <2>1. << Cell(1, byte) >> \in Seq(Cells) /\ Len(<< Cell(1, byte) >>) = 1
    BY <1>3
  <2>2. Standing(c \o server, s, p)
    BY DEF WriteExpandedNodeId
  <2> HIDE DEF body, uri, server
  <2>3. b \in Seq(Cells) /\ Len(b) = 1 + Len(body)
    BY <1>4, <2>1, Concatenation
  <2>4. Standing(c, s, p)
    <3>1. c \in Seq(Cells)
      <4> HIDE DEF b
      <4> QED BY <1>4, <2>3, Concatenation
    <3> HIDE DEF c
    <3> QED BY <1>4, <2>2, <3>1, StandingParts
  <2>5. Standing(b, s, p) /\ Standing(uri, s, p + Len(b))
    <3> HIDE DEF b
    <3> QED BY <1>4, <2>3, <2>4, StandingParts
  <2>6. p + Len(b) = p + 1 + Len(body)
    <3>1. Len(body) \in Nat
      BY <1>4
    <3> QED BY <2>3, <3>1
  <2> HIDE DEF byte
  <2> QED BY <1>3, <1>4, <2>5, <2>6, StandingCons
<1>6. Read(s, p, 1) = Good(byte, p + 1)
  BY <1>3, <1>5, ReadStanding
<1>7. CASE ~ NodeIdFits(n)
  <2>1. ReadNodeIdBody(s, p + 1, byte) = Failed("BadEncodingLimitsExceeded", p + 1 + 1)
    <3> HIDE DEF byte, n
    <3> QED BY <1>1, <1>2, <1>5, <1>7, BodyRefused
  <2> QED BY <1>6, <2>1 DEF ReadExpandedNodeId, Good, Failed
<1>8. CASE NodeIdFits(n) /\ ~ Fits(e.uri.len, MaxStringLength)
  <2>1. HasUri(byte) /\ uri = WriteString(e.uri)
    BY <1>1, <1>2, <1>8, StringLimitAssumption DEF Fits
  <2> DEFINE at1 == p + 1 + Len(body)
  <2>2. ReadNodeIdBody(s, p + 1, byte) = Good([n EXCEPT !.ns = WrittenNs(n, byte)], at1)
    <3> HIDE DEF byte, n
    <3> QED BY <1>1, <1>2, <1>5, <1>8, BodyRoundTrip
  <2>3. at1 \in Nat
    <3> HIDE DEF body
    <3> QED BY <1>4
  <2>4. ReadString(s, at1, MaxStringLength) = Failed("BadEncodingLimitsExceeded", at1)
    <3>1. Standing(WriteString(e.uri), s, at1)
      BY <1>5, <2>1
    <3> HIDE DEF at1
    <3> QED BY <1>1, <1>8, <2>3, <3>1, StringRefused, StringLimitAssumption
  <2> HIDE DEF at1, byte
  <2> QED BY <1>6, <2>1, <2>2, <2>4 DEF ReadExpandedNodeId, Good, Failed
<1> QED BY <1>7, <1>8

----------------------------------------------------------------------------
(* Sizes.                                                                   *)

\* The number of bytes of a message: a cell has its width, and a message as
\* many as its parts together.
Counts(bytes) ==
  /\ bytes \in [Seq(Cells) -> Int]
  /\ bytes[<< >>] = 0
  /\ \A c \in Cells : bytes[<< c >>] = c.w
  /\ \A a, b \in Seq(Cells) : bytes[a \o b] = bytes[a] + bytes[b]

LEMMA CellAnd ==
  ASSUME NEW bytes, Counts(bytes), NEW c \in Cells, NEW m \in Seq(Cells)
  PROVE  bytes[<< c >> \o m] = c.w + bytes[m]
<1>1. << c >> \in Seq(Cells)
  OBVIOUS
<1>2. bytes[<< c >> \o m] = bytes[<< c >>] + bytes[m]
  BY <1>1 DEF Counts
<1> QED BY <1>2 DEF Counts

LEMMA TwoCells ==
  ASSUME NEW bytes, Counts(bytes), NEW c \in Cells, NEW d \in Cells
  PROVE  bytes[<< c, d >>] = c.w + d.w
<1>1. << d >> \in Seq(Cells)
  OBVIOUS
<1>2. << c, d >> = << c >> \o << d >>
  <2> DEFINE m == << c >> \o << d >>
             t == << c, d >>
  <2>1. m \in Seq(Cells) /\ Len(m) = 2 /\ m[1] = c /\ m[2] = d
    OBVIOUS
  <2>2. t \in Seq(Cells) /\ Len(t) = 2 /\ t[1] = c /\ t[2] = d
    OBVIOUS
  <2> HIDE DEF m, t
  <2>3. \A i \in 1 .. Len(t) : t[i] = m[i]
    BY <2>1, <2>2
  <2>4. t = m
    BY <2>1, <2>2, <2>3, SeqEqual
  <2> QED BY <2>4 DEF m, t
<1>3. bytes[<< c >> \o << d >>] = c.w + bytes[<< d >>]
  BY <1>1, CellAnd
<1> QED BY <1>2, <1>3 DEF Counts

\* However a value is narrowed, its cell has the width it is written in.
LEMMA CellWidth ==
  ASSUME NEW w \in Int, NEW v \in Int
  PROVE  Cell(w, v) \in Cells /\ Cell(w, v).w = w
BY CellType DEF Cell

LEMMA StringSize ==
  ASSUME NEW bytes, Counts(bytes), NEW str \in Strings
  PROVE  bytes[WriteString(str)] = StringGetSize(str)
<1>1. str.len \in Int /\ str.txt \in Int
  BY DEF Strings
<1>2. Cell(4, str.len) \in Cells /\ Cell(4, str.len).w = 4
  BY <1>1, CellWidth
<1>3. [w |-> str.len, v |-> str.txt] \in Cells
  BY <1>1 DEF Cells
<1>4. CASE str.len <= 0
  BY <1>1, <1>2, <1>4 DEF WriteString, StringGetSize, Counts
<1>5. CASE str.len > 0
  <2>1. WriteString(str) = << Cell(4, str.len), [w |-> str.len, v |-> str.txt] >>
    BY <1>1, <1>5 DEF WriteString
  <2>2. bytes[WriteString(str)] = 4 + str.len
    BY <1>2, <1>3, <2>1, TwoCells
  <2> QED BY <1>5, <2>2 DEF StringGetSize
<1> QED BY <1>1, <1>4, <1>5

LEMMA BodySize ==
  ASSUME NEW bytes, Counts(bytes), NEW n \in NodeId, NEW byte \in Nat,
         TypeOf(byte) = GetEncodingType(n)
  PROVE  1 + bytes[WriteNodeIdBody(n, byte)] = NodeIdGetSize(n, byte)
<1> DEFINE ns == WrittenNs(n, byte)
           t  == TypeOf(byte)
<1>1. /\ Cell(1, ns) \in Cells /\ Cell(1, ns).w = 1
      /\ Cell(2, ns) \in Cells /\ Cell(2, ns).w = 2
  <2>1. ns \in Int
    BY DEF NodeId, WrittenNs, UInt16
  <2> QED BY <2>1, CellWidth
<1>2. CASE t \in {StringForm, ByteString}
  <2>1. n.id \in Strings
    BY <1>2 DEF NodeId, GetEncodingType, TwoByte, FourByte, Numeric, StringForm,
                GuidForm, ByteString
  <2>2. WriteNodeIdBody(n, byte) = << Cell(2, ns) >> \o WriteString(n.id)
    BY <1>2 DEF WriteNodeIdBody, WrittenNs, TwoByte, FourByte, Numeric, GuidForm,
                StringForm, ByteString
  <2>3. WriteString(n.id) \in Seq(Cells) /\ bytes[WriteString(n.id)] = StringGetSize(n.id)
    BY <2>1, StringType, StringSize
  <2>4. bytes[WriteNodeIdBody(n, byte)] = 2 + StringGetSize(n.id)
    BY <1>1, <2>2, <2>3, CellAnd
  <2> QED BY <1>2, <2>4 DEF NodeIdGetSize, TwoByte, FourByte, Numeric, GuidForm,
                             StringForm, ByteString
<1>3. CASE t \notin {StringForm, ByteString}
  <2>1. n.id \in Int
    BY <1>3 DEF NodeId, GetEncodingType, StringForm, ByteString
  <2>2. /\ Cell(1, n.id) \in Cells /\ Cell(1, n.id).w = 1
        /\ Cell(2, n.id) \in Cells /\ Cell(2, n.id).w = 2
        /\ Cell(4, n.id) \in Cells /\ Cell(4, n.id).w = 4
        /\ Cell(16, n.id) \in Cells /\ Cell(16, n.id).w = 16
    BY <2>1, CellWidth
  <2>3. t \in {TwoByte, FourByte, Numeric, GuidForm}
    BY <1>3 DEF GetEncodingType
  <2>4. CASE t = TwoByte
    <3>1. bytes[<< Cell(1, n.id) >>] = 1
      BY <2>2 DEF Counts
    <3> QED BY <2>4, <3>1 DEF WriteNodeIdBody, NodeIdGetSize
  <2>5. CASE t = FourByte
    <3>1. bytes[<< Cell(1, ns), Cell(2, n.id) >>] = 1 + 2
      BY <1>1, <2>2, TwoCells
    <3> QED BY <2>5, <3>1 DEF WriteNodeIdBody, WrittenNs, NodeIdGetSize, TwoByte, FourByte
  <2>6. CASE t = Numeric
    <3>1. bytes[<< Cell(2, ns), Cell(4, n.id) >>] = 2 + 4
      BY <1>1, <2>2, TwoCells
    <3> QED BY <2>6, <3>1 DEF WriteNodeIdBody, WrittenNs, NodeIdGetSize, TwoByte, FourByte,
                               Numeric
  <2>7. CASE t = GuidForm
    <3>1. bytes[<< Cell(2, ns), Cell(16, n.id) >>] = 2 + 16
      BY <1>1, <2>2, TwoCells
    <3> QED BY <2>7, <3>1 DEF WriteNodeIdBody, WrittenNs, NodeIdGetSize, TwoByte, FourByte,
                               Numeric, GuidForm
  <2> QED BY <2>3, <2>4, <2>5, <2>6, <2>7
<1> QED BY <1>2, <1>3

\* The encoder computes the size of a NodeId exactly, in every one of its forms
\* (OpcUa_BinaryEncoder_NodeIdGetSize against WriteNodeId).
THEOREM NodeIdSizeExact ==
  ASSUME NEW bytes, Counts(bytes), NEW n \in NodeId
  PROVE  bytes[WriteNodeId(n)] = NodeIdGetSize(n, GetEncodingType(n))
<1> DEFINE byte == GetEncodingType(n)
           body == WriteNodeIdBody(n, byte)
<1>1. byte \in Nat /\ byte \in Int /\ TypeOf(byte) = byte
  <2>1. byte \in 0..5
    BY EncodingTypes
  <2>2. byte + 0 + 0 = byte
    BY <2>1
  <2> QED BY <2>1, <2>2, EncodingByte
<1>2. Cell(1, byte) \in Cells /\ Cell(1, byte).w = 1
  BY <1>1, CellWidth
<1>3. body \in Seq(Cells)
  BY <1>1, BodyType
<1>4. 1 + bytes[body] = NodeIdGetSize(n, byte)
  BY <1>1, BodySize
<1>5. WriteNodeId(n) = << Cell(1, byte) >> \o body
  BY DEF WriteNodeId
<1> HIDE DEF byte, body
<1>6. bytes[WriteNodeId(n)] = 1 + bytes[body]
  BY <1>2, <1>3, <1>5, CellAnd
<1> QED BY <1>4, <1>6 DEF byte

\* And that of an ExpandedNodeId, with or without a URI and a server index
\* (ExpandedNodeIdGetSize).
THEOREM ExpandedNodeIdSizeExact ==
  ASSUME NEW bytes, Counts(bytes), NEW e \in ExpandedNodeId
  PROVE  bytes[WriteExpandedNodeId(e)] = ExpandedNodeIdGetSize(e)
<1> DEFINE byte   == ExpandedByte(e)
           body   == WriteNodeIdBody(e.node, byte)
           uri    == IF HasUri(byte) THEN WriteString(e.uri) ELSE << >>
           server == IF HasServerIndex(byte) THEN << Cell(4, e.server) >> ELSE << >>
<1>1. e.node \in NodeId /\ e.uri \in Strings /\ e.server \in Nat /\ e.uri.len \in Int
  BY DEF ExpandedNodeId, Strings
<1>2. byte \in Nat /\ byte \in Int /\ TypeOf(byte) = GetEncodingType(e.node)
  BY <1>1, ExpandedFlags
<1>3. Cell(1, byte) \in Cells /\ Cell(1, byte).w = 1
  BY <1>2, CellWidth
<1>4. body \in Seq(Cells) /\ 1 + bytes[body] = NodeIdGetSize(e.node, byte)
  BY <1>1, <1>2, BodyType, BodySize
<1>5. uri \in Seq(Cells) /\ bytes[uri] = IF HasUri(byte) THEN StringGetSize(e.uri) ELSE 0
  <2>1. WriteString(e.uri) \in Seq(Cells) /\ bytes[WriteString(e.uri)] = StringGetSize(e.uri)
    BY <1>1, StringType, StringSize
  <2>2. << >> \in Seq(Cells) /\ bytes[<< >>] = 0
    BY DEF Counts
  <2> QED BY <2>1, <2>2
<1>6. server \in Seq(Cells) /\ bytes[server] = IF HasServerIndex(byte) THEN 4 ELSE 0
  <2>1. Cell(4, e.server) \in Cells /\ Cell(4, e.server).w = 4
    BY <1>1, CellWidth
  <2>2. << Cell(4, e.server) >> \in Seq(Cells) /\ bytes[<< Cell(4, e.server) >>] = 4
    BY <2>1 DEF Counts
  <2>3. << >> \in Seq(Cells) /\ bytes[<< >>] = 0
    BY DEF Counts
  <2> QED BY <2>2, <2>3
<1>7. WriteExpandedNodeId(e) = ((<< Cell(1, byte) >> \o body) \o uri) \o server
  BY DEF WriteExpandedNodeId
<1>8. ExpandedNodeIdGetSize(e)
        = NodeIdGetSize(e.node, byte) + (IF HasUri(byte) THEN StringGetSize(e.uri) ELSE 0)
            + (IF HasServerIndex(byte) THEN 4 ELSE 0)
  BY DEF ExpandedNodeIdGetSize
<1> DEFINE front == << Cell(1, byte) >> \o body
<1>9. front \in Seq(Cells) /\ bytes[front] = 1 + bytes[body]
  <2> HIDE DEF body
  <2>1. << Cell(1, byte) >> \in Seq(Cells)
    BY <1>3
  <2> QED BY <1>3, <1>4, <2>1, Concatenation, CellAnd
<1>10. bytes[(front \o uri) \o server] = bytes[front] + bytes[uri] + bytes[server]
  <2> HIDE DEF front, uri, server
  <2>1. front \o uri \in Seq(Cells)
    BY <1>5, <1>9, Concatenation
  <2>2. bytes[(front \o uri) \o server] = bytes[front \o uri] + bytes[server]
    BY <1>6, <2>1 DEF Counts
  <2>3. bytes[front \o uri] = bytes[front] + bytes[uri]
    BY <1>5, <1>9 DEF Counts
  <2> QED BY <2>2, <2>3
<1> HIDE DEF byte, body, uri, server
<1> QED BY <1>4, <1>5, <1>6, <1>7, <1>8, <1>9, <1>10
=============================================================================
