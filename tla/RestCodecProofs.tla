-------------------------- MODULE RestCodecProofs --------------------------
(***************************************************************************)
(* What from_dict and to_dict do to the documents and objects of any class *)
(* the patterns describe.                                                  *)
(***************************************************************************)
EXTENDS RestCodec, TLAPS

\* A field is a record of the type its pattern gives it.
LEMMA FieldParts ==
  ASSUME NEW c, IsSchema(c), NEW k \in Keys(c)
  PROVE  /\ c.fields[k].shape \in Shapes
         /\ c.fields[k].needed \in BOOLEAN
         /\ c.fields[k].nullable \in BOOLEAN
         /\ c.fields[k].zero \in BOOLEAN
         /\ c.fields[k].preset \in BOOLEAN
         /\ c.fields[k].shape = "list" => ~(c.fields[k].needed /\ c.fields[k].nullable)
         /\ c.fields[k].zero => c.fields[k].shape = "enum"
  BY DEF IsSchema, IsPattern, FieldTypes, Keys

(* The members of a document are JSON values. *)
LEMMA DocumentValue ==
  ASSUME NEW d, IsDocument(d), NEW k \in DOMAIN d
  PROVE  d[k] \in JsonValues
  BY DEF IsDocument

\* What from_dict accepts, key by key.
LEMMA ReadableKeys ==
  ASSUME NEW c, IsSchema(c), NEW d, CanRead(c, d)
  PROVE  /\ \A k \in Keys(c) : k \in DOMAIN d => Readable(c.fields[k], d[k])
         /\ \A k \in Keys(c) : c.fields[k].needed => k \in DOMAIN d
         /\ \A k \in DOMAIN d \ Keys(c) :
              c.rest \in {"enum", "list"} => OfItsType(Field(c.rest), d[k])
  BY FieldParts DEF CanRead, UnreadableKeys

(* from_dict accepts a document whose members are readable and complete. *)
LEMMA ReadableFrom ==
  ASSUME NEW c, IsSchema(c), NEW d,
         \A k \in Keys(c) : k \in DOMAIN d => Readable(c.fields[k], d[k]),
         \A k \in Keys(c) : c.fields[k].needed => k \in DOMAIN d,
         \A k \in DOMAIN d \ Keys(c) :
           c.rest \in {"enum", "list"} => OfItsType(Field(c.rest), d[k])
  PROVE  CanRead(c, d)
  BY FieldParts DEF CanRead, UnreadableKeys

\* What from_dict makes of a document it accepts.
IsMadeOf(c, d, o) ==
  /\ IsObject(c, o)
  /\ \A k \in Keys(c) : o.attrs[k] = ReadField(c.fields[k], d, k)
  /\ \A k \in Keys(c) : c.fields[k].needed => o.attrs[k] # UNSET
  /\ DOMAIN o.more = IF c.rest = "closed" THEN {} ELSE DOMAIN d \ Keys(c)
  /\ \A k \in DOMAIN o.more : o.more[k] = d[k]

(* What from_dict builds is an object of the class, made of the document it read. *)
LEMMA FromDictParts ==
  ASSUME NEW c, IsSchema(c), NEW d, IsDocument(d), CanRead(c, d)
  PROVE  IsMadeOf(c, d, FromDict(c, d))
<1>1. \A k \in Keys(c) : ReadField(c.fields[k], d, k) \in JsonValues \cup {UNSET}
  BY DocumentValue DEF ReadField, JsonValues
<1>2. \A k \in Keys(c) : c.fields[k].needed => ReadField(c.fields[k], d, k) \in JsonValues
  BY DocumentValue, ReadableKeys DEF ReadField, JsonValues
<1>3. \A v \in JsonValues : v # UNSET
  BY DEF JsonValues, UNSET
<1> DEFINE attrs == [k \in Keys(c) |-> ReadField(c.fields[k], d, k)]
           more == [k \in IF c.rest = "closed" THEN {} ELSE DOMAIN d \ Keys(c) |-> d[k]]
<1>4. FromDict(c, d) = [attrs |-> attrs, more |-> more]
  BY DEF FromDict
<1>5. attrs \in [Keys(c) -> JsonValues \cup {UNSET}]
  BY <1>1
<1>6. IsDocument(more)
  BY DocumentValue DEF IsDocument
<1>7. QED
  BY <1>2, <1>3, <1>4, <1>5, <1>6 DEF IsObject, IsMadeOf

\* The constructor's object.
LEMMA NewObjectParts ==
  ASSUME NEW c, IsSchema(c)
  PROVE  /\ IsObject(c, NewObject(c))
         /\ \A k \in Keys(c) :
              NewObject(c).attrs[k] = IF c.fields[k].needed \/ c.fields[k].preset
                                      THEN "full" ELSE UNSET
         /\ \A k \in Keys(c) : c.fields[k].needed => NewObject(c).attrs[k] # UNSET
         /\ DOMAIN NewObject(c).more = {}
<1> DEFINE attrs == [k \in Keys(c) |-> IF c.fields[k].needed \/ c.fields[k].preset
                                       THEN "full" ELSE UNSET]
           more == [k \in {} |-> "full"]
<1>1. NewObject(c) = [attrs |-> attrs, more |-> more]
  BY DEF NewObject
<1>2. attrs \in [Keys(c) -> JsonValues \cup {UNSET}]
  BY DEF JsonValues
<1>3. IsDocument(more)
  BY DEF IsDocument
<1>4. QED
  BY <1>1, <1>2, <1>3 DEF IsObject, UNSET

\* What to_dict writes of an object, key by key.
LEMMA ToDictParts ==
  ASSUME NEW c, IsSchema(c), NEW o, IsObject(c, o)
  PROVE  /\ ToDict(c, o) = [k \in DOMAIN ToDict(c, o) |-> ToDict(c, o)[k]]
         /\ \A k \in DOMAIN ToDict(c, o) :
              \/ k \in DOMAIN o.more
              \/ k \in Keys(c) /\ IsWritten(c.fields[k], o.attrs[k])
         /\ \A k \in Keys(c) : IsWritten(c.fields[k], o.attrs[k]) =>
              /\ k \in DOMAIN ToDict(c, o)
              /\ ToDict(c, o)[k] = WriteField(c.fields[k], o.attrs[k])
         /\ \A k \in DOMAIN o.more : k \in DOMAIN ToDict(c, o)
         /\ \A k \in DOMAIN o.more :
              ~(k \in Keys(c) /\ IsWritten(c.fields[k], o.attrs[k])) =>
                ToDict(c, o)[k] = o.more[k]
<1> DEFINE own == {k \in Keys(c) : IsWritten(c.fields[k], o.attrs[k])}
<1>1. ToDict(c, o) = [k \in own \cup DOMAIN o.more |->
          IF k \in own THEN WriteField(c.fields[k], o.attrs[k]) ELSE o.more[k]]
  BY DEF ToDict
<1>2. QED
  BY <1>1

\* An object whose needed attributes have values is written as a document.
LEMMA ToDictIsDocument ==
  ASSUME NEW c, IsSchema(c), NEW o, IsObject(c, o),
         \A k \in Keys(c) : c.fields[k].needed => o.attrs[k] # UNSET
  PROVE  IsDocument(ToDict(c, o))
<1>1. ASSUME NEW k \in Keys(c), IsWritten(c.fields[k], o.attrs[k])
      PROVE  WriteField(c.fields[k], o.attrs[k]) \in JsonValues
  <2>1. o.attrs[k] \in JsonValues
    BY <1>1 DEF IsObject, IsWritten
  <2>2. QED
    BY <2>1 DEF WriteField, JsonValues
<1>2. \A k \in DOMAIN o.more : o.more[k] \in JsonValues
  BY DEF IsObject, IsDocument
<1>3. QED
  BY <1>1, <1>2, ToDictParts DEF IsDocument

\* What to_dict makes of a value the field can have is read again.
LEMMA WrittenValue ==
  ASSUME NEW c, IsSchema(c), NEW k \in Keys(c), NEW a, Writable(c.fields[k], a),
         \/ Readable(c.fields[k], a)
         \/ a = "zero" /\ c.fields[k].zero
         \/ a \in {"null", "full", "other"}
         \/ a = "empty" /\ c.fields[k].shape = "list"
  PROVE  Readable(c.fields[k], WriteField(c.fields[k], a))
<1> DEFINE f == c.fields[k]
<1>1. /\ f.shape \in Shapes
      /\ f.shape = "list" => ~(f.needed /\ f.nullable)
      /\ f.zero => f.shape = "enum"
      /\ f.zero \in BOOLEAN /\ f.nullable \in BOOLEAN /\ f.needed \in BOOLEAN
  BY FieldParts
<1>2. \/ Readable(f, a)
      \/ a = "zero" /\ f.zero
      \/ a \in {"null", "full", "other"}
      \/ a = "empty" /\ f.shape = "list"
  OBVIOUS
<1>3. Writable(f, a)
  OBVIOUS
<1> HIDE DEF f
<1>4. Readable(f, WriteField(f, a))
  <2>1. CASE f.shape \in {"model", "enum", "date"} /\ f.nullable /\ a \in Falsy
    BY <2>1 DEF WriteField, Readable
  <2>2. CASE f.of # "" /\ a = "partial"
    BY <2>2 DEF WriteField, Readable, OfItsType, Falsy, UNSET
  <2>3. CASE WriteField(f, a) = a
    BY <1>1, <1>2, <1>3, <2>3 DEF Writable, Readable, OfItsType, Shapes, Falsy
  <2>4. QED
    BY <2>1, <2>2, <2>3 DEF WriteField
<1>5. QED
  BY <1>4 DEF f

\* An object that was read can be written.
LEMMA ReadIsWritable ==
  ASSUME NEW c, IsSchema(c), NEW d, IsDocument(d), CanRead(c, d), NEW k \in Keys(c)
  PROVE  Writable(c.fields[k], FromDict(c, d).attrs[k])
<1> DEFINE f == c.fields[k]
           a == FromDict(c, d).attrs[k]
<1>1. a = ReadField(f, d, k)
  <2>1. IsMadeOf(c, d, FromDict(c, d))
    BY FromDictParts
  <2>2. QED
    BY <2>1 DEF IsMadeOf
<1>2. k \in DOMAIN d => Readable(f, d[k])
  BY ReadableKeys
<1> HIDE DEF a
<1>3. QED
  BY <1>1, <1>2 DEF ReadField, Readable, OfItsType, Writable, Falsy, UNSET, a

\* What was read and written is read again.
THEOREM ReadBack ==
  ASSUME NEW c, IsSchema(c), NEW d, IsDocument(d), CanRead(c, d)
  PROVE  CanRead(c, ToDict(c, FromDict(c, d)))
<1> DEFINE o == FromDict(c, d)
           e == ToDict(c, o)
<1>1. IsMadeOf(c, d, o)
  BY FromDictParts
<1>2. \A k \in Keys(c) : Writable(c.fields[k], o.attrs[k])
  BY ReadIsWritable
<1> HIDE DEF o
<1>3. /\ \A k \in DOMAIN e : \/ k \in DOMAIN o.more
                             \/ k \in Keys(c) /\ IsWritten(c.fields[k], o.attrs[k])
      /\ \A k \in Keys(c) : IsWritten(c.fields[k], o.attrs[k]) =>
           k \in DOMAIN e /\ e[k] = WriteField(c.fields[k], o.attrs[k])
      /\ \A k \in DOMAIN o.more :
           ~(k \in Keys(c) /\ IsWritten(c.fields[k], o.attrs[k])) => e[k] = o.more[k]
  BY <1>1, ToDictParts DEF IsMadeOf
<1> HIDE DEF e
<1>4. ASSUME NEW k \in Keys(c), k \in DOMAIN e
      PROVE  Readable(c.fields[k], e[k])
  <2> DEFINE f == c.fields[k]
             a == o.attrs[k]
  <2>1. k \notin DOMAIN o.more
    BY <1>1 DEF IsMadeOf
  <2>2. IsWritten(f, a) /\ e[k] = WriteField(f, a)
    BY <1>3, <1>4, <2>1
  <2>3. a # UNSET /\ a = ReadField(f, d, k)
    BY <1>1, <2>2 DEF IsMadeOf, IsWritten
  <2>4. Readable(f, a) \/ (a = "empty" /\ f.shape = "list")
    BY <2>3, ReadableKeys DEF ReadField
  <2>5. QED
    BY <1>2, <2>2, <2>4, WrittenValue
<1>5. ASSUME NEW k \in Keys(c), c.fields[k].needed
      PROVE  k \in DOMAIN e
  BY <1>3, <1>5 DEF IsWritten
<1>6. ASSUME NEW k \in DOMAIN e \ Keys(c), c.rest \in {"enum", "list"}
      PROVE  OfItsType(Field(c.rest), e[k])
  <2>1. k \in DOMAIN o.more /\ e[k] = o.more[k]
    BY <1>3
  <2>2. k \in DOMAIN d \ Keys(c) /\ o.more[k] = d[k]
    BY <1>1, <2>1 DEF IsMadeOf
  <2>3. QED
    BY <1>6, <2>1, <2>2, ReadableKeys
<1>7. QED
  BY <1>4, <1>5, <1>6, ReadableFrom DEF o, e

\* What the constructor makes is read again once it is written.
THEOREM NewReadBack ==
  ASSUME NEW c, IsSchema(c)
  PROVE  CanRead(c, ToDict(c, NewObject(c)))
<1> DEFINE o == NewObject(c)
           e == ToDict(c, o)
<1>1. /\ IsObject(c, o)
      /\ \A k \in Keys(c) : o.attrs[k] \in {"full", UNSET}
      /\ \A k \in Keys(c) : c.fields[k].needed => o.attrs[k] # UNSET
      /\ DOMAIN o.more = {}
  BY NewObjectParts
<1> HIDE DEF o
<1>2. /\ \A k \in DOMAIN e : k \in Keys(c) /\ IsWritten(c.fields[k], o.attrs[k])
      /\ \A k \in Keys(c) : IsWritten(c.fields[k], o.attrs[k]) =>
           k \in DOMAIN e /\ e[k] = WriteField(c.fields[k], o.attrs[k])
  BY <1>1, ToDictParts
<1> HIDE DEF e
<1>3. ASSUME NEW k \in Keys(c), k \in DOMAIN e
      PROVE  Readable(c.fields[k], e[k])
  <2>1. o.attrs[k] = "full" /\ e[k] = WriteField(c.fields[k], "full")
    BY <1>1, <1>2, <1>3 DEF IsWritten
  <2>2. QED
    BY <2>1 DEF WriteField, Readable, OfItsType, Falsy, UNSET
<1>4. ASSUME NEW k \in Keys(c), c.fields[k].needed
      PROVE  k \in DOMAIN e
  BY <1>2, <1>4 DEF IsWritten
<1>5. QED
  BY <1>2, <1>3, <1>4, ReadableFrom DEF o, e
=============================================================================
