------------------------------ MODULE RestCodec ------------------------------
(***************************************************************************)
(* How the classes of the generated REST client read a JSON object         *)
(* (from_dict) and write one (to_dict).                                    *)
(*                                                                         *)
(* Every generated class follows the same few patterns, field by field.    *)
(* A class is described by its fields and by what it does with the keys it *)
(* does not declare; the catalogue modules (Rest*Schemas) hold that        *)
(* description for each class.  A JSON object is a function from its keys  *)
(* to values, of which only what the patterns tell apart is kept:          *)
(*                                                                         *)
(*   "null"           null; None in Python                                 *)
(*   "zero"           the number 0                                         *)
(*   "empty"          an empty list                                        *)
(*   "full", "other"  two values of the field's type, of which the class   *)
(*                    of the value writes back what it has read            *)
(*   "partial"        a value of the field's type of which that class      *)
(*                    writes back something else, "filled"                 *)
(*   "odd"            a value the field's type refuses: a constant the     *)
(*                    enumeration does not know, a text that is no date,   *)
(*                    a number where an object or a list is expected       *)
(***************************************************************************)

JsonValues == {"null", "zero", "empty", "full", "other", "partial", "filled", "odd"}

\* types.py: an attribute nobody has given a value
UNSET == "UNSET"

\* What `if value` and `value or []` take for false.
Falsy == {"null", "zero", "empty", UNSET}

Shapes == {"any", "model", "enum", "date", "list"}

\* needed:   read with d.pop(key), always written
\* nullable: None is read from null and written as null
\* zero:     the enumeration has a constant that is falsy
\* preset:   the constructor's default is a value, not UNSET
\* of:       the class of a model, or of the items of a list
FieldTypes == [shape : Shapes, needed : BOOLEAN, nullable : BOOLEAN,
               zero : BOOLEAN, preset : BOOLEAN, of : STRING]

Field(shape) == [shape |-> shape, needed |-> FALSE, nullable |-> FALSE,
                 zero |-> FALSE, preset |-> FALSE, of |-> ""]

-----------------------------------------------------------------------------
(* The patterns, by the keys that follow them. *)

Each(keys, field) == [k \in keys |-> field]

Plain(keys)         == Each(keys, [Field("any") EXCEPT !.nullable = TRUE])
PlainNeeded(keys)   == Each(keys, [Field("any") EXCEPT !.nullable = TRUE, !.needed = TRUE])
PlainPreset(keys)   == Each(keys, [Field("any") EXCEPT !.nullable = TRUE, !.preset = TRUE])
Model(c, keys)      == Each(keys, [Field("model") EXCEPT !.nullable = TRUE, !.of = c])
ModelNeeded(c, keys) == Each(keys, [Field("model") EXCEPT !.needed = TRUE, !.of = c])
Enum(keys)          == Each(keys, Field("enum"))
EnumNeeded(keys)    == Each(keys, [Field("enum") EXCEPT !.needed = TRUE])
EnumPreset(keys)    == Each(keys, [Field("enum") EXCEPT !.preset = TRUE])
EnumOrNull(keys)    == Each(keys, [Field("enum") EXCEPT !.nullable = TRUE])
EnumZero(keys)      == Each(keys, [Field("enum") EXCEPT !.zero = TRUE])
EnumZeroOrNull(keys) == Each(keys, [Field("enum") EXCEPT !.zero = TRUE, !.nullable = TRUE])
Date(keys)          == Each(keys, Field("date"))
DateOrNull(keys)    == Each(keys, [Field("date") EXCEPT !.nullable = TRUE])
\* Lists whose items are read and written one by one
ModelList(c, keys)       == Each(keys, [Field("list") EXCEPT !.nullable = TRUE, !.of = c])
ModelListStrict(c, keys) == Each(keys, [Field("list") EXCEPT !.of = c])
ModelListNeeded(c, keys) == Each(keys, [Field("list") EXCEPT !.needed = TRUE, !.of = c])
ItemList(keys)           == Each(keys, [Field("list") EXCEPT !.nullable = TRUE])
ItemListStrict(keys)     == Each(keys, Field("list"))
ItemListNeeded(keys)     == Each(keys, [Field("list") EXCEPT !.needed = TRUE])

NoFields == Each({}, Field("any"))

\* Classes that drop undeclared keys, keep them in additional_properties, or
\* read each of them as a constant, or as a list of constants.
Closed(fields) == [fields |-> fields, rest |-> "closed"]
Open(fields)   == [fields |-> fields, rest |-> "open"]
MapOfEnums     == [fields |-> NoFields, rest |-> "enum"]
MapOfEnumLists == [fields |-> NoFields, rest |-> "list"]

\* What no pattern combines: a list that has to be there is never null, and
\* only a constant of an enumeration can be falsy.
IsPattern(f) ==
  /\ f \in FieldTypes
  /\ f.shape = "list" => ~(f.needed /\ f.nullable)
  /\ f.zero => f.shape = "enum"

IsSchema(c) ==
  /\ c.rest \in {"closed", "open", "enum", "list"}
  /\ c = [fields |-> c.fields, rest |-> c.rest]
  /\ c.fields = [k \in DOMAIN c.fields |-> c.fields[k]]
  /\ \A k \in DOMAIN c.fields : IsPattern(c.fields[k])

Keys(c) == DOMAIN c.fields

\* A JSON object, and a Python object of a class: its attributes and its
\* additional_properties
IsDocument(d) == d = [k \in DOMAIN d |-> d[k]] /\ \A k \in DOMAIN d : d[k] \in JsonValues

IsObject(c, o) ==
  /\ o = [attrs |-> o.attrs, more |-> o.more]
  /\ o.attrs \in [Keys(c) -> JsonValues \cup {UNSET}]
  /\ IsDocument(o.more)

-----------------------------------------------------------------------------
(* from_dict *)

\* The values the type of a field takes without an exception.
OfItsType(f, v) ==
  \/ v \in {"full", "other", "partial", "filled"}
  \/ v = "zero" /\ f.zero
  \/ v = "empty" /\ f.shape = "list"

\* mutant: null is skipped for every type but a list
ReadableOrNull(f, v) ==
  \/ f.shape \in {"any", "list"} /\ ~f.needed
  \/ f.shape # "list" /\ v = "null"
  \/ OfItsType(f, v)

Readable(f, v) ==
  \/ f.shape = "any"
  \/ f.shape = "list" /\ ~f.needed /\ v \in Falsy
  \/ f.shape # "list" /\ f.nullable /\ v = "null"
  \/ OfItsType(f, v)

\* mutant: d.pop(key) without a default for every attribute
UnreadableWithoutDefault(c, d) ==
  {k \in Keys(c) : IF k \in DOMAIN d THEN ~Readable(c.fields[k], d[k]) ELSE TRUE}

\* The keys at which from_dict raises, declared and, where each of the others
\* is read, undeclared.
UnreadableKeys(c, d) ==
  {k \in Keys(c) : IF k \in DOMAIN d THEN ~Readable(c.fields[k], d[k]) ELSE c.fields[k].needed}
  \cup {k \in DOMAIN d \ Keys(c) : c.rest \in {"enum", "list"} /\ ~OfItsType(Field(c.rest), d[k])}

\* from_dict gets to its end: one field that cannot be read loses the object.
CanRead(c, d) == UnreadableKeys(c, d) = {}

\* mutant: a list the service left out stays unset
ReadFieldKeepsUnset(f, d, k) == IF k \in DOMAIN d THEN d[k] ELSE UNSET

\* mutant: an optional key is not passed on to the constructor
ReadFieldForgets(f, d, k) ==
  IF k \in DOMAIN d /\ (f.needed \/ f.shape # "any") THEN d[k] ELSE UNSET

\* mutant: a list that is left out is empty, one that is null is unset
ReadFieldByDefault(f, d, k) ==
  IF f.shape = "list" /\ ~f.needed
  THEN IF k \notin DOMAIN d THEN "empty" ELSE IF d[k] = "null" THEN UNSET ELSE d[k]
  ELSE IF k \in DOMAIN d THEN d[k] ELSE UNSET

ReadField(f, d, k) ==
  IF f.shape = "list" /\ ~f.needed /\ (k \in DOMAIN d => d[k] \in Falsy)
  THEN "empty"
  ELSE IF k \in DOMAIN d THEN d[k] ELSE UNSET

FromDict(c, d) ==
  [attrs |-> [k \in Keys(c) |-> ReadField(c.fields[k], d, k)],
   more  |-> [k \in IF c.rest = "closed" THEN {} ELSE DOMAIN d \ Keys(c) |-> d[k]]]

\* mutant: None instead of UNSET is the default of the constructor
NewObjectOfNone(c) ==
  [attrs |-> [k \in Keys(c) |-> IF c.fields[k].needed \/ c.fields[k].preset
                                THEN "full" ELSE "null"],
   more  |-> [k \in {} |-> "full"]]

\* The constructor with a value for the needed attributes and nothing else
NewObject(c) ==
  [attrs |-> [k \in Keys(c) |-> IF c.fields[k].needed \/ c.fields[k].preset
                                THEN "full" ELSE UNSET],
   more  |-> [k \in {} |-> "full"]]

-----------------------------------------------------------------------------
(* to_dict *)

AlwaysWritten(f, p) == TRUE                          \* mutant: no test for UNSET
TruthyWritten(f, p) == f.needed \/ p \notin Falsy     \* mutant: `if p` for `p is not UNSET`
IsWritten(f, p) == f.needed \/ p # UNSET

WritableAnyhow(f, p) == TRUE                         \* mutant: None is always passed through

\* None has neither a value nor a to_dict nor items.
Writable(f, p) == p = "null" => f.shape = "any" \/ f.nullable

WriteField(f, p) ==
  IF f.shape \in {"model", "enum", "date"} /\ f.nullable /\ p \in Falsy THEN "null"
  ELSE IF f.of # "" /\ p = "partial" THEN "filled"
  ELSE p

CanWrite(c, o) == {k \in Keys(c) : ~Writable(c.fields[k], o.attrs[k])} = {}

\* additional_properties first, then the declared attributes over them
ToDict(c, o) ==
  LET own == {k \in Keys(c) : IsWritten(c.fields[k], o.attrs[k])}
  IN [k \in own \cup DOMAIN o.more |->
        IF k \in own THEN WriteField(c.fields[k], o.attrs[k]) ELSE o.more[k]]
=============================================================================
