--------------------------- MODULE RestEditProofs ---------------------------
(***************************************************************************)
(* Proofs about RestEdit, for every set of classes, documents, programs    *)
(* and changes.                                                            *)
(***************************************************************************)
EXTENDS RestEdit, RestCodecProofs

-----------------------------------------------------------------------------

(* The document with no members is a document. *)
LEMMA NothingIsDocument == IsDocument(Nothing) /\ DOMAIN Nothing = {}
  BY DEF IsDocument, Nothing

-----------------------------------------------------------------------------
(* The inductive invariant: where the object of a program comes from.        *)

\* The object as it was before the program has changed anything
Start(c, w, d) == IF w = "read" THEN FromDict(c, d) ELSE NewObject(c)

\* The object o is what it was at the start, but for the attributes s and the
\* items t the program has set.
Tracks(c, w, d, o, s, t) ==
  /\ w \in {"read", "built"}
  /\ w = "read" => CanRead(c, d)
  /\ IsObject(c, o)
  /\ DOMAIN s \subseteq Keys(c)
  /\ \A k \in DOMAIN s : /\ s[k] \in {"other", "null", "zero", UNSET}
                         /\ MayHold(c.fields[k], s[k])
                         /\ o.attrs[k] = s[k]
  /\ \A k \in Keys(c) : k \notin DOMAIN s => o.attrs[k] = Start(c, w, d).attrs[k]
  /\ DOMAIN o.more = DOMAIN Start(c, w, d).more \cup DOMAIN t
  /\ \A k \in DOMAIN t : t[k] \in {"other", "null", "zero"} /\ o.more[k] = t[k]
  /\ \A k \in DOMAIN o.more : k \notin DOMAIN t => o.more[k] = Start(c, w, d).more[k]
  /\ DOMAIN t # {} => c.rest = "open"

Functions ==
  /\ pc = [p \in Running |-> pc[p]]
  /\ way = [p \in Running |-> way[p]]
  /\ seen = [p \in Running |-> seen[p]]
  /\ obj = [p \in Running |-> obj[p]]
  /\ set = [p \in Running |-> set[p]]
  /\ put = [p \in Running |-> put[p]]
  /\ sent = [p \in Running |-> sent[p]]

\* What holds of one program
Sound(c, at, w, d, o, s, t, e) ==
  /\ at \in {"idle", "answered", "unreadable", "editing", "unwritable", "sent", "done"}
  /\ w \in {"none", "read", "built"}
  /\ IsDocument(d)
  /\ IsDocument(e)
  /\ at = "answered" => w = "read"
  /\ at \in {"idle", "answered"} => s = Nothing /\ t = Nothing
  /\ at \in {"editing", "sent", "done", "unwritable"} => Tracks(c, w, d, o, s, t)
  /\ at \in {"sent", "done"} => CanWrite(c, o) /\ e = ToDict(c, o)
  /\ at = "unwritable" => ~CanWrite(c, o)

SoundProgram(p) == Sound(Class, pc[p], way[p], seen[p], obj[p], set[p], put[p], sent[p])

IInv ==
  /\ cls \in DOMAIN Classes
  /\ IsDocument(held)
  /\ Functions
  /\ \A p \in Running : SoundProgram(p)

-----------------------------------------------------------------------------
(* How an object changes                                                    *)

\* An object that has just been read or built is tracked, with nothing set so far.
LEMMA TracksFromStart ==
  ASSUME NEW c, IsSchema(c), NEW d, IsDocument(d), NEW w \in {"read", "built"},
         w = "read" => CanRead(c, d)
  PROVE  Tracks(c, w, d, Start(c, w, d), Nothing, Nothing)
<1>1. IsObject(c, Start(c, w, d))
  BY FromDictParts, NewObjectParts DEF Start, IsMadeOf
<1>2. DOMAIN Nothing = {}
  BY NothingIsDocument
<1>3. QED
  BY <1>1, <1>2 DEF Tracks

(* Setting a declared attribute keeps the object in step with what the program set. *)
LEMMA TracksAttribute ==
  ASSUME NEW c, IsSchema(c), NEW w, NEW d, NEW o, NEW s, NEW t, Tracks(c, w, d, o, s, t),
         NEW k \in Keys(c), NEW v \in {"other", "null", "zero", UNSET},
         MayHold(c.fields[k], v)
  PROVE  Tracks(c, w, d, [o EXCEPT !.attrs = With(@, k, v)], With(s, k, v), t)
<1> DEFINE a == With(o.attrs, k, v)
           n == [o EXCEPT !.attrs = With(@, k, v)]
<1>1. IsObject(c, o)
  BY DEF Tracks
<1>2. n.attrs = a /\ n.more = o.more /\ n = [attrs |-> n.attrs, more |-> n.more]
  BY <1>1 DEF IsObject
<1>3. DOMAIN a = Keys(c) /\ a = [x \in DOMAIN a |-> a[x]]
  BY <1>1 DEF IsObject, With
<1>4. a[k] = v /\ \A x \in Keys(c) : x # k => a[x] = o.attrs[x]
  BY <1>1 DEF IsObject, With
<1>5. \A x \in Keys(c) : a[x] \in JsonValues \cup {UNSET}
  <2>1. v \in JsonValues \cup {UNSET}
    BY DEF JsonValues
  <2>2. QED
    BY <1>1, <1>4, <2>1 DEF IsObject
<1> HIDE DEF a, n
<1>6. IsObject(c, n)
  BY <1>1, <1>2, <1>3, <1>5 DEF IsObject
<1>7. DOMAIN With(s, k, v) = DOMAIN s \cup {k} /\ With(s, k, v)[k] = v
      /\ \A x \in DOMAIN s : x # k => With(s, k, v)[x] = s[x]
  BY DEF With
<1>8. Tracks(c, w, d, n, With(s, k, v), t)
  BY <1>2, <1>4, <1>6, <1>7 DEF Tracks
<1>9. QED
  BY <1>8 DEF n

(* Setting an additional property keeps the object in step with what the program put. *)
LEMMA TracksItem ==
  ASSUME NEW c, IsSchema(c), NEW w, NEW d, NEW o, NEW s, NEW t, Tracks(c, w, d, o, s, t),
         c.rest = "open", NEW k, NEW v \in {"other", "null", "zero"}
  PROVE  Tracks(c, w, d, [o EXCEPT !.more = With(@, k, v)], s, With(t, k, v))
<1> DEFINE m == With(o.more, k, v)
           n == [o EXCEPT !.more = With(@, k, v)]
<1>1. IsObject(c, o)
  BY DEF Tracks
<1>2. n.attrs = o.attrs /\ n.more = m /\ n = [attrs |-> n.attrs, more |-> n.more]
  BY <1>1 DEF IsObject
<1>3. /\ DOMAIN m = DOMAIN o.more \cup {k}
      /\ m = [x \in DOMAIN m |-> m[x]]
      /\ m[k] = v
      /\ \A x \in DOMAIN o.more : x # k => m[x] = o.more[x]
  BY DEF With
<1> HIDE DEF m, n
<1>4. IsDocument(m)
  <2>1. v \in JsonValues
    BY DEF JsonValues
  <2>2. QED
    BY <1>1, <1>3, <2>1 DEF IsObject, IsDocument
<1>5. IsObject(c, n)
  BY <1>1, <1>2, <1>4 DEF IsObject
<1>6. DOMAIN With(t, k, v) = DOMAIN t \cup {k} /\ With(t, k, v)[k] = v
      /\ \A x \in DOMAIN t : x # k => With(t, k, v)[x] = t[x]
  BY DEF With
<1>7. Tracks(c, w, d, n, s, With(t, k, v))
  BY <1>2, <1>3, <1>5, <1>6 DEF Tracks
<1>8. QED
  BY <1>7 DEF n

\* A needed attribute always has a value.
LEMMA NeededHasValue ==
  ASSUME NEW c, IsSchema(c), NEW w, NEW d, IsDocument(d), NEW o, NEW s, NEW t,
         Tracks(c, w, d, o, s, t), NEW k \in Keys(c), c.fields[k].needed
  PROVE  o.attrs[k] # UNSET
<1>1. CASE k \in DOMAIN s
  BY <1>1 DEF Tracks, MayHold
<1>2. CASE k \notin DOMAIN s
  <2>1. CASE w = "read"
    <3>1. CanRead(c, d) /\ Start(c, w, d) = FromDict(c, d)
      BY <2>1 DEF Tracks, Start
    <3>2. FromDict(c, d).attrs[k] # UNSET
      BY <3>1, FromDictParts DEF IsMadeOf
    <3>3. QED
      BY <1>2, <3>1, <3>2 DEF Tracks
  <2>2. CASE w # "read"
    <3>1. NewObject(c).attrs[k] # UNSET
      BY NewObjectParts
    <3>2. QED
      BY <1>2, <2>2, <3>1 DEF Tracks, Start
  <2>3. QED
    BY <2>1, <2>2
<1>3. QED
  BY <1>1, <1>2

(* to_dict makes a document of an object that is in step with its program. *)
LEMMA TracksWritten ==
  ASSUME NEW c, IsSchema(c), NEW w, NEW d, IsDocument(d), NEW o, NEW s, NEW t,
         Tracks(c, w, d, o, s, t)
  PROVE  IsDocument(ToDict(c, o))
<1>1. IsObject(c, o)
  BY DEF Tracks
<1>2. QED
  BY <1>1, NeededHasValue, ToDictIsDocument

-----------------------------------------------------------------------------
(* Initiation and the steps                                                 *)

\* The class of the run is one the assumption on the classes is about.
LEMMA ClassIsSchema ==
  ASSUME IInv
  PROVE  IsSchema(Class)
  BY ClassesAssumption DEF IInv, Class

(* The initial states satisfy the invariant. *)
LEMMA InitSound == Init => IInv
<1> SUFFICES ASSUME Init PROVE IInv
  OBVIOUS
<1>1. cls \in DOMAIN Classes /\ IsDocument(held)
  BY DocumentsAssumption DEF Init, IsDocument
<1>2. Functions
  BY DEF Init, Functions
<1>3. ASSUME NEW p \in Running
      PROVE  SoundProgram(p)
  BY NothingIsDocument DEF Init, SoundProgram, Sound
<1>4. QED
  BY <1>1, <1>2, <1>3 DEF IInv

\* A step changes one program only.
LEMMA StepFrame ==
  ASSUME IInv, NEW p \in Running, Step(p)
  PROVE  /\ cls' = cls
         /\ pc' = [pc EXCEPT ![p] = pc'[p]]
         /\ way' = [way EXCEPT ![p] = way'[p]]
         /\ seen' = [seen EXCEPT ![p] = seen'[p]]
         /\ obj' = [obj EXCEPT ![p] = obj'[p]]
         /\ set' = [set EXCEPT ![p] = set'[p]]
         /\ put' = [put EXCEPT ![p] = put'[p]]
         /\ sent' = [sent EXCEPT ![p] = sent'[p]]
<1> USE DEF IInv, Functions
<1>1. CASE Answer(p)
  BY <1>1 DEF Answer
<1>2. CASE Read(p)
  BY <1>2 DEF Read
<1>3. CASE ReadRaises(p)
  BY <1>3 DEF ReadRaises
<1>4. CASE Build(p)
  BY <1>4 DEF Build
<1>5. CASE SetAttribute(p)
  BY <1>5 DEF SetAttribute, MayChange
<1>6. CASE SetItem(p)
  BY <1>6 DEF SetItem, MayChange
<1>7. CASE Write(p)
  BY <1>7 DEF Write
<1>8. CASE WriteRaises(p)
  BY <1>8 DEF WriteRaises
<1>9. CASE Apply(p)
  BY <1>9 DEF Apply
<1>10. QED
  BY <1>1, <1>2, <1>3, <1>4, <1>5, <1>6, <1>7, <1>8, <1>9 DEF Step

(* A step of one program that leaves it sound, and the server with a document, keeps the
   invariant of all. *)
LEMMA OneProgram ==
  ASSUME IInv, NEW p \in Running, Step(p), SoundProgram(p)', IsDocument(held')
  PROVE  IInv'
<1>1. cls' = cls /\ Running' = Running /\ Class' = Class
  BY StepFrame DEF Running, Class
<1>2. Functions'
  BY <1>1, StepFrame DEF IInv, Functions
<1>3. ASSUME NEW q \in Running, q # p
      PROVE  SoundProgram(q)'
  <2>1. /\ pc'[q] = pc[q] /\ way'[q] = way[q] /\ seen'[q] = seen[q] /\ obj'[q] = obj[q]
        /\ set'[q] = set[q] /\ put'[q] = put[q] /\ sent'[q] = sent[q]
    BY <1>3, StepFrame DEF IInv, Functions
  <2>2. Sound(Class, pc[q], way[q], seen[q], obj[q], set[q], put[q], sent[q])
    BY DEF IInv, SoundProgram
  <2>3. QED
    BY <1>1, <2>1, <2>2 DEF SoundProgram
<1>4. cls' \in DOMAIN Classes /\ IsDocument(held')
  BY <1>1 DEF IInv
<1>5. QED
  BY <1>1, <1>2, <1>3, <1>4 DEF IInv

\* What a write leaves at the service is a document.
LEMMA MergedIsDocument ==
  ASSUME NEW c, NEW d, IsDocument(d), NEW e, IsDocument(e)
  PROVE  IsDocument(Merged(c, d, e))
  BY DEF Merged, Mentioned, IsDocument

(* The server's answer keeps its program sound. *)
LEMMA AnswerSound ==
  ASSUME IInv, NEW p \in Running, Answer(p)
  PROVE  SoundProgram(p)' /\ IsDocument(held')
<1>1. PICK out : seen' = [seen EXCEPT ![p] =
                    [k \in DOMAIN held |-> IF k \in out THEN "null" ELSE held[k]]]
  BY DEF Answer
<1> DEFINE d == [k \in DOMAIN held |-> IF k \in out THEN "null" ELSE held[k]]
<1>2. IsDocument(d)
  BY DEF IInv, IsDocument, JsonValues
<1> HIDE DEF d
<1>3. Sound(Class, pc[p], way[p], seen[p], obj[p], set[p], put[p], sent[p]) /\ pc[p] = "idle"
  BY DEF IInv, SoundProgram, Answer
<1>4. Sound(Class, "answered", "read", d, obj[p], set[p], put[p], sent[p])
  BY <1>2, <1>3 DEF Sound
<1>5. seen' = [seen EXCEPT ![p] = d]
  BY <1>1 DEF d
<1>6. IsDocument(held') /\ cls' = cls /\ pc' = [pc EXCEPT ![p] = "answered"]
      /\ way' = [way EXCEPT ![p] = "read"] /\ obj' = obj /\ set' = set /\ put' = put
      /\ sent' = sent
  BY DEF Answer, IInv
<1>7. QED
  BY <1>4, <1>5, <1>6 DEF IInv, Functions, SoundProgram, Class

(* Reading the answer with from_dict keeps the program sound. *)
LEMMA ReadSound ==
  ASSUME IInv, NEW p \in Running, Read(p)
  PROVE  SoundProgram(p)' /\ IsDocument(held')
<1>1. Sound(Class, pc[p], way[p], seen[p], obj[p], set[p], put[p], sent[p])
      /\ pc[p] = "answered" /\ CanRead(Class, seen[p])
  BY DEF IInv, SoundProgram, Read
<1>2. way[p] = "read" /\ IsDocument(seen[p]) /\ set[p] = Nothing /\ put[p] = Nothing
  BY <1>1 DEF Sound
<1>3. Tracks(Class, "read", seen[p], Start(Class, "read", seen[p]), Nothing, Nothing)
  BY <1>1, <1>2, ClassIsSchema, TracksFromStart
<1>4. Tracks(Class, way[p], seen[p], FromDict(Class, seen[p]), set[p], put[p])
  BY <1>2, <1>3 DEF Start
<1>5. Sound(Class, "editing", way[p], seen[p], FromDict(Class, seen[p]), set[p], put[p], sent[p])
  BY <1>1, <1>4 DEF Sound
<1>6. IsDocument(held') /\ cls' = cls /\ pc' = [pc EXCEPT ![p] = "editing"]
      /\ obj' = [obj EXCEPT ![p] = FromDict(Class, seen[p])]
      /\ way' = way /\ seen' = seen /\ set' = set /\ put' = put /\ sent' = sent
  BY DEF Read, IInv
<1>7. QED
  BY <1>5, <1>6 DEF IInv, Functions, SoundProgram, Class

(* A from_dict that raises keeps the program sound. *)
LEMMA ReadRaisesSound ==
  ASSUME IInv, NEW p \in Running, ReadRaises(p)
  PROVE  SoundProgram(p)' /\ IsDocument(held')
<1>1. Sound(Class, pc[p], way[p], seen[p], obj[p], set[p], put[p], sent[p]) /\ pc[p] = "answered"
  BY DEF IInv, SoundProgram, ReadRaises
<1>2. Sound(Class, "unreadable", way[p], seen[p], obj[p], set[p], put[p], sent[p])
  BY <1>1 DEF Sound
<1>3. IsDocument(held') /\ cls' = cls /\ pc' = [pc EXCEPT ![p] = "unreadable"]
      /\ obj' = obj /\ way' = way /\ seen' = seen /\ set' = set /\ put' = put /\ sent' = sent
  BY DEF ReadRaises, IInv
<1>4. QED
  BY <1>2, <1>3 DEF IInv, Functions, SoundProgram, Class

(* Building a bare object keeps the program sound. *)
LEMMA BuildSound ==
  ASSUME IInv, NEW p \in Running, Build(p)
  PROVE  SoundProgram(p)' /\ IsDocument(held')
<1>1. Sound(Class, pc[p], way[p], seen[p], obj[p], set[p], put[p], sent[p]) /\ pc[p] = "idle"
  BY DEF IInv, SoundProgram, Build
<1>2. IsDocument(seen[p]) /\ set[p] = Nothing /\ put[p] = Nothing
  BY <1>1 DEF Sound
<1>3. Tracks(Class, "built", seen[p], Start(Class, "built", seen[p]), Nothing, Nothing)
  BY <1>2, ClassIsSchema, TracksFromStart
<1>4. Tracks(Class, "built", seen[p], NewObject(Class), set[p], put[p])
  BY <1>2, <1>3 DEF Start
<1>5. Sound(Class, "editing", "built", seen[p], NewObject(Class), set[p], put[p], sent[p])
  BY <1>1, <1>4 DEF Sound
<1>6. IsDocument(held') /\ cls' = cls /\ pc' = [pc EXCEPT ![p] = "editing"]
      /\ obj' = [obj EXCEPT ![p] = NewObject(Class)] /\ way' = [way EXCEPT ![p] = "built"]
      /\ seen' = seen /\ set' = set /\ put' = put /\ sent' = sent
  BY DEF Build, IInv
<1>7. QED
  BY <1>5, <1>6 DEF IInv, Functions, SoundProgram, Class

(* Assigning a declared attribute keeps the program sound. *)
LEMMA SetAttributeSound ==
  ASSUME IInv, NEW p \in Running, SetAttribute(p)
  PROVE  SoundProgram(p)' /\ IsDocument(held')
<1>1. Sound(Class, pc[p], way[p], seen[p], obj[p], set[p], put[p], sent[p]) /\ pc[p] = "editing"
  BY DEF IInv, SoundProgram, SetAttribute, MayChange
<1>2. PICK change \in Changes[cls] :
        /\ change[1] \in Keys(Class)
        /\ MayHold(Class.fields[change[1]], change[2])
        /\ obj' = [obj EXCEPT ![p].attrs = With(@, change[1], change[2])]
        /\ set' = [set EXCEPT ![p] = With(@, change[1], change[2])]
  BY DEF SetAttribute
<1> DEFINE k == change[1]
           v == change[2]
           o == [obj[p] EXCEPT !.attrs = With(@, k, v)]
<1>3. v \in {"other", "null", "zero", UNSET}
  BY ChangesAssumption DEF IInv
<1>4. Tracks(Class, way[p], seen[p], obj[p], set[p], put[p])
  BY <1>1 DEF Sound
<1>5. k \in Keys(Class) /\ MayHold(Class.fields[k], v)
  BY <1>2
<1>6. obj' = [obj EXCEPT ![p] = o] /\ set' = [set EXCEPT ![p] = With(set[p], k, v)]
  BY <1>2
<1> HIDE DEF k, v
<1>7. Tracks(Class, way[p], seen[p], o, With(set[p], k, v), put[p])
  BY <1>3, <1>4, <1>5, ClassIsSchema, TracksAttribute
<1> HIDE DEF o
<1>8. Sound(Class, "editing", way[p], seen[p], o, With(set[p], k, v), put[p], sent[p])
  BY <1>1, <1>7 DEF Sound
<1>9. IsDocument(held') /\ cls' = cls /\ pc' = pc /\ way' = way /\ seen' = seen /\ put' = put
      /\ sent' = sent
  BY DEF SetAttribute, IInv
<1>10. pc' = [pc EXCEPT ![p] = "editing"]
  BY <1>1, <1>9 DEF IInv, Functions
<1>11. QED
  BY <1>6, <1>8, <1>9, <1>10 DEF IInv, Functions, SoundProgram, Class

(* Assigning an additional property keeps the program sound. *)
LEMMA SetItemSound ==
  ASSUME IInv, NEW p \in Running, SetItem(p)
  PROVE  SoundProgram(p)' /\ IsDocument(held')
<1>1. Sound(Class, pc[p], way[p], seen[p], obj[p], set[p], put[p], sent[p])
      /\ pc[p] = "editing" /\ Class.rest = "open"
  BY DEF IInv, SoundProgram, SetItem, MayChange
<1>2. PICK change \in Changes[cls] :
        /\ change[2] # UNSET
        /\ obj' = [obj EXCEPT ![p].more = With(@, change[1], change[2])]
        /\ put' = [put EXCEPT ![p] = With(@, change[1], change[2])]
  BY DEF SetItem
<1> DEFINE k == change[1]
           v == change[2]
           o == [obj[p] EXCEPT !.more = With(@, k, v)]
<1>3. v \in {"other", "null", "zero"}
  BY <1>2, ChangesAssumption DEF IInv
<1>4. Tracks(Class, way[p], seen[p], obj[p], set[p], put[p])
  BY <1>1 DEF Sound
<1>5. obj' = [obj EXCEPT ![p] = o] /\ put' = [put EXCEPT ![p] = With(put[p], k, v)]
  BY <1>2
<1> HIDE DEF k, v
<1>6. Tracks(Class, way[p], seen[p], o, set[p], With(put[p], k, v))
  BY <1>1, <1>3, <1>4, ClassIsSchema, TracksItem
<1> HIDE DEF o
<1>7. Sound(Class, "editing", way[p], seen[p], o, set[p], With(put[p], k, v), sent[p])
  BY <1>1, <1>6 DEF Sound
<1>8. IsDocument(held') /\ cls' = cls /\ pc' = pc /\ way' = way /\ seen' = seen /\ set' = set
      /\ sent' = sent
  BY DEF SetItem, IInv
<1>9. pc' = [pc EXCEPT ![p] = "editing"]
  BY <1>1, <1>8 DEF IInv, Functions
<1>10. QED
  BY <1>5, <1>7, <1>8, <1>9 DEF IInv, Functions, SoundProgram, Class

(* Writing the object with to_dict keeps the program sound. *)
LEMMA WriteSound ==
  ASSUME IInv, NEW p \in Running, Write(p)
  PROVE  SoundProgram(p)' /\ IsDocument(held')
<1>1. Sound(Class, pc[p], way[p], seen[p], obj[p], set[p], put[p], sent[p])
      /\ pc[p] = "editing" /\ CanWrite(Class, obj[p])
  BY DEF IInv, SoundProgram, Write
<1>2. Tracks(Class, way[p], seen[p], obj[p], set[p], put[p]) /\ IsDocument(seen[p])
  BY <1>1 DEF Sound
<1>3. IsDocument(ToDict(Class, obj[p]))
  BY <1>2, ClassIsSchema, TracksWritten
<1>4. Sound(Class, "sent", way[p], seen[p], obj[p], set[p], put[p], ToDict(Class, obj[p]))
  BY <1>1, <1>2, <1>3 DEF Sound
<1>5. IsDocument(held') /\ cls' = cls /\ pc' = [pc EXCEPT ![p] = "sent"]
      /\ sent' = [sent EXCEPT ![p] = ToDict(Class, obj[p])]
      /\ way' = way /\ seen' = seen /\ obj' = obj /\ set' = set /\ put' = put
  BY DEF Write, IInv
<1>6. QED
  BY <1>4, <1>5 DEF IInv, Functions, SoundProgram, Class

(* A to_dict that raises keeps the program sound. *)
LEMMA WriteRaisesSound ==
  ASSUME IInv, NEW p \in Running, WriteRaises(p)
  PROVE  SoundProgram(p)' /\ IsDocument(held')
<1>1. Sound(Class, pc[p], way[p], seen[p], obj[p], set[p], put[p], sent[p])
      /\ pc[p] = "editing" /\ ~CanWrite(Class, obj[p])
  BY DEF IInv, SoundProgram, WriteRaises
<1>2. Sound(Class, "unwritable", way[p], seen[p], obj[p], set[p], put[p], sent[p])
  BY <1>1 DEF Sound
<1>3. IsDocument(held') /\ cls' = cls /\ pc' = [pc EXCEPT ![p] = "unwritable"]
      /\ way' = way /\ seen' = seen /\ obj' = obj /\ set' = set /\ put' = put /\ sent' = sent
  BY DEF WriteRaises, IInv
<1>4. QED
  BY <1>2, <1>3 DEF IInv, Functions, SoundProgram, Class

(* Applying the sent document keeps the server's value a document. *)
LEMMA ApplySound ==
  ASSUME IInv, NEW p \in Running, Apply(p)
  PROVE  SoundProgram(p)' /\ IsDocument(held')
<1>1. Sound(Class, pc[p], way[p], seen[p], obj[p], set[p], put[p], sent[p]) /\ pc[p] = "sent"
  BY DEF IInv, SoundProgram, Apply
<1>2. Sound(Class, "done", way[p], seen[p], obj[p], set[p], put[p], sent[p])
  BY <1>1 DEF Sound
<1>3. IsDocument(held) /\ IsDocument(sent[p])
  BY <1>1 DEF IInv, Sound
<1>4. IsDocument(held')
  BY <1>3, MergedIsDocument DEF Apply
<1>5. cls' = cls /\ pc' = [pc EXCEPT ![p] = "done"]
      /\ way' = way /\ seen' = seen /\ obj' = obj /\ set' = set /\ put' = put /\ sent' = sent
  BY DEF Apply
<1>6. QED
  BY <1>2, <1>4, <1>5 DEF IInv, Functions, SoundProgram, Class

(* A step that changes nothing keeps the invariant. *)
LEMMA StutterSound ==
  ASSUME IInv, UNCHANGED vars
  PROVE  IInv'
  BY DEF vars, IInv, Functions, SoundProgram, Running, Class

(* Every step of every program keeps the invariant. *)
LEMMA NextSound == IInv /\ [Next]_vars => IInv'
<1> SUFFICES ASSUME IInv, [Next]_vars PROVE IInv'
  OBVIOUS
<1>1. ASSUME NEW p \in Running, Step(p)
      PROVE  IInv'
  <2>1. SoundProgram(p)' /\ IsDocument(held')
    BY <1>1, AnswerSound, ReadSound, ReadRaisesSound, BuildSound, SetAttributeSound,
       SetItemSound, WriteSound, WriteRaisesSound, ApplySound DEF Step
  <2>2. QED
    BY <1>1, <2>1, OneProgram
<1>2. QED
  BY <1>1, StutterSound DEF Next

\* Every object a program works on comes from its answer or from the
\* constructor by nothing but the program's own changes.
THEOREM Traced == Spec => []IInv
  BY InitSound, NextSound, PTL DEF Spec

-----------------------------------------------------------------------------
(* What the invariant says of an object, and of what is written of it        *)

\* Of each running program: its documents, its object and what it has sent.
LEMMA ProgramParts ==
  ASSUME IInv, NEW p \in Running
  PROVE  /\ IsSchema(Class)
         /\ IsDocument(seen[p]) /\ IsDocument(sent[p])
         /\ HasSent(p) => HasObject(p) /\ CanWrite(Class, obj[p]) /\ sent[p] = ToDict(Class, obj[p])
         /\ HasObject(p) => Tracks(Class, way[p], seen[p], obj[p], set[p], put[p])
         /\ pc[p] = "unwritable" => HasObject(p) /\ ~CanWrite(Class, obj[p])
  BY ClassIsSchema DEF IInv, SoundProgram, Sound, HasSent, HasObject

\* The attributes and items of an object that was read
LEMMA ReadParts ==
  ASSUME IInv, NEW p \in Running, HasObject(p), way[p] = "read"
  PROVE  /\ CanRead(Class, seen[p])
         /\ \A k \in Keys(Class) : k \notin DOMAIN set[p] =>
              obj[p].attrs[k] = ReadField(Class.fields[k], seen[p], k)
         /\ DOMAIN obj[p].more = DOMAIN put[p] \cup
              IF Class.rest = "closed" THEN {} ELSE DOMAIN seen[p] \ Keys(Class)
         /\ \A k \in DOMAIN obj[p].more : k \notin DOMAIN put[p] => obj[p].more[k] = seen[p][k]
<1>1. Tracks(Class, "read", seen[p], obj[p], set[p], put[p])
      /\ IsSchema(Class) /\ IsDocument(seen[p])
  BY ProgramParts
<1>2. Start(Class, "read", seen[p]) = FromDict(Class, seen[p])
  BY DEF Start
<1>3. CanRead(Class, seen[p])
  BY <1>1 DEF Tracks
<1> DEFINE o == FromDict(Class, seen[p])
<1>4. IsMadeOf(Class, seen[p], o)
  BY <1>1, <1>3, FromDictParts
<1> HIDE DEF o
<1>5. /\ \A k \in Keys(Class) : k \notin DOMAIN set[p] => obj[p].attrs[k] = o.attrs[k]
      /\ DOMAIN obj[p].more = DOMAIN o.more \cup DOMAIN put[p]
      /\ \A k \in DOMAIN obj[p].more : k \notin DOMAIN put[p] => obj[p].more[k] = o.more[k]
  BY <1>1, <1>2 DEF Tracks, o
<1>6. QED
  BY <1>3, <1>4, <1>5 DEF IsMadeOf

\* Those of an object that was built
LEMMA BuiltParts ==
  ASSUME IInv, NEW p \in Running, HasObject(p), way[p] = "built"
  PROVE  /\ \A k \in Keys(Class) : k \notin DOMAIN set[p] =>
              obj[p].attrs[k] = IF Class.fields[k].needed \/ Class.fields[k].preset
                                THEN "full" ELSE UNSET
         /\ DOMAIN obj[p].more = DOMAIN put[p]
<1>1. Tracks(Class, "built", seen[p], obj[p], set[p], put[p]) /\ IsSchema(Class)
  BY ProgramParts
<1>2. Start(Class, "built", seen[p]) = NewObject(Class)
  BY DEF Start
<1>3. QED
  BY <1>1, <1>2, NewObjectParts DEF Tracks

\* Those the program has set
LEMMA SetParts ==
  ASSUME IInv, NEW p \in Running, HasObject(p)
  PROVE  /\ way[p] \in {"read", "built"}
         /\ IsObject(Class, obj[p])
         /\ \A k \in DOMAIN set[p] : /\ k \in Keys(Class)
                                     /\ obj[p].attrs[k] = set[p][k]
                                     /\ set[p][k] \in {"other", "null", "zero", UNSET}
                                     /\ MayHold(Class.fields[k], set[p][k])
         /\ \A k \in DOMAIN put[p] : /\ k \in DOMAIN obj[p].more
                                     /\ obj[p].more[k] = put[p][k]
                                     /\ put[p][k] \in {"other", "null", "zero"}
         /\ DOMAIN put[p] # {} => Class.rest = "open"
         /\ \A k \in Keys(Class) : Class.fields[k].needed => obj[p].attrs[k] # UNSET
<1>1. Tracks(Class, way[p], seen[p], obj[p], set[p], put[p]) /\ IsSchema(Class)
      /\ IsDocument(seen[p])
  BY ProgramParts
<1>2. \A k \in Keys(Class) : Class.fields[k].needed => obj[p].attrs[k] # UNSET
  BY <1>1, NeededHasValue
<1>3. QED
  BY <1>1, <1>2 DEF Tracks

\* What is written
LEMMA SentParts ==
  ASSUME IInv, NEW p \in Running, HasSent(p)
  PROVE  /\ HasObject(p)
         /\ sent[p] = [k \in DOMAIN sent[p] |-> sent[p][k]]
         /\ \A k \in Keys(Class) : Writable(Class.fields[k], obj[p].attrs[k])
         /\ \A k \in DOMAIN sent[p] :
              \/ k \in DOMAIN obj[p].more
              \/ k \in Keys(Class) /\ IsWritten(Class.fields[k], obj[p].attrs[k])
         /\ \A k \in Keys(Class) : IsWritten(Class.fields[k], obj[p].attrs[k]) =>
              /\ k \in DOMAIN sent[p]
              /\ sent[p][k] = WriteField(Class.fields[k], obj[p].attrs[k])
         /\ \A k \in DOMAIN obj[p].more : k \in DOMAIN sent[p]
         /\ \A k \in DOMAIN obj[p].more :
              ~(k \in Keys(Class) /\ IsWritten(Class.fields[k], obj[p].attrs[k])) =>
                sent[p][k] = obj[p].more[k]
<1>1. HasObject(p) /\ CanWrite(Class, obj[p]) /\ sent[p] = ToDict(Class, obj[p])
      /\ IsSchema(Class)
  BY ProgramParts
<1>2. IsObject(Class, obj[p])
  BY <1>1, SetParts
<1>3. \A k \in Keys(Class) : Writable(Class.fields[k], obj[p].attrs[k])
  BY <1>1 DEF CanWrite
<1>4. QED
  BY <1>1, <1>2, <1>3, ToDictParts

-----------------------------------------------------------------------------
(* The properties                                                           *)

\* What from_dict and to_dict make are objects and documents.
THEOREM Typed == Spec => []TypeOK
<1>1. IInv => TypeOK
  <2> SUFFICES ASSUME IInv PROVE TypeOK
    OBVIOUS
  <2>1. /\ pc \in [Running -> {"idle", "answered", "unreadable", "editing", "unwritable",
                               "sent", "done"}]
        /\ way \in [Running -> {"none", "read", "built"}]
    BY DEF IInv, Functions, SoundProgram, Sound
  <2>2. ASSUME NEW p \in Running
        PROVE  /\ IsDocument(seen[p])
               /\ IsDocument(sent[p])
               /\ HasObject(p) => IsObject(Class, obj[p]) /\ way[p] # "none"
    BY ProgramParts, SetParts
  <2>3. QED
    BY <2>1, <2>2 DEF IInv, TypeOK
<1>2. QED
  BY <1>1, Traced, PTL

\* Whatever from_dict has accepted can be written back, unless the program
\* itself has set None where the class does not take it.
THEOREM FaultIsOwn == Spec => []UnwritableIsOwnFault
<1>1. IInv => UnwritableIsOwnFault
  <2> SUFFICES ASSUME IInv, NEW p \in Running, pc[p] = "unwritable"
               PROVE  \E k \in DOMAIN set[p] : set[p][k] = "null" /\ ~Class.fields[k].nullable
    BY DEF UnwritableIsOwnFault
  <2>1. HasObject(p) /\ ~CanWrite(Class, obj[p]) /\ IsSchema(Class) /\ IsDocument(seen[p])
    BY ProgramParts
  <2>2. PICK k \in Keys(Class) : ~Writable(Class.fields[k], obj[p].attrs[k])
    BY <2>1 DEF CanWrite
  <2> DEFINE f == Class.fields[k]
  <2>3. obj[p].attrs[k] = "null" /\ f.shape # "any" /\ ~f.nullable
    BY <2>2 DEF Writable
  <2>4. way[p] \in {"read", "built"}
    BY <2>1, SetParts
  <2>5. ASSUME k \notin DOMAIN set[p]
        PROVE  FALSE
    <3>1. CASE way[p] = "read"
      <4>1. ReadField(f, seen[p], k) = "null"
        BY <2>1, <2>3, <2>5, <3>1, ReadParts
      <4>2. k \in DOMAIN seen[p] /\ seen[p][k] = "null" /\ ~(f.shape = "list" /\ ~f.needed)
        BY <4>1 DEF ReadField, UNSET, Falsy
      <4>3. Readable(f, "null")
        BY <2>1, <3>1, <4>2, ReadParts, ReadableKeys
      <4>4. QED
        BY <2>3, <4>2, <4>3 DEF Readable, OfItsType
    <3>2. CASE way[p] = "built"
      BY <2>1, <2>3, <2>5, <3>2, BuiltParts DEF UNSET
    <3>3. QED
      BY <2>4, <3>1, <3>2
  <2>6. k \in DOMAIN set[p] /\ set[p][k] = "null"
    BY <2>1, <2>3, <2>5, SetParts
  <2>7. QED
    BY <2>3, <2>6
<1>2. QED
  BY <1>1, Traced, PTL

\* A built object writes its changes, what its constructor insists on and the
\* defaults it presets; UNSET keeps everything else out of the request.
BuiltWritesOnlyChanges ==
  LET c == Class IN
  \A p \in Running : HasSent(p) /\ way[p] = "built" =>
    DOMAIN sent[p] \subseteq
      Touched(p) \cup {k \in Keys(c) : c.fields[k].needed \/ c.fields[k].preset}

\* A built object writes what was set, what is needed and what is preset.
LEMMA BuiltLean == IInv => BuiltWritesOnlyChanges
<1> SUFFICES ASSUME IInv, NEW p \in Running, HasSent(p), way[p] = "built",
                    NEW k \in DOMAIN sent[p], k \notin Touched(p)
             PROVE  k \in Keys(Class) /\ (Class.fields[k].needed \/ Class.fields[k].preset)
  BY DEF BuiltWritesOnlyChanges
<1>1. HasObject(p)
  BY SentParts
<1>2. k \notin DOMAIN set[p] /\ k \notin DOMAIN obj[p].more
  BY <1>1, BuiltParts DEF Touched
<1>3. k \in Keys(Class) /\ IsWritten(Class.fields[k], obj[p].attrs[k])
  BY <1>2, SentParts
<1>4. QED
  BY <1>1, <1>2, <1>3, BuiltParts DEF IsWritten

\* What a program sets is what it writes.
THEOREM ChangesAreWritten == Spec => []ChangesArrive
<1>1. IInv => ChangesArrive
  <2> SUFFICES ASSUME IInv, NEW p \in Running, HasSent(p)
               PROVE  /\ \A k \in DOMAIN set[p] :
                           IF set[p][k] = UNSET
                           THEN k \in DOMAIN sent[p] => k \in DOMAIN put[p]
                           ELSE k \in DOMAIN sent[p] /\ sent[p][k] \in
                                  IF set[p][k] = "zero" THEN {"zero", "null"} ELSE {set[p][k]}
                      /\ \A k \in DOMAIN put[p] :
                           /\ k \in DOMAIN sent[p]
                           /\ k \notin Keys(Class) => sent[p][k] = put[p][k]
    BY DEF ChangesArrive
  <2>1. HasObject(p) /\ way[p] \in {"read", "built"}
    BY SentParts, SetParts
  <2>2. ASSUME NEW k \in DOMAIN set[p], set[p][k] = UNSET, k \in DOMAIN sent[p]
        PROVE  k \in DOMAIN put[p]
    <3>1. k \in Keys(Class) /\ obj[p].attrs[k] = UNSET /\ ~Class.fields[k].needed
      BY <2>1, <2>2, SetParts
    <3>2. k \in DOMAIN obj[p].more
      BY <2>2, <3>1, SentParts DEF IsWritten
    <3>3. QED
      BY <2>1, <3>1, <3>2, ReadParts, BuiltParts
  <2>3. ASSUME NEW k \in DOMAIN set[p], set[p][k] # UNSET
        PROVE  k \in DOMAIN sent[p] /\ sent[p][k] \in
                 IF set[p][k] = "zero" THEN {"zero", "null"} ELSE {set[p][k]}
    <3>1. k \in Keys(Class) /\ obj[p].attrs[k] = set[p][k]
          /\ set[p][k] \in {"other", "null", "zero"}
      BY <2>1, <2>3, SetParts
    <3>2. k \in DOMAIN sent[p] /\ sent[p][k] = WriteField(Class.fields[k], set[p][k])
      BY <2>3, <3>1, SentParts DEF IsWritten
    <3>3. QED
      BY <3>1, <3>2 DEF WriteField, Falsy, UNSET
  <2>4. ASSUME NEW k \in DOMAIN put[p]
        PROVE  k \in DOMAIN sent[p] /\ (k \notin Keys(Class) => sent[p][k] = put[p][k])
    <3>1. k \in DOMAIN obj[p].more /\ obj[p].more[k] = put[p][k]
      BY <2>1, SetParts
    <3>2. QED
      BY <3>1, SentParts
  <2>5. QED
    BY <2>2, <2>3, <2>4
<1>2. QED
  BY <1>1, Traced, PTL

\* Reading and writing back changes only what WriteBackExact names.
THEOREM WritesBack == Spec => []WriteBackExact
<1>1. IInv => WriteBackExact
  <2> DEFINE c == Class
  <2> SUFFICES ASSUME IInv, NEW p \in Running, HasSent(p), way[p] = "read",
                      NEW k \in (DOMAIN seen[p] \cup DOMAIN sent[p]) \ Touched(p)
               PROVE  IF k \notin Keys(c)
                      THEN IF c.rest = "closed" THEN k \notin DOMAIN sent[p]
                                                ELSE Kept(seen[p], sent[p], k)
                      ELSE LET f == c.fields[k] IN
                           IF Collapses(f, seen[p], k)
                           THEN k \in DOMAIN sent[p] /\ sent[p][k] = "empty"
                           ELSE \/ Kept(seen[p], sent[p], k)
                                \/ /\ k \in DOMAIN seen[p] \cap DOMAIN sent[p]
                                   /\ \/ Blanks(f, seen[p][k]) /\ sent[p][k] = "null"
                                      \/ Fills(f, seen[p][k]) /\ sent[p][k] = "filled"
    BY DEF WriteBackExact
  <2> DEFINE f == c.fields[k]
  <2>1. HasObject(p) /\ IsSchema(c) /\ IsDocument(seen[p]) /\ CanRead(c, seen[p])
    BY SentParts, ReadParts, ProgramParts
  <2>2. k \notin DOMAIN set[p] /\ k \notin DOMAIN put[p]
    BY DEF Touched
  <2>3. ASSUME k \notin Keys(c), c.rest = "closed"
        PROVE  k \notin DOMAIN sent[p]
    <3>1. k \notin DOMAIN obj[p].more
      BY <2>1, <2>2, <2>3, ReadParts
    <3>2. QED
      BY <2>3, <3>1, SentParts
  <2>4. ASSUME k \notin Keys(c), c.rest # "closed"
        PROVE  Kept(seen[p], sent[p], k)
    <3>1. k \in DOMAIN obj[p].more <=> k \in DOMAIN seen[p]
      BY <2>1, <2>2, <2>4, ReadParts
    <3>2. k \in DOMAIN obj[p].more => obj[p].more[k] = seen[p][k]
      BY <2>1, <2>2, ReadParts
    <3>3. k \in DOMAIN sent[p] <=> k \in DOMAIN obj[p].more
      BY <2>4, SentParts
    <3>4. k \in DOMAIN obj[p].more => sent[p][k] = obj[p].more[k]
      BY <2>4, SentParts
    <3>5. QED
      BY <3>1, <3>2, <3>3, <3>4 DEF Kept
  <2>5. ASSUME k \in Keys(c)
        PROVE  obj[p].attrs[k] = ReadField(f, seen[p], k)
    BY <2>1, <2>2, <2>5, ReadParts
  <2>6. ASSUME k \in Keys(c), IsWritten(f, obj[p].attrs[k])
        PROVE  k \in DOMAIN sent[p] /\ sent[p][k] = WriteField(f, obj[p].attrs[k])
    BY <2>6, SentParts
  <2>7. ASSUME k \in Keys(c), Collapses(f, seen[p], k)
        PROVE  k \in DOMAIN sent[p] /\ sent[p][k] = "empty"
    <3>1. obj[p].attrs[k] = "empty" /\ f.shape = "list"
      BY <2>5, <2>7 DEF Collapses, ReadField
    <3>2. QED
      BY <2>6, <2>7, <3>1 DEF IsWritten, WriteField, UNSET
  <2>8. ASSUME k \in Keys(c), ~Collapses(f, seen[p], k), k \in DOMAIN seen[p]
        PROVE  \/ Kept(seen[p], sent[p], k)
               \/ /\ k \in DOMAIN seen[p] \cap DOMAIN sent[p]
                  /\ \/ Blanks(f, seen[p][k]) /\ sent[p][k] = "null"
                     \/ Fills(f, seen[p][k]) /\ sent[p][k] = "filled"
    <3>1. obj[p].attrs[k] = seen[p][k]
      BY <2>5, <2>8 DEF Collapses, ReadField
    <3>2. seen[p][k] \in JsonValues /\ Readable(f, seen[p][k])
      BY <2>1, <2>8, DocumentValue, ReadableKeys
    <3>3. k \in DOMAIN sent[p] /\ sent[p][k] = WriteField(f, seen[p][k])
      BY <2>6, <2>8, <3>1, <3>2 DEF IsWritten, UNSET, JsonValues
    <3>4. f.shape \in {"model", "enum", "date"} /\ seen[p][k] \in Falsy
            => seen[p][k] = "null" \/ (seen[p][k] = "zero" /\ f.shape = "enum")
      BY <2>1, <2>8, <3>2, FieldParts DEF Readable, OfItsType, Falsy, UNSET, JsonValues
    <3>5. QED
      BY <2>8, <3>3, <3>4 DEF WriteField, Kept, Blanks, Fills
  <2>9. ASSUME k \in Keys(c), ~Collapses(f, seen[p], k), k \notin DOMAIN seen[p]
        PROVE  Kept(seen[p], sent[p], k)
    <3>1. obj[p].attrs[k] = UNSET
      BY <2>5, <2>9 DEF Collapses, ReadField
    <3>2. ~f.needed
      BY <2>1, <2>9, ReadableKeys
    <3>3. k \notin DOMAIN obj[p].more
      BY <2>1, <2>2, <2>9, ReadParts
    <3>4. QED
      BY <2>9, <3>1, <3>2, <3>3, SentParts DEF IsWritten, Kept
  <2> HIDE DEF c
  <2>10. QED
    BY <2>3, <2>4, <2>7, <2>8, <2>9
<1>2. QED
  BY <1>1, Traced, PTL

\* The values an attribute of an object can have that its field does not read
LEMMA AttributeValues ==
  ASSUME IInv, NEW p \in Running, HasSent(p), NEW k \in Keys(Class),
         obj[p].attrs[k] # UNSET
  PROVE  /\ WriteField(Class.fields[k], obj[p].attrs[k]) \in JsonValues
         /\ Readable(Class.fields[k], WriteField(Class.fields[k], obj[p].attrs[k]))
<1> DEFINE f == Class.fields[k]
           a == obj[p].attrs[k]
<1>1. HasObject(p) /\ IsSchema(Class) /\ IsDocument(seen[p])
  BY SentParts, ProgramParts
<1>2. Writable(f, a)
  BY SentParts
<1>3. a \in JsonValues /\ way[p] \in {"read", "built"}
  <2>1. IsObject(Class, obj[p]) /\ way[p] \in {"read", "built"}
    BY <1>1, SetParts
  <2>2. QED
    BY <2>1 DEF IsObject
<1>4. \/ Readable(f, a)
      \/ a = "zero" /\ f.zero
      \/ a = "null"
      \/ a \in {"full", "other"}
      \/ a = "empty" /\ f.shape = "list"
  <2>1. CASE k \in DOMAIN set[p]
    BY <1>1, <2>1, SetParts DEF MayHold, Readable
  <2>2. CASE k \notin DOMAIN set[p] /\ way[p] = "read"
    <3>1. a = ReadField(f, seen[p], k) /\ CanRead(Class, seen[p])
      BY <1>1, <2>2, ReadParts
    <3>2. k \in DOMAIN seen[p] => Readable(f, seen[p][k])
      BY <1>1, <3>1, ReadableKeys
    <3>3. QED
      BY <3>1, <3>2 DEF ReadField
  <2>3. CASE k \notin DOMAIN set[p] /\ way[p] = "built"
    BY <1>1, <2>3, BuiltParts
  <2>4. QED
    BY <1>3, <2>1, <2>2, <2>3
<1>5. Readable(f, WriteField(f, a))
  BY <1>1, <1>2, <1>4, WrittenValue
<1> HIDE DEF f, a
<1>6. WriteField(f, a) \in JsonValues
  BY <1>3 DEF WriteField, JsonValues
<1>7. QED
  BY <1>5, <1>6 DEF f, a

\* What the client writes it can read again.
LEMMA Rereadable == IInv => WrittenIsReadable
<1> SUFFICES ASSUME IInv, NEW p \in Running, HasSent(p), DOMAIN put[p] \cap Keys(Class) = {}
             PROVE  CanRead(Class, sent[p])
  BY DEF WrittenIsReadable
<1> DEFINE c == Class
<1>1. HasObject(p) /\ IsSchema(c) /\ way[p] \in {"read", "built"}
  BY SentParts, ProgramParts, SetParts
<1>2. ASSUME NEW k \in Keys(c)
      PROVE  k \notin DOMAIN obj[p].more
  BY <1>1, <1>2, ReadParts, BuiltParts
<1>3. ASSUME NEW k \in Keys(c), k \in DOMAIN sent[p]
      PROVE  Readable(c.fields[k], sent[p][k])
  <2>1. IsWritten(c.fields[k], obj[p].attrs[k])
    BY <1>2, <1>3, SentParts
  <2>2. obj[p].attrs[k] # UNSET
    BY <1>1, <2>1, SetParts DEF IsWritten
  <2>3. QED
    <3>1. sent[p][k] = WriteField(c.fields[k], obj[p].attrs[k])
      BY <2>1, SentParts
    <3>2. Readable(c.fields[k], WriteField(c.fields[k], obj[p].attrs[k]))
      BY <2>2, AttributeValues
    <3>3. QED
      BY <3>1, <3>2
<1>4. ASSUME NEW k \in Keys(c), c.fields[k].needed
      PROVE  k \in DOMAIN sent[p]
  BY <1>4, SentParts DEF IsWritten
<1>5. ASSUME NEW k \in DOMAIN sent[p] \ Keys(c), c.rest \in {"enum", "list"}
      PROVE  OfItsType(Field(c.rest), sent[p][k])
  <2>1. k \in DOMAIN obj[p].more /\ sent[p][k] = obj[p].more[k]
    BY <1>5, SentParts
  <2>2. k \notin DOMAIN put[p]
    BY <1>1, <1>5, SetParts
  <2>3. way[p] = "read"
    BY <1>1, <2>1, <2>2, BuiltParts
  <2>4. CanRead(c, seen[p]) /\ k \in DOMAIN seen[p] /\ obj[p].more[k] = seen[p][k]
    BY <1>1, <1>5, <2>1, <2>2, <2>3, ReadParts
  <2>5. QED
    BY <1>1, <1>5, <2>1, <2>4, ReadableKeys
<1>6. QED
  BY <1>1, <1>3, <1>4, <1>5, ReadableFrom

\* What the client writes it can read again.
THEOREM ReadsItsOwn == Spec => []WrittenIsReadable
  BY Rereadable, Traced, PTL

\* Writing back what has been written back changes nothing any more.
THEOREM Settles == Spec => []WriteBackSettles
<1>1. IInv => WriteBackSettles
  <2> DEFINE c == Class
  <2> SUFFICES ASSUME IInv, NEW p \in Running, HasSent(p), way[p] = "read",
                      DOMAIN put[p] \cap Keys(c) = {},
                      \A k \in DOMAIN set[p] : /\ set[p][k] # UNSET
                                               /\ ~(set[p][k] = "null" /\ k \in Collections(c))
               PROVE  ToDict(c, FromDict(c, sent[p])) = sent[p]
    BY DEF WriteBackSettles
  <2> DEFINE e == sent[p]
             r == FromDict(c, e)
             w == ToDict(c, r)
  <2>1. HasObject(p) /\ IsSchema(c) /\ IsDocument(seen[p]) /\ IsDocument(e)
    BY SentParts, ProgramParts
  <2>2. CanRead(c, e)
    BY Rereadable DEF WrittenIsReadable
  <2>3. IsMadeOf(c, e, r)
    BY <2>1, <2>2, FromDictParts
  <2> HIDE DEF r
  <2>4. /\ w = [k \in DOMAIN w |-> w[k]]
        /\ \A k \in DOMAIN w : \/ k \in DOMAIN r.more
                               \/ k \in Keys(c) /\ IsWritten(c.fields[k], r.attrs[k])
        /\ \A k \in Keys(c) : IsWritten(c.fields[k], r.attrs[k]) =>
             k \in DOMAIN w /\ w[k] = WriteField(c.fields[k], r.attrs[k])
        /\ \A k \in DOMAIN r.more : k \in DOMAIN w
        /\ \A k \in DOMAIN r.more :
             ~(k \in Keys(c) /\ IsWritten(c.fields[k], r.attrs[k])) => w[k] = r.more[k]
    BY <2>1, <2>3, ToDictParts DEF IsMadeOf
  <2> HIDE DEF w, e
  <2>5. ASSUME NEW k \in Keys(c)
        PROVE  k \notin DOMAIN obj[p].more /\ k \notin DOMAIN r.more
    BY <2>1, <2>3, <2>5, ReadParts DEF IsMadeOf
  <2>6. ASSUME NEW k \in Keys(c), k \in DOMAIN e
        PROVE  k \in DOMAIN w /\ w[k] = e[k]
    <3> DEFINE f == c.fields[k]
               a == obj[p].attrs[k]
    <3>1. IsWritten(f, a)
      BY <2>5, <2>6, SentParts DEF e
    <3>2. a # UNSET
      BY <2>1, <3>1, SetParts DEF IsWritten
    <3>3. e[k] = WriteField(f, a) /\ e[k] \in JsonValues
      <4>1. e[k] = WriteField(f, a)
        BY <3>1, SentParts DEF e
      <4>2. WriteField(f, a) \in JsonValues
        BY <3>2, AttributeValues
      <4>3. QED
        BY <4>1, <4>2
    <3>4. f.shape = "list" /\ ~f.needed /\ e[k] \in Falsy => e[k] = "empty"
      <4>1. CASE k \in DOMAIN set[p]
        <5>1. a \in {"other", "null", "zero"} /\ a = set[p][k] /\ MayHold(f, a)
          BY <2>1, <4>1, SetParts
        <5>2. f.zero => f.shape = "enum"
          BY <2>1, FieldParts
        <5>3. f.shape = "list" /\ ~f.needed => k \in Collections(c)
          BY DEF Collections
        <5>4. QED
          BY <3>3, <4>1, <5>1, <5>2, <5>3 DEF WriteField, MayHold, Falsy, UNSET
      <4>2. CASE k \notin DOMAIN set[p]
        <5>1. a = ReadField(f, seen[p], k)
          BY <2>1, <4>2, ReadParts
        <5>2. QED
          BY <3>3, <5>1 DEF ReadField, WriteField, Falsy, UNSET
      <4>3. QED
        BY <4>1, <4>2
    <3>5. r.attrs[k] = e[k]
      BY <2>3, <2>6, <3>4 DEF IsMadeOf, ReadField
    <3>6. IsWritten(f, e[k])
      BY <3>3 DEF IsWritten, JsonValues, UNSET
    <3>7. WriteField(f, WriteField(f, a)) = WriteField(f, a)
      BY DEF WriteField, Falsy, UNSET
    <3>8. QED
      BY <2>4, <3>3, <3>5, <3>6, <3>7
  <2>7. ASSUME NEW k \in Keys(c), k \notin DOMAIN e
        PROVE  k \notin DOMAIN w
    <3> DEFINE f == c.fields[k]
               a == obj[p].attrs[k]
    <3>1. a = UNSET /\ ~f.needed
      BY <2>7, SentParts DEF IsWritten, e
    <3>2. k \notin DOMAIN set[p]
      BY <2>1, <3>1, SetParts
    <3>3. f.shape # "list"
      <4>1. a = ReadField(f, seen[p], k)
        BY <2>1, <3>2, ReadParts
      <4>2. QED
        BY <3>1, <4>1 DEF ReadField, Falsy, UNSET
    <3>4. r.attrs[k] = UNSET
      BY <2>3, <2>7, <3>3 DEF IsMadeOf, ReadField
    <3>5. QED
      BY <2>4, <2>5, <3>1, <3>4 DEF IsWritten
  <2>8. ASSUME NEW k, k \notin Keys(c)
        PROVE  /\ k \in DOMAIN w <=> k \in DOMAIN e
               /\ k \in DOMAIN w => w[k] = e[k]
    <3>1. k \in DOMAIN w <=> k \in DOMAIN r.more
      BY <2>4, <2>8
    <3>2. k \in DOMAIN r.more <=> k \in DOMAIN e /\ c.rest # "closed"
      BY <2>3, <2>8 DEF IsMadeOf
    <3>3. k \in DOMAIN e => k \in DOMAIN obj[p].more
      BY <2>8, SentParts DEF e
    <3>4. k \in DOMAIN obj[p].more => c.rest # "closed"
      BY <2>1, ReadParts, SetParts
    <3>5. k \in DOMAIN r.more => w[k] = r.more[k] /\ r.more[k] = e[k]
      BY <2>3, <2>4, <2>8 DEF IsMadeOf
    <3>6. QED
      BY <3>1, <3>2, <3>3, <3>4, <3>5
  <2>9. DOMAIN w = DOMAIN e
    BY <2>6, <2>7, <2>8
  <2>10. \A k \in DOMAIN w : w[k] = e[k]
    BY <2>6, <2>8, <2>9
  <2>11. e = [k \in DOMAIN e |-> e[k]]
    BY SentParts DEF e
  <2>12. w = e
    BY <2>4, <2>9, <2>10, <2>11
  <2>13. QED
    BY <2>12 DEF w, r, e
<1>2. QED
  BY <1>1, Traced, PTL

-----------------------------------------------------------------------------
(* What a write does at the service                                         *)

\* A program is done with its object when the service has taken its write.
LEMMA DoneIsApply ==
  ASSUME IInv, [Next]_vars, NEW p \in Running, pc[p] = "sent", pc'[p] = "done"
  PROVE  Apply(p)
<1>1. CASE UNCHANGED vars
  BY <1>1 DEF vars
<1>2. CASE Next
  <2>1. PICK q \in Running : Step(q)
    BY <1>2 DEF Next
  <2>2. q = p
    BY <2>1, StepFrame DEF IInv, Functions
  <2>3. QED
    BY <2>1, <2>2 DEF Step, Answer, Read, ReadRaises, Build, SetAttribute, SetItem,
                      MayChange, Write, WriteRaises
<1>3. QED
  BY <1>1, <1>2

(* What the server holds after an update: the members that were sent as they were sent, the
   others as they were. *)
LEMMA AppliedParts ==
  ASSUME IInv, NEW p \in Running, Apply(p)
  PROVE  /\ HasSent(p)
         /\ \A k \in DOMAIN held' : \/ k \in DOMAIN sent[p]
                                    \/ Kept(held, held', k)
         /\ \A k \in Mentioned(Class, sent[p]) : held'[k] = sent[p][k]
         /\ \A k \in Mentioned(Class, sent[p]) : k \in DOMAIN held'
<1>1. held' = Merged(Class, held, sent[p]) /\ HasSent(p)
  BY DEF Apply, HasSent
<1>2. Mentioned(Class, sent[p]) \subseteq DOMAIN sent[p]
  BY DEF Mentioned
<1>3. held' = [k \in DOMAIN held \cup Mentioned(Class, sent[p]) |->
                 IF k \in Mentioned(Class, sent[p]) THEN sent[p][k] ELSE held[k]]
  BY <1>1 DEF Merged
<1>4. QED
  BY <1>1, <1>2, <1>3 DEF Kept

\* The write of a built object changes only what the program has set or the
\* class cannot leave out.
THEOREM SparesOthers == Spec => BuiltSparesOthers
<1>1. ASSUME IInv, [Next]_vars
      PROVE  \A p \in Running : pc[p] = "sent" /\ pc'[p] = "done" /\ way[p] = "built" =>
               \A k \in DOMAIN held' :
                 Kept(held, held', k) \/ k \in Touched(p)
                   \/ (k \in Keys(Class) /\ (Class.fields[k].needed \/ Class.fields[k].preset))
  <2> SUFFICES ASSUME NEW p \in Running, pc[p] = "sent", pc'[p] = "done", way[p] = "built",
                      NEW k \in DOMAIN held', ~Kept(held, held', k), k \notin Touched(p)
               PROVE  k \in Keys(Class) /\ (Class.fields[k].needed \/ Class.fields[k].preset)
    OBVIOUS
  <2>1. Apply(p)
    BY <1>1, DoneIsApply
  <2>2. HasSent(p) /\ k \in DOMAIN sent[p]
    BY <1>1, <2>1, AppliedParts
  <2>3. QED
    BY <1>1, <2>2, BuiltLean DEF BuiltWritesOnlyChanges
<1>2. QED
  BY <1>1, Traced, PTL DEF Spec, BuiltSparesOthers

\* The write of an object that was read sets every value the program has seen
\* and left alone back to what it has seen.
THEOREM RestoresView == Spec => WriteBackRestoresView
<1>1. ASSUME IInv, [Next]_vars
      PROVE  \A p \in Running : pc[p] = "sent" /\ pc'[p] = "done" /\ way[p] = "read" =>
               \A k \in DOMAIN seen[p] \cap Keys(Class) :
                 k \notin Touched(p) /\ seen[p][k] \in {"full", "other", "filled"}
                   => held'[k] = seen[p][k]
  <2> SUFFICES ASSUME NEW p \in Running, pc[p] = "sent", pc'[p] = "done", way[p] = "read",
                      NEW k \in DOMAIN seen[p] \cap Keys(Class), k \notin Touched(p),
                      seen[p][k] \in {"full", "other", "filled"}
               PROVE  held'[k] = seen[p][k]
    OBVIOUS
  <2>1. Apply(p)
    BY <1>1, DoneIsApply
  <2>2. HasSent(p) /\ HasObject(p)
    BY <1>1, <2>1, AppliedParts, SentParts
  <2>3. obj[p].attrs[k] = ReadField(Class.fields[k], seen[p], k)
    BY <1>1, <2>2, ReadParts DEF Touched
  <2>4. obj[p].attrs[k] = seen[p][k]
    BY <2>3 DEF ReadField, Falsy, UNSET
  <2>5. IsWritten(Class.fields[k], obj[p].attrs[k])
    BY <2>4 DEF IsWritten, UNSET
  <2>6. k \in DOMAIN sent[p] /\ sent[p][k] = WriteField(Class.fields[k], seen[p][k])
    BY <1>1, <2>2, <2>4, <2>5, SentParts
  <2>7. sent[p][k] = seen[p][k] /\ k \in Mentioned(Class, sent[p])
    BY <2>6 DEF WriteField, Falsy, UNSET, Mentioned
  <2>8. QED
    BY <1>1, <2>1, <2>7, AppliedParts
<1>2. QED
  BY <1>1, Traced, PTL DEF Spec, WriteBackRestoresView

=============================================================================
