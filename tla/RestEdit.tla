------------------------------- MODULE RestEdit -------------------------------
(***************************************************************************)
(* Programs that change an object of the aqua service through the          *)
(* generated client.  A program either reads the object, changes           *)
(* attributes and writes it back, or builds a new object with nothing but  *)
(* its changes and writes that.  Several programs may work on the same     *)
(* object.                                                                 *)
(*                                                                         *)
(* The service is external.  Its answer to a read may leave a collection   *)
(* out (null), and what a write does not mention, or mentions as a null    *)
(* collection, stays as it is (docstrings of get_dashboard and             *)
(* update_dashboard).                                                      *)
(***************************************************************************)
EXTENDS RestCodec, Naturals, FiniteSets

CONSTANTS Classes,    \* class name -> its schema
          Documents,  \* class name -> the JSON objects the service may hold
          Programs,   \* class name -> the programs that edit an object of it
          Changes,    \* class name -> the <<key, value>> pairs they may set
          MaxChanges  \* bound: changes by one program

ASSUME ClassesAssumption == \A c \in DOMAIN Classes : IsSchema(Classes[c])

ASSUME DocumentsAssumption ==
  \A c \in DOMAIN Classes : \A d \in Documents[c] : IsDocument(d)

ASSUME ChangesAssumption ==
  \A c \in DOMAIN Classes : \A change \in Changes[c] :
    change[2] \in {"other", "null", "zero", UNSET}

VARIABLES
  cls,    \* the class of the object that is edited
  held,   \* the object as the service holds it
  pc,     \* program -> where it is
  way,    \* program -> how it came by its object
  seen,   \* program -> the answer it has got
  obj,    \* program -> its Python object
  set,    \* program -> the attributes it has set, with their values
  put,    \* program -> the keys it has set with obj[key] = value
  sent    \* program -> what it has written

vars == <<cls, held, pc, way, seen, obj, set, put, sent>>

Class == Classes[cls]
Running == Programs[cls]

Nothing == [k \in {} |-> "full"]
NoObject == [attrs |-> Nothing, more |-> Nothing]

\* f with f[k] = v
With(f, k, v) == [x \in DOMAIN f \cup {k} |-> IF x = k THEN v ELSE f[x]]

\* The collections a service may leave out
Collections(c) == {k \in Keys(c) : c.fields[k].shape = "list" /\ ~c.fields[k].needed}

-----------------------------------------------------------------------------
Init ==
  /\ cls \in DOMAIN Classes
  /\ held \in Documents[cls]
  /\ pc   = [p \in Running |-> "idle"]
  /\ way  = [p \in Running |-> "none"]
  /\ seen = [p \in Running |-> Nothing]
  /\ obj  = [p \in Running |-> NoObject]
  /\ set  = [p \in Running |-> Nothing]
  /\ put  = [p \in Running |-> Nothing]
  /\ sent = [p \in Running |-> Nothing]

\* The service answers a read: the object, perhaps without a collection.
Answer(p) ==
  /\ pc[p] = "idle"
  /\ \E out \in {{}} \cup {{k} : k \in Collections(Class)} :
       seen' = [seen EXCEPT ![p] = [k \in DOMAIN held |-> IF k \in out THEN "null" ELSE held[k]]]
  /\ pc' = [pc EXCEPT ![p] = "answered"]
  /\ way' = [way EXCEPT ![p] = "read"]
  /\ UNCHANGED <<cls, held, obj, set, put, sent>>

\* Class.from_dict(response.json())
Read(p) ==
  /\ pc[p] = "answered"
  /\ CanRead(Class, seen[p])
  /\ obj' = [obj EXCEPT ![p] = FromDict(Class, seen[p])]
  /\ pc' = [pc EXCEPT ![p] = "editing"]
  /\ UNCHANGED <<cls, held, way, seen, set, put, sent>>

\* KeyError, ValueError, TypeError or AttributeError out of from_dict
ReadRaises(p) ==
  /\ pc[p] = "answered"
  /\ ~CanRead(Class, seen[p])
  /\ pc' = [pc EXCEPT ![p] = "unreadable"]
  /\ UNCHANGED <<cls, held, way, seen, obj, set, put, sent>>

\* Class(...) with what it needs
Build(p) ==
  /\ pc[p] = "idle"
  /\ obj' = [obj EXCEPT ![p] = NewObject(Class)]
  /\ pc' = [pc EXCEPT ![p] = "editing"]
  /\ way' = [way EXCEPT ![p] = "built"]
  /\ UNCHANGED <<cls, held, seen, set, put, sent>>

MayChange(p) ==
  /\ pc[p] = "editing"
  /\ Cardinality(DOMAIN set[p]) + Cardinality(DOMAIN put[p]) < MaxChanges

\* What a program may give an attribute of that type
MayHold(f, v) ==
  /\ v = UNSET => ~f.needed
  /\ v = "zero" => f.shape = "any" \/ f.zero

\* obj.key = value
SetAttribute(p) ==
  /\ MayChange(p)
  /\ \E change \in Changes[cls] :
       LET k == change[1] IN
       LET v == change[2] IN
       /\ k \in Keys(Class)
       /\ MayHold(Class.fields[k], v)
       /\ obj' = [obj EXCEPT ![p].attrs = With(@, k, v)]
       /\ set' = [set EXCEPT ![p] = With(@, k, v)]
  /\ UNCHANGED <<cls, held, pc, way, seen, put, sent>>

\* obj[key] = value: __setitem__ of the classes with additional_properties.
\* It takes any key, also one the class declares.
SetItem(p) ==
  /\ MayChange(p)
  /\ Class.rest = "open"
  /\ \E change \in Changes[cls] :
       LET k == change[1] IN
       LET v == change[2] IN
       /\ v # UNSET
       /\ obj' = [obj EXCEPT ![p].more = With(@, k, v)]
       /\ put' = [put EXCEPT ![p] = With(@, k, v)]
  /\ UNCHANGED <<cls, held, pc, way, seen, set, sent>>

\* obj.to_dict() as the body of a request
Write(p) ==
  /\ pc[p] = "editing"
  /\ CanWrite(Class, obj[p])
  /\ sent' = [sent EXCEPT ![p] = ToDict(Class, obj[p])]
  /\ pc' = [pc EXCEPT ![p] = "sent"]
  /\ UNCHANGED <<cls, held, way, seen, obj, set, put>>

\* AttributeError or TypeError out of to_dict, before anything is sent
WriteRaises(p) ==
  /\ pc[p] = "editing"
  /\ ~CanWrite(Class, obj[p])
  /\ pc' = [pc EXCEPT ![p] = "unwritable"]
  /\ UNCHANGED <<cls, held, way, seen, obj, set, put, sent>>

\* What the service makes of a write
Mentioned(c, d) == {k \in DOMAIN d : ~(d[k] = "null" /\ k \in Collections(c))}

Merged(c, d, written) ==
  LET keys == Mentioned(c, written)
  IN [k \in DOMAIN d \cup keys |-> IF k \in keys THEN written[k] ELSE d[k]]

Apply(p) ==
  /\ pc[p] = "sent"
  /\ held' = Merged(Class, held, sent[p])
  /\ pc' = [pc EXCEPT ![p] = "done"]
  /\ UNCHANGED <<cls, way, seen, obj, set, put, sent>>

Step(p) ==
  \/ Answer(p) \/ Read(p) \/ ReadRaises(p) \/ Build(p)
  \/ SetAttribute(p) \/ SetItem(p)
  \/ Write(p) \/ WriteRaises(p) \/ Apply(p)

Next == \E p \in Running : Step(p)

Spec == Init /\ [][Next]_vars

-----------------------------------------------------------------------------
HasObject(p) == pc[p] \in {"editing", "sent", "done", "unwritable"}
HasSent(p) == pc[p] \in {"sent", "done"}

\* What from_dict and to_dict make has the types of an object and a document.
TypeOK ==
  /\ cls \in DOMAIN Classes
  /\ IsDocument(held)
  /\ pc \in [Running -> {"idle", "answered", "unreadable", "editing", "unwritable", "sent", "done"}]
  /\ way \in [Running -> {"none", "read", "built"}]
  /\ \A p \in Running :
       /\ IsDocument(seen[p])
       /\ IsDocument(sent[p])
       /\ HasObject(p) => IsObject(Class, obj[p]) /\ way[p] # "none"

-----------------------------------------------------------------------------
(* Safety *)

Touched(p) == DOMAIN set[p] \cup DOMAIN put[p]

\* What reading and writing back makes of a value nobody has changed
Collapses(f, d, k) ==   \* a collection that was null or left out comes back empty
  f.shape = "list" /\ ~f.needed /\ (k \in DOMAIN d => d[k] \in Falsy)
Blanks(f, v) ==         \* the falsy constant of a nullable enumeration comes back null
  f.shape = "enum" /\ f.nullable /\ v = "zero"
Fills(f, v) ==          \* the class of the value writes something else
  f.of # "" /\ v = "partial"

Kept(d, e, k) == (k \in DOMAIN d <=> k \in DOMAIN e) /\ (k \in DOMAIN d => d[k] = e[k])

\* A read, modify and write changes nothing but what the program has set and
\* what these lines name, for which the classes are to blame: from_dict turns
\* null and absent lists into [], to_dict takes 0 for None, nested classes are
\* no better than their own, and classes without additional_properties drop
\* the keys they do not declare.
WriteBackExact ==
  LET c == Class IN
  \A p \in Running : HasSent(p) /\ way[p] = "read" =>
    \A k \in (DOMAIN seen[p] \cup DOMAIN sent[p]) \ Touched(p) :
      IF k \notin Keys(c)
      THEN IF c.rest = "closed" THEN k \notin DOMAIN sent[p]
                                    ELSE Kept(seen[p], sent[p], k)
      ELSE LET f == c.fields[k] IN
           IF Collapses(f, seen[p], k)
           THEN k \in DOMAIN sent[p] /\ sent[p][k] = "empty"
           ELSE \/ Kept(seen[p], sent[p], k)
                \/ /\ k \in DOMAIN seen[p] \cap DOMAIN sent[p]
                   /\ \/ Blanks(f, seen[p][k]) /\ sent[p][k] = "null"
                      \/ Fills(f, seen[p][k]) /\ sent[p][k] = "filled"

\* What a program sets is what it writes: an attribute always (as null when it
\* is falsy and nullable), an item only where the class declares no attribute
\* of that key with a value, because to_dict writes additional_properties first.
ChangesArrive ==
  LET c == Class IN
  \A p \in Running : HasSent(p) =>
    /\ \A k \in DOMAIN set[p] :
         LET v == set[p][k] IN
         IF v = UNSET
         THEN k \in DOMAIN sent[p] => k \in DOMAIN put[p]
         ELSE k \in DOMAIN sent[p] /\ sent[p][k] \in IF v = "zero" THEN {"zero", "null"} ELSE {v}
    /\ \A k \in DOMAIN put[p] :
         /\ k \in DOMAIN sent[p]
         /\ k \notin Keys(c) => sent[p][k] = put[p][k]

\* to_dict raises only where the program itself has set None: whatever
\* from_dict has accepted can be written back.
UnwritableIsOwnFault ==
  LET c == Class IN
  \A p \in Running : pc[p] = "unwritable" =>
    \E k \in DOMAIN set[p] : set[p][k] = "null" /\ ~c.fields[k].nullable

\* What the client writes it can read again, as long as no item was set behind
\* the back of a declared attribute.
WrittenIsReadable ==
  LET c == Class IN
  \A p \in Running : HasSent(p) /\ DOMAIN put[p] \cap Keys(c) = {} =>
    CanRead(c, sent[p])

\* The losses of a read, modify and write happen once: writing back what has
\* been written back changes nothing any more.
WriteBackSettles ==
  LET c == Class IN
  \A p \in Running :
    /\ HasSent(p) /\ way[p] = "read"
    /\ DOMAIN put[p] \cap Keys(c) = {}
    /\ \A k \in DOMAIN set[p] : set[p][k] # UNSET /\ ~(set[p][k] = "null" /\ k \in Collections(c))
    => ToDict(c, FromDict(c, sent[p])) = sent[p]

\* Programs that build their objects do not undo each other's changes: what
\* such a write changes at the service is what that program has set, or what
\* the class cannot leave out.
BuiltSparesOthers ==
  [][LET c == Class IN
     \A p \in Running : pc[p] = "sent" /\ pc'[p] = "done" /\ way[p] = "built" =>
       \A k \in DOMAIN held' :
         Kept(held, held', k) \/ k \in Touched(p)
           \/ (k \in Keys(c) /\ (c.fields[k].needed \/ c.fields[k].preset))]_vars

\* A program that writes back what it has read sets the object back to its own
\* view: a change another program has made in between survives only where that
\* view had the same value or did not know the key.
WriteBackRestoresView ==
  [][LET c == Class IN
     \A p \in Running : pc[p] = "sent" /\ pc'[p] = "done" /\ way[p] = "read" =>
       \A k \in DOMAIN seen[p] \cap Keys(c) :
         k \notin Touched(p) /\ seen[p][k] \in {"full", "other", "filled"}
           => held'[k] = seen[p][k]]_vars

\* Docstring of update_dashboard: the collections "are updated only if they
\* are present in the received data - sending null means the collection
\* remains unchanged".  A program that was not given a collection and has not
\* touched it leaves it alone.
UntouchedCollectionsStay ==
  [][LET c == Class IN
     \A p \in Running : pc[p] = "sent" /\ pc'[p] = "done" =>
       \A k \in DOMAIN held \cap Collections(c) :
         (k \notin Touched(p) /\ (k \in DOMAIN seen[p] => seen[p][k] = "null"))
           => held'[k] = held[k]]_vars
=============================================================================
