------------------------ MODULE RelationsCache_proofs ------------------------
(***************************************************************************)
(* The cache's keys, objects and references stay in step, no operation     *)
(* fails half-way, and the cache implements CascadeDb, for any number of   *)
(* schemas, names and threads, where no two names differ only in case.     *)
(***************************************************************************)
EXTENDS RelationsCache, TLAPS

\* No two relations have names that differ only in case.
OneCase == \A r, s \in Relation : MakeKey(r) = MakeKey(s) => r = s

\* An object is found under its key as long as it exists,
ObjectsAgree == \A o \in Obj : inner[o] # Nil => relations[KeyOf(o)] = o

\* a free address has no references,
FreeHasNone == \A o \in Obj : inner[o] = Nil => \A k \in Key : referenced_by[o][k] = Nil

\* what any object lists is cached as the same object, and
RefsAgree ==
    \A o \in Obj, k \in Key : referenced_by[o][k] # Nil => relations[k] = referenced_by[o][k]

\* no object lists itself.
NoSelfRef == \A o \in Obj, k \in Key : referenced_by[o][k] # o

\* The inductive invariant
CInv ==
    /\ TypeOK
    /\ EntriesAgree
    /\ ObjectsAgree
    /\ FreeHasNone
    /\ RefsAgree
    /\ NoSelfRef
    /\ NotTorn
    /\ SchemaKnown

-----------------------------------------------------------------------------
(* What the invariant says of single keys and objects *)

LEMMA KeyFacts == \A r \in Relation : MakeKey(r) \in Key /\ MakeKey(r)[1] \in Schema
BY DEF MakeKey, Relation, Key

LEMMA Graph ==
    ASSUME CInv
    PROVE  /\ relations \in [Key -> Obj \cup {Nil}]
           /\ inner \in [Obj -> Relation \cup {Nil}]
           /\ referenced_by \in [Obj -> [Key -> Obj \cup {Nil}]]
           /\ Nil \notin Obj
           /\ \A k \in Key : relations[k] # Nil =>
                relations[k] \in Obj /\ inner[relations[k]] \in Relation /\ inner[relations[k]] # Nil
                /\ KeyOf(relations[k]) = k /\ k[1] \in schemas
           /\ \A o \in Obj : inner[o] # Nil =>
                inner[o] \in Relation /\ KeyOf(o) \in Key /\ relations[KeyOf(o)] = o
           /\ \A o \in Obj : inner[o] = Nil => \A k \in Key : referenced_by[o][k] = Nil
           /\ \A o \in Obj, k \in Key : referenced_by[o][k] # Nil =>
                /\ relations[k] = referenced_by[o][k] /\ referenced_by[o][k] \in Obj
                /\ inner[o] # Nil
           /\ \A o \in Obj, k \in Key : referenced_by[o][k] # o
<1>1. /\ relations \in [Key -> Obj \cup {Nil}]
      /\ inner \in [Obj -> Relation \cup {Nil}]
      /\ referenced_by \in [Obj -> [Key -> Obj \cup {Nil}]]
   BY DEF CInv, TypeOK
<1>2. Nil \notin Obj BY NilAssumption
<1>3. \A k \in Key : relations[k] # Nil =>
         relations[k] \in Obj /\ inner[relations[k]] \in Relation /\ inner[relations[k]] # Nil
         /\ KeyOf(relations[k]) = k /\ k[1] \in schemas
   BY <1>1 DEF CInv, EntriesAgree, SchemaKnown, Known
<1>4. \A o \in Obj : inner[o] # Nil =>
         inner[o] \in Relation /\ KeyOf(o) \in Key /\ relations[KeyOf(o)] = o
   BY <1>1, KeyFacts DEF CInv, ObjectsAgree, KeyOf
<1>5. \A o \in Obj : inner[o] = Nil => \A k \in Key : referenced_by[o][k] = Nil
   BY DEF CInv, FreeHasNone
<1>6. \A o \in Obj, k \in Key : referenced_by[o][k] # Nil =>
         /\ relations[k] = referenced_by[o][k] /\ referenced_by[o][k] \in Obj
         /\ inner[o] # Nil
   BY <1>1, <1>5 DEF CInv, RefsAgree
<1>7. \A o \in Obj, k \in Key : referenced_by[o][k] # o BY DEF CInv, NoSelfRef
<1> QED BY <1>1, <1>2, <1>3, <1>4, <1>5, <1>6, <1>7

\* How the lemmas below conclude: what they show of the next state
LEMMA Conclude ==
    ASSUME TypeOK',
           \A k \in Key : relations'[k] # Nil =>
              inner'[relations'[k]] # Nil /\ MakeKey(inner'[relations'[k]]) = k /\ k[1] \in schemas',
           \A o \in Obj : inner'[o] # Nil => relations'[MakeKey(inner'[o])] = o,
           \A o \in Obj : inner'[o] = Nil => \A k \in Key : referenced_by'[o][k] = Nil,
           \A o \in Obj, k \in Key :
              referenced_by'[o][k] # Nil => relations'[k] = referenced_by'[o][k],
           \A o \in Obj, k \in Key : referenced_by'[o][k] # o,
           NotTorn'
    PROVE  CInv'
BY DEF CInv, EntriesAgree, ObjectsAgree, FreeHasNone, RefsAgree, NoSelfRef, SchemaKnown,
       KeyOf, Known

-----------------------------------------------------------------------------
(* The steps *)

LEMMA InitInv == ASSUME Init PROVE CInv
<1>1. TypeOK BY DEF Init, TypeOK, NoRefs
<1>2. EntriesAgree /\ SchemaKnown BY DEF Init, EntriesAgree, SchemaKnown, Known, NoRefs
<1>3. ObjectsAgree /\ FreeHasNone /\ RefsAgree
   BY DEF Init, ObjectsAgree, FreeHasNone, RefsAgree, NoRefs
<1>4. NoSelfRef /\ NotTorn BY NilAssumption DEF Init, NoSelfRef, NotTorn, NoRefs
<1> QED BY <1>1, <1>2, <1>3, <1>4 DEF CInv

\* A step that leaves the graph alone
LEMMA GraphKept ==
    ASSUME CInv, TypeOK', UNCHANGED <<graphVars, errors>>, SchemaKnown'
    PROVE  CInv'
<1>1. relations' = relations /\ inner' = inner /\ referenced_by' = referenced_by
      /\ errors' = errors
   BY DEF graphVars
<1>2. NotTorn' BY <1>1 DEF CInv, NotTorn
<1>3. EntriesAgree' BY <1>1 DEF CInv, EntriesAgree, Known, KeyOf
<1>4. ObjectsAgree' BY <1>1 DEF CInv, ObjectsAgree, KeyOf
<1>5. FreeHasNone' /\ RefsAgree' /\ NoSelfRef'
   BY <1>1 DEF CInv, FreeHasNone, RefsAgree, NoSelfRef
<1> QED BY <1>2, <1>3, <1>4, <1>5 DEF CInv

LEMMA SetDefaultInv ==
    ASSUME CInv, NEW r \in Relation, SetDefault(r),
           UNCHANGED <<linked, dropping, errors>>, phase' = phase
    PROVE  CInv'
<1> DEFINE k == MakeKey(r)
<1>1. k \in Key /\ k[1] \in Schema BY KeyFacts
<1>2. schemas' = schemas \cup {k[1]} BY DEF SetDefault
<1>3. schemas' \subseteq Schema BY <1>1, <1>2 DEF CInv, TypeOK
<1>4. NotTorn' BY DEF CInv, NotTorn
<1>5. CASE Known(k)
   <2>1. relations' = relations /\ inner' = inner /\ referenced_by' = referenced_by
      BY <1>5 DEF SetDefault, graphVars
   <2>2. TypeOK' BY <1>3, <2>1 DEF CInv, TypeOK
   <2>3. SchemaKnown' BY <1>2, <2>1 DEF CInv, SchemaKnown, Known
   <2> QED BY <2>1, <2>2, <2>3, GraphKept DEF graphVars
<1>6. CASE ~Known(k)
   <2>1. PICK o \in Obj : /\ inner[o] = Nil
                          /\ relations' = [relations EXCEPT ![k] = o]
                          /\ inner' = [inner EXCEPT ![o] = r]
                          /\ referenced_by' = referenced_by
      BY <1>6 DEF SetDefault
   <2>2. relations[k] = Nil BY <1>6 DEF Known
   <2> HIDE DEF k
   <2>3. /\ relations' \in [Key -> Obj \cup {Nil}] /\ relations'[k] = o
         /\ \A i \in Key : i # k => relations'[i] = relations[i]
      BY <1>1, <2>1, Graph
   <2>4. /\ inner' \in [Obj -> Relation \cup {Nil}] /\ inner'[o] = r
         /\ \A p \in Obj : p # o => inner'[p] = inner[p]
      BY <2>1, Graph
   <2>5. r # Nil /\ MakeKey(r) = k BY NilAssumption DEF k
   <2>6. TypeOK' BY <1>3, <2>1, <2>3, <2>4 DEF CInv, TypeOK
   <2>7. \A i \in Key : relations'[i] # Nil =>
            inner'[relations'[i]] # Nil /\ MakeKey(inner'[relations'[i]]) = i /\ i[1] \in schemas'
      <3>1. \A i \in Key : i # k /\ relations[i] # Nil => relations[i] \in Obj /\ relations[i] # o
         BY <2>1, Graph
      <3> QED BY <1>2, <2>3, <2>4, <2>5, <3>1, Graph DEF KeyOf
   <2>8. \A p \in Obj : inner'[p] # Nil => relations'[MakeKey(inner'[p])] = p
      <3>1. \A p \in Obj : inner[p] # Nil => MakeKey(inner[p]) \in Key \ {k}
         BY <2>2, Graph DEF KeyOf
      <3> QED BY <2>1, <2>3, <2>4, <2>5, <3>1, Graph DEF KeyOf
   <2>9. \A p \in Obj : inner'[p] = Nil => \A i \in Key : referenced_by'[p][i] = Nil
      BY <2>1, <2>4, <2>5, Graph
   <2>10. \A p \in Obj, i \in Key :
             referenced_by'[p][i] # Nil => relations'[i] = referenced_by'[p][i]
      BY <2>1, <2>2, <2>3, Graph
   <2>11. \A p \in Obj, i \in Key : referenced_by'[p][i] # p BY <2>1, Graph
   <2> QED BY <1>4, <2>6, <2>7, <2>8, <2>9, <2>10, <2>11, Conclude
<1> QED BY <1>5, <1>6

LEMMA AddLinkInv ==
    ASSUME CInv, OneCase, NEW r \in Relation, NEW s \in Relation, add_link(r, s)
    PROVE  CInv'
<1> DEFINE j == MakeKey(r)
           k == MakeKey(s)
<1>1. j \in Key /\ k \in Key /\ j[1] \in Schema /\ k[1] \in Schema BY KeyFacts
<1>2. j # k
   <2>1. r # s BY DEF add_link, Dependents
   <2> QED BY <2>1 DEF OneCase
<1>3. PICK o \in Obj, p \in Obj :
         /\ Entry(j, o) /\ Entry(k, p) /\ (o = p <=> j = k)
         /\ relations' = [relations EXCEPT ![j] = o, ![k] = p]
         /\ inner' = [inner EXCEPT ![p] = IF Known(k) THEN @ ELSE s,
                                   ![o] = IF Known(j) THEN @ ELSE r]
         /\ referenced_by' = [referenced_by EXCEPT ![o][k] = p]
   BY Zenon DEF add_link
<1>4. /\ schemas' = schemas \cup {j[1], k[1]} /\ linked' = linked \cup {<<r, s>>}
      /\ phase' = phase /\ dropping' = dropping /\ errors' = errors
   BY DEF add_link
<1>5. r # Nil /\ s # Nil /\ MakeKey(r) = j /\ MakeKey(s) = k BY NilAssumption
<1> HIDE DEF j, k
<1>6. /\ o # p
      /\ relations[j] = o \/ (relations[j] = Nil /\ inner[o] = Nil)
      /\ relations[k] = p \/ (relations[k] = Nil /\ inner[p] = Nil)
   BY <1>2, <1>3 DEF Entry, Known
<1>7. /\ relations' \in [Key -> Obj \cup {Nil}] /\ relations'[j] = o /\ relations'[k] = p
      /\ \A i \in Key : i # j /\ i # k => relations'[i] = relations[i]
   BY <1>1, <1>2, <1>3, Graph
<1>8. /\ inner' \in [Obj -> Relation \cup {Nil}]
      /\ inner'[o] = IF relations[j] = o THEN inner[o] ELSE r
      /\ inner'[p] = IF relations[k] = p THEN inner[p] ELSE s
      /\ \A q \in Obj : q # o /\ q # p => inner'[q] = inner[q]
   BY <1>3, <1>6, Graph DEF Known
<1>9. inner'[o] # Nil /\ MakeKey(inner'[o]) = j /\ inner'[p] # Nil /\ MakeKey(inner'[p]) = k
   BY <1>1, <1>5, <1>6, <1>8, Graph DEF KeyOf
<1>10. /\ referenced_by' \in [Obj -> [Key -> Obj \cup {Nil}]] /\ referenced_by'[o][k] = p
       /\ \A q \in Obj, i \in Key : q # o \/ i # k => referenced_by'[q][i] = referenced_by[q][i]
   BY <1>1, <1>3, Graph
<1>11. TypeOK'
   <2>1. schemas' \subseteq Schema /\ linked' \subseteq Relation \X Relation
      BY <1>1, <1>4 DEF CInv, TypeOK
   <2> QED BY <1>4, <1>7, <1>8, <1>10, <2>1 DEF CInv, TypeOK
<1>12. \A i \in Key : i # j /\ i # k /\ relations[i] # Nil =>
          relations[i] \in Obj /\ relations[i] # o /\ relations[i] # p
   BY <1>1, <1>6, Graph
<1>13. \A i \in Key : relations'[i] # Nil =>
          inner'[relations'[i]] # Nil /\ MakeKey(inner'[relations'[i]]) = i /\ i[1] \in schemas'
   BY <1>4, <1>7, <1>8, <1>9, <1>12, Graph DEF KeyOf
<1>14. \A q \in Obj : q # o /\ q # p /\ inner[q] # Nil => MakeKey(inner[q]) \in Key \ {j, k}
   BY <1>6, Graph DEF KeyOf
<1>15. \A q \in Obj : inner'[q] # Nil => relations'[MakeKey(inner'[q])] = q
   BY <1>7, <1>8, <1>9, <1>14, Graph DEF KeyOf
<1>16. \A q \in Obj : inner'[q] = Nil => \A i \in Key : referenced_by'[q][i] = Nil
   BY <1>8, <1>9, <1>10, Graph
<1>17. \A q \in Obj, i \in Key :
          referenced_by'[q][i] # Nil => relations'[i] = referenced_by'[q][i]
   <2>1. \A q \in Obj, i \in Key : referenced_by[q][i] # Nil => relations'[i] = relations[i]
      BY <1>1, <1>6, <1>7, Graph
   <2>2. \A q \in Obj, i \in Key : referenced_by[q][i] # Nil => relations'[i] = referenced_by[q][i]
      BY <2>1, Graph
   <2> SUFFICES ASSUME NEW q \in Obj, NEW i \in Key, referenced_by'[q][i] # Nil
                PROVE  relations'[i] = referenced_by'[q][i]
      OBVIOUS
   <2>3. CASE q = o /\ i = k BY <1>7, <1>10, <2>3
   <2>4. CASE q # o \/ i # k
      <3>1. referenced_by'[q][i] = referenced_by[q][i] BY Zenon, <1>10, <2>4
      <3> QED BY Zenon, <2>2, <3>1
   <2> QED BY <2>3, <2>4
<1>18. \A q \in Obj, i \in Key : referenced_by'[q][i] # q
   <2>1. \A q \in Obj, i \in Key : referenced_by[q][i] # q BY Graph
   <2>2. ASSUME NEW q \in Obj, NEW i \in Key PROVE referenced_by'[q][i] # q
      <3>1. CASE q = o /\ i = k BY Zenon, <1>6, <1>10, <3>1
      <3>2. CASE q # o \/ i # k
         <4>1. referenced_by'[q][i] = referenced_by[q][i] BY Zenon, <1>10, <3>2
         <4> QED BY Zenon, <2>1, <4>1
      <3> QED BY <3>1, <3>2
   <2> QED BY Zenon, <2>2
<1>19. NotTorn' BY <1>4 DEF CInv, NotTorn
<1> QED BY <1>11, <1>13, <1>15, <1>16, <1>17, <1>18, <1>19, Conclude

LEMMA ReachedFacts ==
    ASSUME CInv, NEW D, D \subseteq Cached
    PROVE  /\ Reached(D) \subseteq Cached /\ D \subseteq Reached(D)
           /\ \A q \in Reached(D) : Referrers(q) \subseteq Reached(D)
           /\ Cached = {o \in Obj : inner[o] # Nil}
<1>1. Cached = {o \in Obj : inner[o] # Nil} BY Graph DEF Cached
<1>2. \A q \in Obj : Referrers(q) \subseteq Cached BY Graph DEF Referrers, Cached
<1>3. Cached \subseteq Obj BY <1>1
<1>4. Reached(D) \subseteq Cached BY <1>2, <1>3 DEF Reached
<1>5. D \subseteq Reached(D) BY <1>3 DEF Reached
<1>6. \A q \in Reached(D) : Referrers(q) \subseteq Reached(D)
   <2> SUFFICES ASSUME NEW q \in Reached(D), NEW p \in Referrers(q) PROVE p \in Reached(D)
      OBVIOUS
   <2>1. p \in Obj BY <1>2, <1>3, <1>4
   <2> QED BY <2>1 DEF Reached
<1> QED BY <1>1, <1>4, <1>5, <1>6

\* What _remove_refs does to an object and a key
LEMMA RemoveRefsFacts ==
    ASSUME CInv, NEW keys, keys \subseteq Key, \A k \in keys : relations[k] # Nil,
           RemoveRefs(keys)
    PROVE  /\ relations' \in [Key -> Obj \cup {Nil}]
           /\ \A k \in Key : relations'[k] = IF k \in keys THEN Nil ELSE relations[k]
           /\ inner' \in [Obj -> Relation \cup {Nil}]
           /\ \A o \in Obj : inner'[o] # Nil =>
                 inner'[o] = inner[o] /\ MakeKey(inner[o]) \notin keys
           /\ \A o \in Obj : inner'[o] = Nil => inner[o] = Nil \/ MakeKey(inner[o]) \in keys
           /\ referenced_by' \in [Obj -> [Key -> Obj \cup {Nil}]]
           /\ \A o \in Obj, k \in Key :
                 referenced_by'[o][k] = IF inner'[o] = Nil \/ k \in keys THEN Nil
                                        ELSE referenced_by[o][k]
<1> DEFINE gone == {relations[k] : k \in keys}
<1>1. /\ relations' = [k \in Key |-> IF k \in keys THEN Nil ELSE relations[k]]
      /\ inner' = [o \in Obj |-> IF o \in gone THEN Nil ELSE inner[o]]
      /\ referenced_by' =
           [o \in Obj |-> IF o \in gone THEN NoRefs
                          ELSE [k \in Key |-> IF k \in keys THEN Nil ELSE referenced_by[o][k]]]
   BY Zenon DEF RemoveRefs
<1>2. \A o \in gone : o \in Obj /\ inner[o] # Nil /\ MakeKey(inner[o]) \in keys
   BY Graph DEF KeyOf
<1>3. \A o \in Obj : inner[o] # Nil /\ MakeKey(inner[o]) \in keys => o \in gone
   BY Graph DEF KeyOf
<1> HIDE DEF gone
<1>4. /\ relations' \in [Key -> Obj \cup {Nil}]
      /\ \A k \in Key : relations'[k] = IF k \in keys THEN Nil ELSE relations[k]
   BY <1>1, Graph
<1>5. /\ inner' \in [Obj -> Relation \cup {Nil}]
      /\ \A o \in Obj : inner'[o] = IF o \in gone THEN Nil ELSE inner[o]
   BY <1>1, Graph
<1>6. referenced_by' \in [Obj -> [Key -> Obj \cup {Nil}]] BY <1>1, Graph DEF NoRefs
<1>7. \A o \in Obj, k \in Key :
         referenced_by'[o][k] = IF o \in gone \/ k \in keys THEN Nil ELSE referenced_by[o][k]
   BY <1>1 DEF NoRefs
<1>8. \A o \in Obj : inner'[o] # Nil =>
         inner'[o] = inner[o] /\ MakeKey(inner[o]) \notin keys
   BY <1>3, <1>5
<1>9. \A o \in Obj : inner'[o] = Nil => inner[o] = Nil \/ MakeKey(inner[o]) \in keys
   BY <1>2, <1>5
<1>10. \A o \in Obj, k \in Key :
          referenced_by'[o][k] = IF inner'[o] = Nil \/ k \in keys THEN Nil
                                 ELSE referenced_by[o][k]
   BY <1>5, <1>7, Graph
<1> QED BY <1>4, <1>5, <1>6, <1>8, <1>9, <1>10

LEMMA RemoveRefsInv ==
    ASSUME CInv, NEW keys, keys \subseteq Key, \A k \in keys : relations[k] # Nil,
           RemoveRefs(keys), NotTorn', errors' \subseteq {"KeyError", "InternalError", "RecursionError"},
           phase' = phase, linked' = linked, dropping' \in [Thread -> Schema \cup {Nil}],
           schemas' \subseteq Schema,
           \A k \in Key \ keys : relations[k] # Nil => k[1] \in schemas'
    PROVE  CInv'
<1>1. TypeOK' BY RemoveRefsFacts DEF CInv, TypeOK
<1>2. \A k \in Key : relations'[k] # Nil =>
         inner'[relations'[k]] # Nil /\ MakeKey(inner'[relations'[k]]) = k /\ k[1] \in schemas'
   <2> SUFFICES ASSUME NEW k \in Key, relations'[k] # Nil
                PROVE  /\ inner'[relations'[k]] # Nil /\ MakeKey(inner'[relations'[k]]) = k
                       /\ k[1] \in schemas'
      OBVIOUS
   <2>1. k \notin keys /\ relations'[k] = relations[k] BY RemoveRefsFacts
   <2>2. relations[k] \in Obj /\ inner[relations[k]] # Nil /\ MakeKey(inner[relations[k]]) = k
      BY <2>1, Graph DEF KeyOf
   <2> QED BY <2>1, <2>2, RemoveRefsFacts
<1>3. \A o \in Obj : inner'[o] # Nil => relations'[MakeKey(inner'[o])] = o
   BY RemoveRefsFacts, Graph DEF KeyOf
<1>4. \A o \in Obj : inner'[o] = Nil => \A k \in Key : referenced_by'[o][k] = Nil
   BY RemoveRefsFacts
<1>5. \A o \in Obj, k \in Key :
         referenced_by'[o][k] # Nil => relations'[k] = referenced_by'[o][k]
   BY RemoveRefsFacts, Graph
<1>6. \A o \in Obj, k \in Key : referenced_by'[o][k] # o
   BY RemoveRefsFacts, Graph
<1> QED BY <1>1, <1>2, <1>3, <1>4, <1>5, <1>6, Conclude

\* The keys that a cascade removes are all cached.
LEMMA ConsequenceKeys ==
    ASSUME CInv, NEW D, D \subseteq Cached
    PROVE  /\ collect_consequences(D) \subseteq Key
           /\ \A k \in collect_consequences(D) : relations[k] \in Reached(D) /\ relations[k] # Nil
           /\ \A k \in Key : relations[k] \in Reached(D) => k \in collect_consequences(D)
           /\ DelErrors(collect_consequences(D)) = {}
<1>1. \A p \in Reached(D) : p \in Obj /\ inner[p] # Nil BY ReachedFacts
<1>2. \A p \in Reached(D) : p # Nil /\ KeyOf(p) \in Key /\ relations[KeyOf(p)] = p
   BY <1>1, Graph
<1>3. /\ collect_consequences(D) \subseteq Key
      /\ \A k \in collect_consequences(D) : relations[k] \in Reached(D) /\ relations[k] # Nil
   BY <1>2 DEF collect_consequences
<1>4. \A k \in Key : relations[k] \in Reached(D) => k \in collect_consequences(D)
   BY <1>2, Graph DEF collect_consequences
<1> QED BY <1>3, <1>4 DEF DelErrors, Known

LEMMA DropInv ==
    ASSUME CInv, NEW t \in Thread, NEW r \in Relation, drop(t, r)
    PROVE  CInv'
<1> DEFINE O == {relations[MakeKey(r)]}
<1>1. /\ schemas' = schemas /\ phase' = phase /\ linked' = linked /\ dropping' = dropping
      /\ relations[MakeKey(r)] # Nil
   BY DEF drop, Known
<1>2. PICK D \in SUBSET O :
         /\ RemoveRefs(collect_consequences(D))
         /\ errors' = errors \cup DelErrors(collect_consequences(D)) \cup RecursionErrors(O)
   BY Zenon DEF drop, RemoveCascade
<1>3. D \subseteq Cached BY <1>1, KeyFacts DEF Cached
<1>4. errors' \subseteq errors \cup {"RecursionError"} BY <1>2, <1>3, ConsequenceKeys DEF RecursionErrors
<1>5. NotTorn' /\ errors' \subseteq {"KeyError", "InternalError", "RecursionError"}
   BY <1>4 DEF CInv, NotTorn, TypeOK
<1>6. /\ schemas' \subseteq Schema /\ dropping' \in [Thread -> Schema \cup {Nil}]
      /\ \A k \in Key : relations[k] # Nil => k[1] \in schemas'
   BY <1>1 DEF CInv, TypeOK, SchemaKnown, Known
<1>7. /\ collect_consequences(D) \subseteq Key
      /\ \A k \in collect_consequences(D) : relations[k] # Nil
   BY <1>3, ConsequenceKeys
<1>8. \A k \in Key \ collect_consequences(D) : relations[k] # Nil => k[1] \in schemas'
   BY Zenon, <1>6
<1> HIDE DEF O
<1> QED BY <1>1, <1>2, <1>5, <1>6, <1>7, <1>8, RemoveRefsInv

LEMMA DropSchemaInv ==
    ASSUME CInv, NEW t \in Thread, DropSchemaLocked(t)
    PROVE  CInv'
<1> DEFINE O == InSchema(dropping[t])
<1>1. /\ phase' = phase /\ linked' = linked
      /\ dropping' = [dropping EXCEPT ![t] = Nil]
      /\ schemas' = IF Endless(O) THEN schemas ELSE schemas \ {dropping[t]}
   BY DEF DropSchemaLocked
<1>2. PICK D \in SUBSET O :
         /\ Endless(O) \/ D = O
         /\ RemoveRefs(collect_consequences(D))
         /\ errors' = errors \cup DelErrors(collect_consequences(D)) \cup RecursionErrors(O)
   BY Zenon DEF DropSchemaLocked, RemoveCascade
<1>3. D \subseteq Cached BY DEF Cached, InSchema, Known
<1>4. errors' \subseteq errors \cup {"RecursionError"} BY <1>2, <1>3, ConsequenceKeys DEF RecursionErrors
<1>5. NotTorn' /\ errors' \subseteq {"KeyError", "InternalError", "RecursionError"}
   BY <1>4 DEF CInv, NotTorn, TypeOK
<1>6. schemas' \subseteq Schema /\ dropping' \in [Thread -> Schema \cup {Nil}]
   BY <1>1 DEF CInv, TypeOK
<1>7. /\ collect_consequences(D) \subseteq Key
      /\ \A k \in collect_consequences(D) : relations[k] # Nil
   BY <1>3, ConsequenceKeys
<1>8. \A k \in Key \ collect_consequences(D) : relations[k] # Nil => k[1] \in schemas'
   <2> SUFFICES ASSUME NEW k \in Key, k \notin collect_consequences(D), relations[k] # Nil
                PROVE  k[1] \in schemas'
      OBVIOUS
   <2>1. k[1] \in schemas BY DEF CInv, SchemaKnown, Known
   <2>2. relations[k] \notin D BY <1>3, ReachedFacts, ConsequenceKeys
   <2>3. CASE D = O
      <3>1. k[1] # dropping[t] BY <2>2, <2>3 DEF InSchema, Known
      <3> QED BY <1>1, <2>1, <3>1
   <2> QED BY <1>1, <1>2, <2>1, <2>3
<1> QED BY <1>1, <1>2, <1>5, <1>6, <1>7, <1>8, RemoveRefsInv

\* What _rename_relation does to an object and a key
LEMMA RenameFacts ==
    ASSUME CInv, NEW old \in Key, NEW r \in Relation, NEW new, new = MakeKey(r), NEW o,
           o = relations[old], relations[old] # Nil, relations[new] = Nil,
           RenameRelation(old, r)
    PROVE  /\ new \in Key /\ new # old /\ o \in Obj /\ inner[o] # Nil /\ new[1] \in Schema
           /\ relations' \in [Key -> Obj \cup {Nil}]
           /\ relations'[old] = Nil /\ relations'[new] = o
           /\ \A k \in Key : k # old /\ k # new => relations'[k] = relations[k]
           /\ inner' \in [Obj -> Relation \cup {Nil}] /\ inner'[o] = r
           /\ \A p \in Obj : p # o => inner'[p] = inner[p]
           /\ referenced_by' \in [Obj -> [Key -> Obj \cup {Nil}]]
           /\ \A p \in Obj, k \in Key : k # old /\ k # new => referenced_by'[p][k] = referenced_by[p][k]
           /\ \A p \in Obj : referenced_by'[p][old] = Nil
           /\ \A p \in Obj : referenced_by'[p][new] = referenced_by[p][old]
           /\ \A p \in Obj : referenced_by[p][old] # Nil => referenced_by[p][old] = o
           /\ \A p \in Obj : referenced_by[p][new] = Nil
           /\ schemas' = schemas \cup {new[1]}
           /\ errors' = errors
<1> DEFINE referred == {p \in Cached \ {o} : referenced_by[p][old] # Nil}
<1>1. /\ relations' = [relations EXCEPT ![old] = Nil, ![new] = o]
      /\ inner' = [inner EXCEPT ![o] = r]
      /\ referenced_by' =
           [p \in Obj |-> IF p \in referred
                          THEN [referenced_by[p] EXCEPT ![old] = Nil,
                                                        ![new] = referenced_by[p][old]]
                          ELSE referenced_by[p]]
      /\ schemas' = schemas \cup {new[1]}
      /\ errors' = errors \cup (IF \A p \in referred : referenced_by[p][new] = Nil
                                THEN {} ELSE {"InternalError"})
   BY Zenon DEF RenameRelation
<1>2. new \in Key /\ new[1] \in Schema BY KeyFacts
<1>3. new # old /\ o \in Obj /\ inner[o] # Nil BY Graph
<1>4. \A p \in Obj : referenced_by[p][new] = Nil BY <1>2, Graph
<1>5. \A p \in Obj : referenced_by[p][old] # Nil => referenced_by[p][old] = o BY Graph
<1>6. \A p \in Obj : p \in referred <=> referenced_by[p][old] # Nil
   <2>1. \A p \in Obj : referenced_by[p][old] # Nil => p # o BY <1>5, Graph
   <2>2. \A p \in Obj : referenced_by[p][old] # Nil => p \in Cached BY Graph DEF Cached
   <2> QED BY <2>1, <2>2
<1>7. referred \subseteq Obj BY Graph DEF Cached
<1> HIDE DEF referred
<1>8. errors' = errors BY <1>1, <1>4, <1>7
<1>9. /\ relations' \in [Key -> Obj \cup {Nil}]
      /\ relations'[old] = Nil /\ relations'[new] = o
      /\ \A k \in Key : k # old /\ k # new => relations'[k] = relations[k]
   BY <1>1, <1>2, <1>3, Graph
<1>10. /\ inner' \in [Obj -> Relation \cup {Nil}] /\ inner'[o] = r
       /\ \A p \in Obj : p # o => inner'[p] = inner[p]
   BY <1>1, <1>3, Graph
<1>11. ASSUME NEW p \in Obj
       PROVE  /\ referenced_by'[p] \in [Key -> Obj \cup {Nil}]
              /\ referenced_by'[p][old] = Nil
              /\ referenced_by'[p][new] = referenced_by[p][old]
              /\ \A k \in Key : k # old /\ k # new => referenced_by'[p][k] = referenced_by[p][k]
   <2>1. CASE p \in referred
      <3>1. referenced_by'[p] = [referenced_by[p] EXCEPT ![old] = Nil,
                                                         ![new] = referenced_by[p][old]]
         BY <1>1, <1>11, <2>1
      <3>2. referenced_by[p] \in [Key -> Obj \cup {Nil}] BY <1>11, Graph
      <3> QED BY <1>2, <1>3, <3>1, <3>2
   <2>2. CASE p \notin referred
      <3>1. referenced_by'[p] = referenced_by[p] BY <1>1, <1>11, <2>2
      <3> QED BY <1>4, <1>6, <1>11, <2>2, <3>1, Graph
   <2> QED BY <2>1, <2>2
<1>12. referenced_by' \in [Obj -> [Key -> Obj \cup {Nil}]]
   <2>1. referenced_by' = [p \in Obj |-> referenced_by'[p]] BY <1>1
   <2> QED BY <1>11, <2>1
<1>13. /\ \A p \in Obj, k \in Key : k # old /\ k # new => referenced_by'[p][k] = referenced_by[p][k]
       /\ \A p \in Obj : referenced_by'[p][old] = Nil
       /\ \A p \in Obj : referenced_by'[p][new] = referenced_by[p][old]
   BY Zenon, <1>11
<1>14. schemas' = schemas \cup {new[1]} BY <1>1
<1> QED BY Zenon, <1>2, <1>3, <1>4, <1>5, <1>8, <1>9, <1>10, <1>12, <1>13, <1>14

LEMMA RenameRelationInv ==
    ASSUME CInv, NEW old \in Key, NEW r \in Relation,
           relations[old] # Nil, relations[MakeKey(r)] = Nil,
           RenameRelation(old, r), phase' = phase, linked' = linked, dropping' = dropping
    PROVE  CInv'
<1> DEFINE new == MakeKey(r)
           o == relations[old]
<1>1. /\ new \in Key /\ new # old /\ o \in Obj /\ inner[o] # Nil /\ new[1] \in Schema
      /\ relations' \in [Key -> Obj \cup {Nil}]
      /\ relations'[old] = Nil /\ relations'[new] = o
      /\ \A k \in Key : k # old /\ k # new => relations'[k] = relations[k]
   BY RenameFacts
<1>2. /\ inner' \in [Obj -> Relation \cup {Nil}] /\ inner'[o] = r
      /\ \A p \in Obj : p # o => inner'[p] = inner[p]
   BY RenameFacts
<1>3. /\ referenced_by' \in [Obj -> [Key -> Obj \cup {Nil}]]
      /\ \A p \in Obj, k \in Key : k # old /\ k # new => referenced_by'[p][k] = referenced_by[p][k]
      /\ \A p \in Obj : referenced_by'[p][old] = Nil
      /\ \A p \in Obj : referenced_by'[p][new] = referenced_by[p][old]
   BY RenameFacts
<1>4. \A p \in Obj : referenced_by[p][old] # Nil => referenced_by[p][old] = o BY RenameFacts
<1>5. schemas' = schemas \cup {new[1]} /\ errors' = errors BY RenameFacts
<1>6. r # Nil /\ MakeKey(r) = new BY NilAssumption
<1>7. relations[old] = o /\ relations[new] = Nil OBVIOUS
<1> HIDE DEF new, o
<1>8. TypeOK'
   <2>1. schemas' \subseteq Schema BY <1>1, <1>5 DEF CInv, TypeOK
   <2> QED BY <1>1, <1>2, <1>3, <1>5, <2>1 DEF CInv, TypeOK
<1>9. \A k \in Key : k # old /\ relations[k] # Nil => relations[k] \in Obj /\ relations[k] # o
   BY <1>7, Graph
<1>10. \A k \in Key : relations'[k] # Nil =>
          inner'[relations'[k]] # Nil /\ MakeKey(inner'[relations'[k]]) = k /\ k[1] \in schemas'
   BY <1>1, <1>2, <1>5, <1>6, <1>9, Graph DEF KeyOf
<1>11. \A p \in Obj : p # o /\ inner[p] # Nil => MakeKey(inner[p]) \in Key \ {old, new}
   BY <1>1, <1>7, Graph DEF KeyOf
<1>12. \A p \in Obj : inner'[p] # Nil => relations'[MakeKey(inner'[p])] = p
   BY <1>1, <1>2, <1>6, <1>11, Graph DEF KeyOf
<1>13. \A p \in Obj : inner'[p] = Nil => \A k \in Key : referenced_by'[p][k] = Nil
   <2>1. \A p \in Obj : inner'[p] = Nil => inner[p] = Nil BY <1>2, <1>6
   <2>2. \A p \in Obj : inner[p] = Nil => \A k \in Key : referenced_by[p][k] = Nil BY Graph
   <2>3. ASSUME NEW p \in Obj, inner'[p] = Nil, NEW k \in Key PROVE referenced_by'[p][k] = Nil
      <3>1. \A i \in Key : referenced_by[p][i] = Nil BY Zenon, <2>1, <2>2, <2>3
      <3> QED BY Zenon, <1>1, <1>3, <3>1
   <2> QED BY Zenon, <2>3
<1>14. \A p \in Obj, k \in Key :
          referenced_by'[p][k] # Nil => relations'[k] = referenced_by'[p][k]
   <2>1. \A p \in Obj, k \in Key : referenced_by[p][k] # Nil => relations[k] = referenced_by[p][k]
      BY Graph
   <2> QED BY <1>1, <1>3, <1>4, <2>1
<1>15. \A p \in Obj, k \in Key : referenced_by'[p][k] # p
   <2>1. \A p \in Obj, k \in Key : referenced_by[p][k] # p BY Graph
   <2>2. \A p \in Obj : p # Nil BY NilAssumption
   <2> QED BY <1>1, <1>3, <2>1, <2>2
<1>16. NotTorn' BY <1>5 DEF CInv, NotTorn
<1> QED BY <1>8, <1>10, <1>12, <1>13, <1>14, <1>15, <1>16, Conclude

LEMMA NextInv == ASSUME OneCase, CInv, [Next]_vars PROVE CInv'
<1>1. ASSUME NEW r \in Relation, ListRelation(r) PROVE CInv'
   <2>1. SetDefault(r) /\ UNCHANGED <<linked, dropping, errors>> /\ phase' = phase
      BY <1>1 DEF ListRelation
   <2> QED BY <2>1, <1>1, SetDefaultInv
<1>2. CASE update_schemas
   <2>1. /\ UNCHANGED <<graphVars, errors>> /\ relations' = relations /\ inner' = inner
         /\ referenced_by' = referenced_by /\ errors' = errors /\ linked' = linked
         /\ dropping' = dropping /\ phase' = "linking" /\ schemas' = schemas \cup Managed
      BY <1>2 DEF update_schemas, graphVars
   <2>2. TypeOK' BY <2>1, ManagedAssumption DEF CInv, TypeOK
   <2>3. SchemaKnown' BY <2>1 DEF CInv, SchemaKnown, Known
   <2> QED BY <2>1, <2>2, <2>3, GraphKept
<1>3. ASSUME NEW r \in Relation, NEW s \in Relation, add_link(r, s) PROVE CInv'
   BY <1>3, AddLinkInv
<1>4. CASE Filled
   <2>1. /\ UNCHANGED <<graphVars, errors>> /\ relations' = relations /\ inner' = inner
         /\ referenced_by' = referenced_by /\ errors' = errors /\ linked' = {}
         /\ dropping' = dropping /\ phase' = "running" /\ schemas' = schemas
      BY <1>4 DEF Filled, graphVars
   <2>2. TypeOK' BY <2>1 DEF CInv, TypeOK
   <2>3. SchemaKnown' BY <2>1 DEF CInv, SchemaKnown, Known
   <2> QED BY <2>1, <2>2, <2>3, GraphKept
<1>5. ASSUME NEW t \in Thread, NEW r \in Relation, add(t, r) PROVE CInv'
   <2>1. SetDefault(r) /\ UNCHANGED <<linked, dropping, errors>> /\ phase' = phase
      BY <1>5 DEF add
   <2> QED BY <2>1, <1>5, SetDefaultInv
<1>6. ASSUME NEW t \in Thread, NEW r \in Relation, drop(t, r) PROVE CInv'
   BY <1>6, DropInv
<1>7. ASSUME NEW t \in Thread, NEW r \in Relation, NEW s \in Relation, rename(t, r, s) PROVE CInv'
   <2>1. /\ relations[MakeKey(s)] = Nil
         /\ phase' = phase /\ linked' = linked /\ dropping' = dropping
      BY <1>7 DEF rename, Known
   <2>2. CASE relations[MakeKey(r)] # Nil
      <3>1. RenameRelation(MakeKey(r), s) BY <1>7, <2>2 DEF rename, Known
      <3>2. MakeKey(r) \in Key BY <1>7, KeyFacts
      <3> QED BY <1>7, <2>1, <2>2, <3>1, <3>2, RenameRelationInv
   <2>3. CASE relations[MakeKey(r)] = Nil
      <3>1. SetDefault(s) /\ UNCHANGED <<linked, dropping, errors>> BY <1>7, <2>1, <2>3 DEF rename, Known
      <3> QED BY <1>7, <2>1, <3>1, SetDefaultInv
   <2> QED BY <2>2, <2>3
<1>8. ASSUME NEW t \in Thread, NEW s \in Schema, drop_schema(t, s) PROVE CInv'
   <2>1. /\ UNCHANGED <<graphVars, errors>> /\ relations' = relations /\ inner' = inner
         /\ referenced_by' = referenced_by /\ errors' = errors /\ linked' = linked
         /\ dropping' = [dropping EXCEPT ![t] = s] /\ phase' = phase /\ schemas' = schemas
      BY <1>8 DEF drop_schema, graphVars
   <2>2. TypeOK' BY <1>8, <2>1 DEF CInv, TypeOK
   <2>3. SchemaKnown' BY <2>1 DEF CInv, SchemaKnown, Known
   <2> QED BY <2>1, <2>2, <2>3, GraphKept
<1>9. ASSUME NEW t \in Thread, DropSchemaLocked(t) PROVE CInv' BY <1>9, DropSchemaInv
<1>10. CASE UNCHANGED vars
   <2>1. /\ UNCHANGED <<graphVars, errors>> /\ relations' = relations /\ inner' = inner
         /\ referenced_by' = referenced_by /\ errors' = errors /\ linked' = linked
         /\ dropping' = dropping /\ phase' = phase /\ schemas' = schemas
      BY <1>10 DEF vars, graphVars
   <2>2. TypeOK' BY <2>1 DEF CInv, TypeOK
   <2>3. SchemaKnown' BY <2>1 DEF CInv, SchemaKnown, Known
   <2> QED BY <2>1, <2>2, <2>3, GraphKept
<1> QED BY Zenon, <1>1, <1>2, <1>3, <1>4, <1>5, <1>6, <1>7, <1>8, <1>9, <1>10 DEF Next

-----------------------------------------------------------------------------
(* The theorems *)

\* The invariant is inductive, where no two names differ only in case.
THEOREM CacheInvariance == ASSUME OneCase PROVE Spec => []CInv
<1>1. Init => CInv BY InitInv
<1>2. CInv /\ [Next]_vars => CInv' BY NextInv
<1> QED BY <1>1, <1>2, PTL DEF Spec

\* The cache's state keeps its types.
THEOREM CacheTypeCorrect == ASSUME OneCase PROVE Spec => []TypeOK
<1>1. CInv => TypeOK BY DEF CInv
<1> QED BY <1>1, CacheInvariance, PTL

\* After any fills, renames, cascades and drops by any number of threads an
\* entry is found under its own name (_rename_relation, cache.py:387-416), and
\* the references of every cached relation lead to cached relations under the
\* same keys (_remove_refs and rename_key, cache.py:342-353, 131-150).
THEOREM CacheConsistent == ASSUME OneCase PROVE Spec => [](EntriesAgree /\ ReferencesAgree)
<1>1. CInv => EntriesAgree /\ ReferencesAgree
   <2>1. CInv => Cached \subseteq Obj BY Graph DEF Cached
   <2> QED BY <2>1 DEF CInv, ReferencesAgree, RefsAgree
<1> QED BY <1>1, CacheInvariance, PTL

\* No operation fails half-way: the del of _remove_refs finds every key, and
\* rename_key never finds the new one (cache.py:348-349, 141-145).
THEOREM CacheNotTorn == ASSUME OneCase PROVE Spec => []NotTorn
<1>1. CInv => NotTorn BY DEF CInv
<1> QED BY <1>1, CacheInvariance, PTL

\* A cached relation is always in a known schema, also when one thread adds to
\* a schema that another has found and is about to drop (cache.py:197-208).
THEOREM CacheSchemaKnown == ASSUME OneCase PROVE Spec => []SchemaKnown
<1>1. CInv => SchemaKnown BY DEF CInv
<1> QED BY <1>1, CacheInvariance, PTL

-----------------------------------------------------------------------------
(* The cache implements CascadeDb *)

LEMMA Abstraction ==
    /\ CachedKeys = {k \in Key : relations[k] # Nil}
    /\ CachedDeps = {d \in Key \X Key :
          relations[d[1]] # Nil /\ referenced_by[relations[d[1]]][d[2]] # Nil}
    /\ CachedKeys' = {k \in Key : relations'[k] # Nil}
    /\ CachedDeps' = {d \in Key \X Key :
          relations'[d[1]] # Nil /\ referenced_by'[relations'[d[1]]][d[2]] # Nil}
BY DEF CachedKeys, CachedDeps, Known

LEMMA SetDefaultImplements ==
    ASSUME CInv, NEW r \in Relation, SetDefault(r)
    PROVE  Db!DbNext
<1> DEFINE k == MakeKey(r)
<1>1. k \in Key /\ schemas' = schemas \cup {k[1]} BY KeyFacts DEF SetDefault
<1>2. CachedKeys' = CachedKeys \cup {k} /\ CachedDeps' = CachedDeps
   <2>1. CASE Known(k)
      <3>1. relations' = relations /\ referenced_by' = referenced_by
         BY <2>1 DEF SetDefault, graphVars
      <3>2. k \in CachedKeys BY <1>1, <2>1 DEF CachedKeys
      <3>3. CachedKeys' = CachedKeys /\ CachedDeps' = CachedDeps
         BY <3>1 DEF CachedKeys, CachedDeps, Known
      <3> QED BY <3>2, <3>3
   <2>2. CASE ~Known(k)
      <3>1. PICK o \in Obj : /\ inner[o] = Nil
                             /\ relations' = [relations EXCEPT ![k] = o]
                             /\ referenced_by' = referenced_by
         BY <2>2 DEF SetDefault
      <3>2. relations[k] = Nil BY <2>2 DEF Known
      <3> HIDE DEF k
      <3>3. /\ relations'[k] = o /\ o # Nil
            /\ \A i \in Key : i # k => relations'[i] = relations[i]
         BY <1>1, <3>1, Graph
      <3>4. CachedKeys' = CachedKeys \cup {k} BY <1>1, <3>3, Abstraction
      <3>5. \A i \in Key : referenced_by[o][i] = Nil BY <3>1, Graph
      <3>6. CachedDeps' = CachedDeps BY <3>1, <3>2, <3>3, <3>5, Abstraction
      <3> QED BY <3>4, <3>6
   <2> QED BY <2>1, <2>2
<1>3. schemas' = schemas \cup {i[1] : i \in {k}} BY <1>1
<1> HIDE DEF k
<1>4. Db!Create({k}) BY <1>2, <1>3 DEF Db!Create
<1> QED BY <1>1, <1>4 DEF Db!DbNext, Db!Key, Key

LEMMA AddLinkImplements ==
    ASSUME CInv, OneCase, NEW r \in Relation, NEW s \in Relation, add_link(r, s)
    PROVE  Db!DbNext
<1> DEFINE j == MakeKey(r)
           k == MakeKey(s)
<1>1. j \in Key /\ k \in Key BY KeyFacts
<1>2. j # k
   <2>1. r # s BY DEF add_link, Dependents
   <2> QED BY <2>1 DEF OneCase
<1>3. PICK o \in Obj, p \in Obj :
         /\ Entry(j, o) /\ Entry(k, p) /\ (o = p <=> j = k)
         /\ relations' = [relations EXCEPT ![j] = o, ![k] = p]
         /\ referenced_by' = [referenced_by EXCEPT ![o][k] = p]
   BY Zenon DEF add_link
<1>4. schemas' = schemas \cup {j[1], k[1]} BY DEF add_link
<1> HIDE DEF j, k
<1>5. /\ o # Nil /\ p # Nil
      /\ relations[j] = o \/ (relations[j] = Nil /\ inner[o] = Nil)
      /\ relations[k] = p \/ (relations[k] = Nil /\ inner[p] = Nil)
   BY <1>3, Graph DEF Entry, Known
<1>6. /\ relations'[j] = o /\ relations'[k] = p
      /\ \A i \in Key : i # j /\ i # k => relations'[i] = relations[i]
   BY <1>1, <1>2, <1>3, Graph
<1>7. /\ referenced_by'[o][k] = p
      /\ \A q \in Obj, i \in Key : q # o \/ i # k => referenced_by'[q][i] = referenced_by[q][i]
   BY <1>1, <1>3, Graph
<1>8. CachedKeys' = CachedKeys \cup {j, k} BY <1>1, <1>5, <1>6, Abstraction
<1>9. CachedDeps' = CachedDeps \cup {<<j, k>>}
   <2>1. ASSUME NEW a \in Key, NEW b \in Key
         PROVE  <<a, b>> \in CachedDeps' <=> <<a, b>> \in CachedDeps \/ (a = j /\ b = k)
      <3>1. <<a, b>> \in CachedDeps <=> relations[a] # Nil /\ referenced_by[relations[a]][b] # Nil
         BY <2>1, Abstraction
      <3>2. <<a, b>> \in CachedDeps' <=>
               relations'[a] # Nil /\ referenced_by'[relations'[a]][b] # Nil
         BY <2>1, Abstraction
      <3>3. \A q \in Obj : inner[q] = Nil => referenced_by[q][b] = Nil BY <2>1, Graph
      <3>4. CASE a = j BY <1>5, <1>6, <1>7, <2>1, <3>1, <3>2, <3>3, <3>4
      <3>5. CASE a = k /\ a # j
         <4>1. p # o BY <1>2, <1>3
         <4> QED BY <1>5, <1>6, <1>7, <2>1, <3>1, <3>2, <3>3, <3>5, <4>1
      <3>6. CASE a # j /\ a # k
         <4>1. relations'[a] = relations[a] BY <1>6, <2>1, <3>6
         <4>2. relations[a] # Nil => relations[a] \in Obj /\ relations[a] # o
            BY <1>1, <1>5, <2>1, <3>6, Graph
         <4> QED BY <1>7, <2>1, <3>1, <3>2, <3>6, <4>1, <4>2
      <3> QED BY <3>4, <3>5, <3>6
   <2>2. CachedDeps \subseteq Key \X Key /\ CachedDeps' \subseteq Key \X Key BY Abstraction
   <2> QED BY <1>1, <2>1, <2>2
<1>10. Db!Depend(j, k) BY <1>4, <1>8, <1>9 DEF Db!Depend
<1> QED BY <1>1, <1>10 DEF Db!DbNext, Db!Key, Key

\* What collect_consequences visits, object by object, is what a cascade of the
\* database takes along, name by name.
LEMMA CascadeIsCollect ==
    ASSUME CInv, NEW D, D \subseteq Cached
    PROVE  /\ Db!Cascade({KeyOf(o) : o \in D}) = collect_consequences(D)
           /\ {KeyOf(o) : o \in D} \subseteq CachedKeys
<1> DEFINE K == {KeyOf(o) : o \in D}
<1>0. Cached = {o \in Obj : inner[o] # Nil} BY ReachedFacts
<1>1. \A o \in Cached : o \in Obj /\ inner[o] # Nil /\ KeyOf(o) \in Key /\ relations[KeyOf(o)] = o
   BY <1>0, Graph
<1>2. K \subseteq CachedKeys BY <1>1, Graph DEF CachedKeys, Known
<1>3. ASSUME NEW p \in Reached(D), NEW S \in SUBSET Key, K \subseteq S,
             \A d \in CachedDeps : d[1] \in S => d[2] \in S
      PROVE  KeyOf(p) \in S
   <2> DEFINE SO == {o \in Cached : KeyOf(o) \in S}
   <2>1. SO \subseteq Obj /\ D \subseteq SO BY <1>1, <1>3
   <2>2. ASSUME NEW q \in SO, NEW i \in Key, referenced_by[q][i] # Nil
         PROVE  referenced_by[q][i] \in SO
      <3>1. q \in Obj /\ KeyOf(q) \in S /\ KeyOf(q) \in Key /\ relations[KeyOf(q)] = q /\ q # Nil
         BY <1>1, <2>2, NilAssumption
      <3>2. <<KeyOf(q), i>> \in CachedDeps BY <2>2, <3>1, Abstraction
      <3>3. i \in S BY <1>3, <3>2
      <3>4. relations[i] = referenced_by[q][i] BY <2>2, <3>1, Graph
      <3>5. relations[i] \in Cached /\ KeyOf(relations[i]) = i BY <2>2, <3>4, Graph DEF Cached
      <3> QED BY <3>3, <3>4, <3>5
   <2>3. \A q \in SO : Referrers(q) \subseteq SO BY <2>2 DEF Referrers
   <2>4. SO \in SUBSET Obj /\ SO \subseteq {o \in Cached : KeyOf(o) \in S} BY <2>1
   <2> HIDE DEF SO
   <2>5. p \in SO BY Zenon, <1>3, <2>1, <2>3, <2>4 DEF Reached
   <2> QED BY <2>4, <2>5
<1>4. collect_consequences(D) \subseteq Db!Cascade(K)
   <2>1. collect_consequences(D) \subseteq Key BY ConsequenceKeys
   <2> QED BY <1>3, <2>1 DEF collect_consequences, Db!Cascade, Db!Key, Key
<1>5. Db!Cascade(K) \subseteq collect_consequences(D)
   <2> DEFINE C == collect_consequences(D)
   <2>1. C \subseteq Key /\ K \subseteq C BY ConsequenceKeys, ReachedFacts DEF collect_consequences
   <2>2. ASSUME NEW d \in CachedDeps, d[1] \in C PROVE d[2] \in C
      <3>1. /\ d[1] \in Key /\ d[2] \in Key /\ relations[d[1]] # Nil
            /\ referenced_by[relations[d[1]]][d[2]] # Nil
         BY <2>2, Abstraction
      <3>2. relations[d[1]] \in Reached(D) BY <2>2, ConsequenceKeys
      <3>3. referenced_by[relations[d[1]]][d[2]] \in Referrers(relations[d[1]])
         BY <3>1 DEF Referrers
      <3>4. referenced_by[relations[d[1]]][d[2]] \in Reached(D) BY <3>2, <3>3, ReachedFacts
      <3>5. relations[d[2]] = referenced_by[relations[d[1]]][d[2]] BY <3>1, Graph
      <3> QED BY <3>1, <3>4, <3>5, ConsequenceKeys
   <2> HIDE DEF C, K
   <2>3. Db!Cascade(K) \subseteq C BY <2>1, <2>2 DEF Db!Cascade, Db!Key, Key
   <2> QED BY <2>3 DEF C
<1>6. Db!Cascade(K) = collect_consequences(D) BY Zenon, <1>4, <1>5
<1> QED BY Zenon, <1>2, <1>6

LEMMA RemoveImplements ==
    ASSUME CInv, NEW D, D \subseteq Cached, RemoveRefs(collect_consequences(D)),
           NEW S \in SUBSET Schema, schemas' = schemas \ S
    PROVE  Db!DbNext
<1> DEFINE C == collect_consequences(D)
           K == {KeyOf(o) : o \in D}
<1>1. /\ \A k \in Key : relations'[k] = IF k \in C THEN Nil ELSE relations[k]
      /\ \A o \in Obj : inner'[o] = Nil => inner[o] = Nil \/ MakeKey(inner[o]) \in C
      /\ \A o \in Obj, k \in Key :
            referenced_by'[o][k] = IF inner'[o] = Nil \/ k \in C THEN Nil
                                   ELSE referenced_by[o][k]
   <2>1. C \subseteq Key /\ \A k \in C : relations[k] # Nil BY Zenon, ConsequenceKeys
   <2>2. RemoveRefs(C) OBVIOUS
   <2> HIDE DEF C
   <2> QED BY <2>1, <2>2, RemoveRefsFacts
<1>2. Db!Cascade(K) = C /\ K \subseteq CachedKeys BY CascadeIsCollect
<1> HIDE DEF C, K
<1>3. CachedKeys' = CachedKeys \ C BY <1>1, Abstraction
<1>4. CachedDeps' = {d \in CachedDeps : d[1] \notin C /\ d[2] \notin C}
   <2>1. ASSUME NEW a \in Key, NEW b \in Key
         PROVE  <<a, b>> \in CachedDeps' <=> <<a, b>> \in CachedDeps /\ a \notin C /\ b \notin C
      <3>1. <<a, b>> \in CachedDeps <=> relations[a] # Nil /\ referenced_by[relations[a]][b] # Nil
         BY <2>1, Abstraction
      <3>2. <<a, b>> \in CachedDeps' <=>
               relations'[a] # Nil /\ referenced_by'[relations'[a]][b] # Nil
         BY <2>1, Abstraction
      <3>3. relations[a] # Nil => /\ relations[a] \in Obj /\ inner[relations[a]] # Nil
                                  /\ MakeKey(inner[relations[a]]) = a
         BY <2>1, Graph DEF KeyOf
      <3> QED BY <1>1, <2>1, <3>1, <3>2, <3>3
   <2>2. CachedDeps \subseteq Key \X Key /\ CachedDeps' \subseteq Key \X Key BY Abstraction
   <2> QED BY <2>1, <2>2
<1>5. Db!Drop(K, S) BY <1>2, <1>3, <1>4 DEF Db!Drop
<1> QED BY <1>2, <1>5 DEF Db!DbNext

LEMMA RenameImplements ==
    ASSUME CInv, NEW old \in Key, NEW r \in Relation,
           relations[old] # Nil, relations[MakeKey(r)] = Nil, RenameRelation(old, r)
    PROVE  Db!DbNext
<1> DEFINE new == MakeKey(r)
           o == relations[old]
           to(i) == IF i = old THEN new ELSE i
<1>1. /\ new \in Key /\ new # old /\ o \in Obj
      /\ relations'[old] = Nil /\ relations'[new] = o
      /\ \A k \in Key : k # old /\ k # new => relations'[k] = relations[k]
   BY RenameFacts
<1>2. /\ \A p \in Obj, k \in Key : k # old /\ k # new => referenced_by'[p][k] = referenced_by[p][k]
      /\ \A p \in Obj : referenced_by'[p][old] = Nil
      /\ \A p \in Obj : referenced_by'[p][new] = referenced_by[p][old]
      /\ \A p \in Obj : referenced_by[p][new] = Nil
   BY RenameFacts
<1>3. schemas' = schemas \cup {new[1]} BY RenameFacts
<1>4. relations[old] = o /\ relations[new] = Nil /\ o # Nil OBVIOUS
<1> HIDE DEF new, o
<1>5. old \in CachedKeys /\ new \notin CachedKeys BY <1>1, <1>4, Abstraction
<1>6. CachedKeys' = {to(i) : i \in CachedKeys} BY <1>1, <1>4, Abstraction
<1>7. ASSUME NEW d \in CachedDeps PROVE <<to(d[1]), to(d[2])>> \in CachedDeps'
   <2>1. /\ d[1] \in Key /\ d[2] \in Key /\ relations[d[1]] # Nil
         /\ referenced_by[relations[d[1]]][d[2]] # Nil
      BY <1>7, Abstraction
   <2>2. d[1] # new /\ relations'[to(d[1])] = relations[d[1]] /\ to(d[1]) \in Key
      BY <1>1, <1>4, <2>1
   <2>3. relations[d[1]] \in Obj BY <2>1, Graph
   <2>4. referenced_by'[relations[d[1]]][to(d[2])] # Nil /\ to(d[2]) \in Key
      BY <1>1, <1>2, <2>1, <2>3
   <2> QED BY <2>1, <2>2, <2>4, Abstraction
<1>8. ASSUME NEW d \in CachedDeps' PROVE \E e \in CachedDeps : d = <<to(e[1]), to(e[2])>>
   <2>1. /\ d \in Key \X Key /\ d[1] \in Key /\ d[2] \in Key /\ relations'[d[1]] # Nil
         /\ referenced_by'[relations'[d[1]]][d[2]] # Nil
      BY <1>8, Abstraction
   <2> DEFINE back(i) == IF i = new THEN old ELSE i
   <2>2. d[1] # old /\ relations[back(d[1])] = relations'[d[1]] /\ to(back(d[1])) = d[1]
      BY <1>1, <1>4, <2>1
   <2>3. relations'[d[1]] \in Obj /\ back(d[1]) \in Key BY <1>1, <2>1, <2>2, Graph
   <2>4. d[2] # old BY <1>2, <2>1, <2>3
   <2>5. /\ referenced_by[relations'[d[1]]][back(d[2])] # Nil
         /\ to(back(d[2])) = d[2] /\ back(d[2]) \in Key
      BY <1>1, <1>2, <2>1, <2>3, <2>4
   <2>6. <<back(d[1]), back(d[2])>> \in CachedDeps BY <2>1, <2>2, <2>3, <2>5, Abstraction
   <2>7. d = <<d[1], d[2]>> BY <2>1
   <2> HIDE DEF back, to
   <2> QED BY <2>2, <2>5, <2>6, <2>7
<1>9. CachedDeps' = {<<to(d[1]), to(d[2])>> : d \in CachedDeps} BY <1>7, <1>8
<1>10. Db!Rename(old, new) BY <1>3, <1>5, <1>6, <1>9 DEF Db!Rename
<1> QED BY <1>1, <1>10 DEF Db!DbNext, Db!Key, Key

LEMMA NextImplements ==
    ASSUME OneCase, CInv, [Next]_vars
    PROVE  [Db!DbNext]_Db!dbVars
<1>1. ASSUME NEW r \in Relation, ListRelation(r) PROVE Db!DbNext
   <2>1. SetDefault(r) BY <1>1 DEF ListRelation
   <2> QED BY <1>1, <2>1, SetDefaultImplements
<1>2. CASE update_schemas
   <2>1. relations' = relations /\ referenced_by' = referenced_by /\ schemas' = schemas \cup Managed
      BY <1>2 DEF update_schemas, graphVars
   <2>2. CachedKeys' = CachedKeys /\ CachedDeps' = CachedDeps
      BY <2>1 DEF CachedKeys, CachedDeps, Known
   <2>3. Db!Know(Managed) BY <2>1, <2>2 DEF Db!Know
   <2> QED BY <2>3, ManagedAssumption DEF Db!DbNext
<1>3. ASSUME NEW r \in Relation, NEW s \in Relation, add_link(r, s) PROVE Db!DbNext
   BY <1>3, AddLinkImplements
<1>4. CASE Filled
   <2>1. relations' = relations /\ referenced_by' = referenced_by /\ schemas' = schemas
      BY <1>4 DEF Filled, graphVars
   <2> QED BY <2>1 DEF CachedKeys, CachedDeps, Known, Db!dbVars
<1>5. ASSUME NEW t \in Thread, NEW r \in Relation, add(t, r) PROVE Db!DbNext
   <2>1. SetDefault(r) BY <1>5 DEF add
   <2> QED BY <1>5, <2>1, SetDefaultImplements
<1>6. ASSUME NEW t \in Thread, NEW r \in Relation, drop(t, r) PROVE Db!DbNext
   <2> DEFINE S == {}
   <2>0. schemas' = schemas \ S /\ S \in SUBSET Schema BY <1>6 DEF drop
   <2>1. relations[MakeKey(r)] # Nil BY <1>6 DEF drop, Known
   <2>2. PICK D \in SUBSET {relations[MakeKey(r)]} : RemoveRefs(collect_consequences(D))
      BY Zenon, <1>6 DEF drop, RemoveCascade
   <2>3. D \subseteq Cached BY <1>6, <2>1, KeyFacts DEF Cached
   <2> HIDE DEF S
   <2> QED BY <2>0, <2>2, <2>3, RemoveImplements
<1>7. ASSUME NEW t \in Thread, NEW r \in Relation, NEW s \in Relation, rename(t, r, s)
      PROVE  Db!DbNext
   <2>1. relations[MakeKey(s)] = Nil BY <1>7 DEF rename, Known
   <2>2. CASE relations[MakeKey(r)] # Nil
      <3>1. RenameRelation(MakeKey(r), s) BY <1>7, <2>2 DEF rename, Known
      <3>2. MakeKey(r) \in Key BY <1>7, KeyFacts
      <3> QED BY <1>7, <2>1, <2>2, <3>1, <3>2, RenameImplements
   <2>3. CASE relations[MakeKey(r)] = Nil
      <3>1. SetDefault(s) BY <1>7, <2>1, <2>3 DEF rename, Known
      <3> QED BY <1>7, <3>1, SetDefaultImplements
   <2> QED BY <2>2, <2>3
<1>8. ASSUME NEW t \in Thread, NEW s \in Schema, drop_schema(t, s) PROVE UNCHANGED Db!dbVars
   <2>1. relations' = relations /\ referenced_by' = referenced_by /\ schemas' = schemas
      BY <1>8 DEF drop_schema, graphVars
   <2> QED BY <2>1 DEF CachedKeys, CachedDeps, Known, Db!dbVars
<1>9. ASSUME NEW t \in Thread, DropSchemaLocked(t) PROVE Db!DbNext
   <2> DEFINE S == IF Endless(InSchema(dropping[t])) THEN {} ELSE {dropping[t]}
   <2>1. schemas' = schemas \ S BY <1>9 DEF DropSchemaLocked
   <2>2. S \in SUBSET Schema BY <1>9 DEF DropSchemaLocked, CInv, TypeOK
   <2>3. PICK D \in SUBSET InSchema(dropping[t]) : RemoveRefs(collect_consequences(D))
      BY Zenon, <1>9 DEF DropSchemaLocked, RemoveCascade
   <2>4. D \subseteq Cached BY DEF Cached, InSchema, Known
   <2> HIDE DEF S
   <2> QED BY <2>1, <2>2, <2>3, <2>4, RemoveImplements
<1>10. CASE UNCHANGED vars
   <2>1. relations' = relations /\ referenced_by' = referenced_by /\ schemas' = schemas
      BY <1>10 DEF vars, graphVars
   <2> QED BY <2>1 DEF CachedKeys, CachedDeps, Known, Db!dbVars
<1> QED BY Zenon, <1>1, <1>2, <1>3, <1>4, <1>5, <1>6, <1>7, <1>8, <1>9, <1>10 DEF Next

\* The cache "handles renames/drops as a real database would" (cache.py:167-168),
\* for any dependencies, names and threads, where no two names differ only in
\* case.
THEOREM CacheRefinement == ASSUME OneCase PROVE Spec => ImplementsCascadeDb
<1>1. Init => Db!DbInit BY DEF Init, Db!DbInit, CachedKeys, CachedDeps, Known, NoRefs
<1>2. CInv /\ [Next]_vars => [Db!DbNext]_Db!dbVars BY NextImplements
<1> QED BY <1>1, <1>2, CacheInvariance, PTL DEF Spec, ImplementsCascadeDb, Db!DbSpec
=============================================================================
