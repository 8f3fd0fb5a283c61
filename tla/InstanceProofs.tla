--------------------------- MODULE InstanceProofs ---------------------------
(***************************************************************************)
(* What the instances of the address space have: every one has what its    *)
(* type demands, and the device names its manufacturer.  Of the tables and *)
(* the orders of the calls only what Generated says is used.               *)
(***************************************************************************)
EXTENDS AddressSpaceProofs

(* What the generator of the loaders has to see to. *)
Generated ==
  /\ UniqueIds(Entries)
  /\ \A s \in Nodesets : /\ Complete(Table[s], Calls[s])
                         /\ WellOrdered(Table[s], Calls[s])
                         /\ InstancesLast(Table[s], Calls[s])
                         /\ OwnDeclarations(Table[s])

------------------------------------------------------------------------------
(* Which entries there are, and what they name.                             *)

(* An entry is of the namespace it is in, and the rest are the server's own. *)
LEMMA WhoseEntry ==
  ASSUME NEW e \in Entries
  PROVE  \/ \E s \in Nodesets : e.id[1] = s /\ \E i \in DOMAIN Table[s] : e = Table[s][i]
         \/ e.id[1] = "app" /\ e \in {TheAnswer, RaspberryPi, ThisDevice, Pump1}
<1>1. CASE e \in {TheAnswer, RaspberryPi, ThisDevice, Pump1}
  BY <1>1, OwnParents
<1>2. CASE \E s \in Nodesets : \E i \in DOMAIN Table[s] : e = Table[s][i]
  BY <1>2, NamespacesAssumption
<1> QED
  BY <1>1, <1>2 DEF Entries

LEMMA OwnNodesAre ==
  /\ \A e \in {TheAnswer, RaspberryPi, ThisDevice, Pump1} : e.links = {} /\ ~e.abstract
  /\ TheAnswer.type = <<"ua", 0>> /\ RaspberryPi.type = <<"ua", 0>>
  /\ RaspberryPi.class = "ObjectType"
  /\ ThisDevice.type = RaspberryPi.id /\ ThisDevice.class = "Object"
  /\ Pump1.type = <<"my", 1002>>
  /\ RaspberryPi.id = <<"app", 2>> /\ RaspberryPi.parent = <<"di", 1002>>
  /\ ThisDevice.id = <<"app", 3>>
<1>1. /\ TheAnswer.links = {} /\ RaspberryPi.links = {} /\ ThisDevice.links = {} /\ Pump1.links = {}
      /\ ~TheAnswer.abstract /\ ~RaspberryPi.abstract /\ ~ThisDevice.abstract /\ ~Pump1.abstract
  BY DEF TheAnswer, RaspberryPi, ThisDevice, Pump1, Node
<1>2. TheAnswer.type = <<"ua", 0>> /\ RaspberryPi.type = <<"ua", 0>>
  BY DEF TheAnswer, RaspberryPi, Node, NoNode, Ua
<1>3. ThisDevice.type = RaspberryPi.id /\ ThisDevice.class = "Object"
  BY DEF ThisDevice, Node
<1>4. Pump1.type = <<"my", 1002>>
  BY DEF Pump1, Node
<1>5. /\ RaspberryPi.class = "ObjectType"
      /\ RaspberryPi.id = <<"app", 2>> /\ RaspberryPi.parent = <<"di", 1002>>
  BY DEF RaspberryPi, Node, Own
<1>6. ThisDevice.id = <<"app", 3>>
  BY DEF ThisDevice, Node, Own
<1> QED
  BY <1>1, <1>2, <1>3, <1>4, <1>5, <1>6

(* What is begun before a call of a loader is of its node set. *)
LEMMA BegunAreNear ==
  ASSUME NEW s \in Nodesets, NEW k \in DOMAIN Calls[s],
         NEW b \in BegunBefore(Table[s], Calls[s], k)
  PROVE  b.id[1] = s
<1> DEFINE Call == [does : {"begin", "finish"}, node : DOMAIN Table[s]]
<1>1. Calls[s] \in Seq(Call)
  BY ConstantsAssumption
<1>2. \A j \in 1..(k - 1) : j \in DOMAIN Calls[s]
  BY CallsAreASequence
<1>3. \A j \in DOMAIN Calls[s] : Calls[s][j] \in Call
  <2> HIDE DEF Call
  <2> QED
    BY <1>1
<1>4. \A j \in 1..(k - 1) : Calls[s][j].node \in DOMAIN Table[s]
  BY <1>2, <1>3
<1> QED
  BY <1>4, NamespacesAssumption DEF BegunBefore

(* A node set is about its own namespace and the standard one. *)
LEMMA AllNearby ==
  ASSUME Generated, NEW s \in Nodesets, NEW i \in DOMAIN Table[s]
  PROVE  /\ Table[s][i].parent[1] \in {"ua", s}
         /\ Table[s][i].type[1] \in {"ua", s}
         /\ \A l \in Table[s][i].links : \A n \in 1..3 : l[n][1] \in {"ua", s}
<1> DEFINE e == Table[s][i]
<1>1. PICK k \in DOMAIN Calls[s] : Calls[s][k] = [does |-> "begin", node |-> i]
  BY DEF Generated, Complete
<1> DEFINE Ready(id) == id[1] = "ua" \/ id \in {b.id : b \in BegunBefore(Table[s], Calls[s], k)}
<1>2. /\ Ready(e.parent) /\ Ready(e.type)
      /\ \A l \in e.links : \A n \in 1..3 : Ready(l[n]) \/ l[n] = e.id
  BY <1>1 DEF Generated, WellOrdered
<1>3. \A id : Ready(id) => id[1] \in {"ua", s}
  BY BegunAreNear
<1>4. e.id[1] = s
  BY NamespacesAssumption
<1> HIDE DEF Ready
<1> QED
  BY <1>2, <1>3, <1>4

(* An interface of a type, and the rule of a declaration, are links of the *)
(* entry that adds the type or the declaration.                            *)
LEMMA LinkOfItsSource ==
  ASSUME Generated, NEW l \in Links, l[2] \in {HasInterface, HasModellingRule}
  PROVE  \E s \in Nodesets : \E i \in DOMAIN Table[s] :
           /\ Table[s][i].id = l[1] /\ l[1][1] = s /\ l \in Table[s][i].links
           /\ l[3][1] \in {"ua", s}
<1>1. PICK e \in Entries : l \in e.links
  BY DEF Links
<1>2. PICK s \in Nodesets : \E i \in DOMAIN Table[s] : e = Table[s][i]
  BY <1>1, WhoseEntry, OwnNodesAre
<1>3. PICK i \in DOMAIN Table[s] : e = Table[s][i]
  BY <1>2
<1>4. l[1] = e.id
  BY <1>1, <1>3 DEF Generated, OwnDeclarations
<1>5. e.id[1] = s
  BY <1>3, NamespacesAssumption
<1>6. l[3][1] \in {"ua", s}
  BY <1>1, <1>3, AllNearby
<1> QED
  BY <1>1, <1>3, <1>4, <1>5, <1>6

------------------------------------------------------------------------------
(* The hierarchy of a type.                                                 *)

(* One step up from the types of a set. *)
UpFrom(refs, T) == T \cup UNION {Above(refs, t) : t \in T}

(* Five steps up. *)
LEMMA HierarchyIs ==
  ASSUME NEW refs, NEW type
  PROVE  Hierarchy(refs, type) =
           UpFrom(refs, UpFrom(refs, UpFrom(refs, UpFrom(refs, UpFrom(refs, {type})))))
<1> DEFINE upTo == CHOOSE f : f = [k \in 0..5 |-> IF k = 0 THEN {type} ELSE UpFrom(refs, f[k - 1])]
           h1 == UpFrom(refs, {type})
           h2 == UpFrom(refs, h1)
           h3 == UpFrom(refs, h2)
           h4 == UpFrom(refs, h3)
           h5 == UpFrom(refs, h4)
<1>1. Hierarchy(refs, type) = upTo[5]
  BY Zenon DEF Hierarchy, TypeDepth, UpFrom
<1>2. \E f : f = [k \in 0..5 |-> IF k = 0 THEN {type} ELSE UpFrom(refs, f[k - 1])]
  <2> DEFINE g == [k \in 0..5 |-> IF k = 0 THEN {type} ELSE IF k = 1 THEN h1 ELSE IF k = 2 THEN h2
                                  ELSE IF k = 3 THEN h3 ELSE IF k = 4 THEN h4 ELSE h5]
  <2>1. g[0] = {type} /\ g[1] = h1 /\ g[2] = h2 /\ g[3] = h3 /\ g[4] = h4 /\ g[5] = h5
    <3> HIDE DEF h1, h2, h3, h4, h5
    <3> QED
      OBVIOUS
  <2> HIDE DEF g
  <2>2. \A k \in 0..5 : g[k] = IF k = 0 THEN {type} ELSE UpFrom(refs, g[k - 1])
    <3> SUFFICES ASSUME NEW k \in 0..5
                 PROVE  g[k] = IF k = 0 THEN {type} ELSE UpFrom(refs, g[k - 1])
      OBVIOUS
    <3>1. k = 0 \/ k = 1 \/ k = 2 \/ k = 3 \/ k = 4 \/ k = 5
      OBVIOUS
    <3> QED
      BY <2>1, <3>1
  <2>3. g = [k \in 0..5 |-> IF k = 0 THEN {type} ELSE UpFrom(refs, g[k - 1])]
    BY <2>2 DEF g
  <2> QED
    BY <2>3
<1>3. upTo = [k \in 0..5 |-> IF k = 0 THEN {type} ELSE UpFrom(refs, upTo[k - 1])]
  BY <1>2, Zenon
<1> HIDE DEF upTo
<1>4. \A k \in 0..5 : upTo[k] = IF k = 0 THEN {type} ELSE UpFrom(refs, upTo[k - 1])
  BY <1>3
<1>5. /\ upTo[0] = {type} /\ upTo[1] = UpFrom(refs, upTo[0]) /\ upTo[2] = UpFrom(refs, upTo[1])
      /\ upTo[3] = UpFrom(refs, upTo[2]) /\ upTo[4] = UpFrom(refs, upTo[3])
      /\ upTo[5] = UpFrom(refs, upTo[4])
  BY <1>4
<1> QED
  BY <1>1, <1>5

(* A type that only the node set s, and the standard, have a say in. *)
Kin(s, t) == t[1] \in {s, "ua"} \/ (s = "di" /\ t = RaspberryPi.id)

(* ... and so have what it inherits from. *)
LEMMA KinAbove ==
  ASSUME Generated, NEW s \in Nodesets, NEW refs \in SUBSET Links, NEW t, Kin(s, t),
         NEW u \in Above(refs, t)
  PROVE  Kin(s, u)
<1>1. CASE t \in DOMAIN Supers /\ u \in Supers[t]
  <2>1. PICK e \in Entries : e.id = t /\ u = e.parent
    BY <1>1 DEF Supers
  <2>2. CASE \E r \in Nodesets : e.id[1] = r /\ \E i \in DOMAIN Table[r] : e = Table[r][i]
    <3>1. PICK i \in DOMAIN Table[s] : e = Table[s][i]
      BY <2>1, <2>2, OwnNodesAre DEF Kin, Nodesets
    <3> QED
      BY <2>1, <3>1, AllNearby DEF Kin
  <2>3. CASE e.id[1] = "app" /\ e \in {TheAnswer, RaspberryPi, ThisDevice, Pump1}
    <3>1. s = "di" /\ e.id = RaspberryPi.id
      BY <2>1, <2>3 DEF Kin, Nodesets
    <3>2. e = RaspberryPi
      BY <3>1, OwnNodesAreEntries DEF Generated, UniqueIds
    <3> QED
      BY <2>1, <3>1, <3>2, OwnNodesAre DEF Kin
  <2> QED
    BY <2>2, <2>3, WhoseEntry
<1>2. CASE \E r \in refs : r[1] = t /\ r[2] = HasInterface /\ u = r[3]
  <2>1. PICK l \in Links : l[1] = t /\ l[2] = HasInterface /\ u = l[3]
    BY <1>2
  <2>2. PICK r \in Nodesets : t[1] = r /\ u[1] \in {"ua", r}
    BY <2>1, LinkOfItsSource
  <2>3. r = s
    BY <2>2, OwnNodesAre DEF Kin, Nodesets
  <2> QED
    BY <2>2, <2>3 DEF Kin
<1> QED
  BY <1>1, <1>2 DEF Above

LEMMA KinUpFrom ==
  ASSUME Generated, NEW s \in Nodesets, NEW refs \in SUBSET Links,
         NEW T, \A t \in T : Kin(s, t)
  PROVE  \A t \in UpFrom(refs, T) : Kin(s, t)
BY KinAbove DEF UpFrom

LEMMA HierarchyKin ==
  ASSUME Generated, NEW s \in Nodesets, NEW refs \in SUBSET Links, NEW type, Kin(s, type)
  PROVE  \A t \in Hierarchy(refs, type) : Kin(s, t)
<1> DEFINE h1 == UpFrom(refs, {type})
           h2 == UpFrom(refs, h1)
           h3 == UpFrom(refs, h2)
           h4 == UpFrom(refs, h3)
           h5 == UpFrom(refs, h4)
<1>1. \A t \in h1 : Kin(s, t)
  BY KinUpFrom
<1>2. \A t \in h2 : Kin(s, t)
  BY <1>1, KinUpFrom
<1>3. \A t \in h3 : Kin(s, t)
  BY <1>2, KinUpFrom
<1>4. \A t \in h4 : Kin(s, t)
  BY <1>3, KinUpFrom
<1>5. \A t \in h5 : Kin(s, t)
  BY <1>4, KinUpFrom
<1> QED
  BY <1>5, HierarchyIs

(* References that no type of the kin has a part in change no hierarchy. *)
LEMMA SameHierarchy ==
  ASSUME Generated, NEW s \in Nodesets, NEW refs \in SUBSET Links, NEW more \in SUBSET Links,
         \A t : Kin(s, t) => Above(more, t) = Above(refs, t), NEW type, Kin(s, type)
  PROVE  Hierarchy(more, type) = Hierarchy(refs, type)
<1> DEFINE Fits(T) == \A t \in T : Kin(s, t)
<1>1. ASSUME NEW T, Fits(T)
      PROVE  UpFrom(more, T) = UpFrom(refs, T) /\ Fits(UpFrom(refs, T))
  <2>1. \A t \in T : Above(more, t) = Above(refs, t)
    BY <1>1
  <2>2. {Above(more, t) : t \in T} = {Above(refs, t) : t \in T}
    BY <2>1
  <2> QED
    BY <1>1, <2>2, KinUpFrom DEF UpFrom
<1> DEFINE h1 == UpFrom(refs, {type})
           h2 == UpFrom(refs, h1)
           h3 == UpFrom(refs, h2)
           h4 == UpFrom(refs, h3)
           h5 == UpFrom(refs, h4)
<1>2. Fits({type})
  OBVIOUS
<1> HIDE DEF Fits
<1>3. UpFrom(more, {type}) = h1 /\ Fits(h1)
  BY <1>1, <1>2
<1>4. UpFrom(more, h1) = h2 /\ Fits(h2)
  BY <1>1, <1>3
<1>5. UpFrom(more, h2) = h3 /\ Fits(h3)
  BY <1>1, <1>4
<1>6. UpFrom(more, h3) = h4 /\ Fits(h4)
  BY <1>1, <1>5
<1>7. UpFrom(more, h4) = h5
  BY <1>1, <1>6
<1> QED
  BY <1>3, <1>4, <1>5, <1>6, <1>7, HierarchyIs

------------------------------------------------------------------------------
(* What a type demands does not change once its node set is there.          *)

(* All of the node set is in the address space. *)
Loaded(s) ==
  \A i \in DOMAIN Table[s] : Compiled(Table[s][i]) =>
    Table[s][i].id \in nodes /\ Table[s][i].links \subseteq references

(* A step adds a node that was not there, with its own links. *)
Adds(e) ==
  /\ methodCalls' = methodCalls /\ Compiled(e)
  /\ nodes' = nodes \/ (nodes' = nodes \cup {e.id} /\ e.id \notin nodes)
  /\ references \subseteq references' /\ references' \subseteq references \cup e.links

LEMMA LoadedStays ==
  ASSUME Grows, NEW s, Loaded(s)
  PROVE  Loaded(s)'
BY DEF Grows, Loaded, Compiled

(* Nothing new is said about a type, or a declaration, of a node set that  *)
(* is loaded.                                                               *)
LEMMA NothingNewAbout ==
  ASSUME Generated, references' \subseteq Links, NEW s \in Nodesets, Loaded(s),
         NEW e \in Entries, Adds(e),
         NEW l \in references', l[2] \in {HasInterface, HasModellingRule}, Kin(s, l[1])
  PROVE  l \in references
<1> SUFFICES ASSUME l \in e.links
             PROVE  l \in references
  BY DEF Adds
<1>1. PICK r \in Nodesets : \E i \in DOMAIN Table[r] :
        Table[r][i].id = l[1] /\ l[1][1] = r /\ l \in Table[r][i].links
  BY LinkOfItsSource
<1>2. r = s
  BY <1>1, OwnNodesAre DEF Nodesets, Kin
<1>3. PICK i \in DOMAIN Table[s] : Table[s][i].id = l[1] /\ l \in Table[s][i].links
  BY <1>1, <1>2
<1>4. PICK q \in Nodesets : e.id[1] = q /\ \E j \in DOMAIN Table[q] : e = Table[q][j]
  BY WhoseEntry, OwnNodesAre
<1>5. e.id = l[1]
  <2>1. PICK j \in DOMAIN Table[q] : e = Table[q][j]
    BY <1>4
  <2>2. OwnDeclarations(Table[q])
    BY DEF Generated
  <2> QED
    BY <2>1, <2>2 DEF OwnDeclarations
<1>6. e = Table[s][i]
  <2>1. Table[s][i] \in Entries
    BY DEF Entries
  <2> QED
    BY <1>3, <1>5, <2>1 DEF Generated, UniqueIds
<1> QED
  BY <1>6 DEF Loaded, Adds

(* What is mandatory in a type of the kin is an entry of the node set. *)
LEMMA DeclarationsAreNear ==
  ASSUME Generated, NEW s \in Nodesets, NEW c \in Entries, Kin(s, c.parent),
         <<c.id, HasModellingRule, MandatoryRule>> \in Links
  PROVE  \E i \in DOMAIN Table[s] :
           c = Table[s][i] /\ <<c.id, HasModellingRule, MandatoryRule>> \in c.links
<1> DEFINE l == <<c.id, HasModellingRule, MandatoryRule>>
<1>1. l \in Links /\ l[1] = c.id /\ l[2] = HasModellingRule
  OBVIOUS
<1> HIDE DEF l
<1>2. PICK r \in Nodesets : \E i \in DOMAIN Table[r] : Table[r][i].id = l[1] /\ l \in Table[r][i].links
  BY <1>1, LinkOfItsSource
<1>3. PICK i \in DOMAIN Table[r] : Table[r][i].id = c.id /\ l \in Table[r][i].links
  BY <1>1, <1>2
<1>4. c = Table[r][i]
  <2>1. Table[r][i] \in Entries
    BY DEF Entries
  <2> QED
    BY <1>3, <2>1 DEF Generated, UniqueIds
<1>5. c.parent[1] = r
  <2>1. c.parent[1] # "ua"
    <3>1. OwnDeclarations(Table[r])
      BY DEF Generated
    <3> QED
      BY <1>3, <1>4, <3>1 DEF OwnDeclarations, l
  <2> QED
    BY <1>4, <2>1, AllNearby
<1>6. r = s
  BY <1>5, OwnNodesAre DEF Kin, Nodesets
<1> QED
  BY <1>3, <1>4, <1>6 DEF l

LEMMA SameHierarchyNext ==
  ASSUME Generated, TypeOK, references' \subseteq Links, NEW s \in Nodesets, Loaded(s),
         NEW e \in Entries, Adds(e), NEW type, Kin(s, type)
  PROVE  Hierarchy(references', type) = Hierarchy(references, type)
<1>1. ASSUME NEW t, Kin(s, t)
      PROVE  Above(references', t) = Above(references, t)
  <2>1. \A l \in references' : l[1] = t /\ l[2] = HasInterface => l \in references
    BY <1>1, NothingNewAbout
  <2>2. references \subseteq references'
    BY DEF Adds
  <2>3. {q \in references' : q[1] = t /\ q[2] = HasInterface}
          = {q \in references : q[1] = t /\ q[2] = HasInterface}
    BY <2>1, <2>2
  <2> QED
    BY <2>3 DEF Above
<1>2. references \subseteq Links
  BY DEF TypeOK
<1> QED
  BY <1>1, <1>2, SameHierarchy

(* The declarations that an instance of the type has to have. *)
Demanded(type) ==
  {c \in UNION {Children(t) : t \in Hierarchy(references, type)} :
     <<c.id, HasModellingRule, MandatoryRule>> \in references}

LEMMA DemandedAre ==
  ASSUME NEW type
  PROVE  /\ Demanded(type) =
              {c \in Entries : /\ c.parent \in Hierarchy(references, type) /\ c.ref # HasSubtype
                               /\ c.id \in nodes
                               /\ <<c.id, HasModellingRule, MandatoryRule>> \in references}
         /\ Demanded(type)' =
              {c \in Entries : /\ c.parent \in Hierarchy(references', type) /\ c.ref # HasSubtype
                               /\ c.id \in nodes'
                               /\ <<c.id, HasModellingRule, MandatoryRule>> \in references'}
BY ChildrenAre DEF Demanded

LEMMA MandatorySettled ==
  ASSUME Generated, TypeOK, references' \subseteq Links, NEW s \in Nodesets, Loaded(s),
         NEW e \in Entries, Adds(e), NEW type, Kin(s, type)
  PROVE  MandatoryOf(type)' = MandatoryOf(type)
<1> DEFINE Rule(c) == <<c.id, HasModellingRule, MandatoryRule>>
           H == Hierarchy(references, type)
<1>1. Hierarchy(references', type) = H /\ references \subseteq Links
  BY SameHierarchyNext DEF TypeOK
<1>2. ASSUME NEW c \in Entries, c.parent \in H, c.id \in nodes', Rule(c) \in references'
      PROVE  c.id \in nodes /\ Rule(c) \in references
  <2>1. Kin(s, c.parent)
    BY <1>1, <1>2, HierarchyKin
  <2>2. PICK i \in DOMAIN Table[s] : c = Table[s][i] /\ Rule(c) \in c.links
    BY <1>2, <2>1, DeclarationsAreNear
  <2>3. Rule(c) \in references
    <3>1. c.id[1] = s
      BY <2>2, NamespacesAssumption
    <3>2. Rule(c) \in references' /\ Rule(c)[1] = c.id /\ Rule(c)[2] = HasModellingRule
      BY <1>2
    <3> HIDE DEF Rule
    <3> QED
      BY <3>1, <3>2, NothingNewAbout DEF Kin
  <2>4. c.id \in nodes
    <3>1. CASE c.id = e.id
      <4>1. c = e
        BY <3>1 DEF Generated, UniqueIds
      <4> QED
        BY <2>2, <4>1 DEF Adds, Loaded
    <3> QED
      BY <1>2, <3>1 DEF Adds
  <2> QED
    BY <2>3, <2>4
<1>3. nodes \subseteq nodes' /\ references \subseteq references'
  BY DEF Adds
<1>4. Demanded(type)' = Demanded(type)
  <2> HIDE DEF H
  <2>1. \A c \in Entries : c.parent \in H =>
          (c.id \in nodes' /\ Rule(c) \in references' <=> c.id \in nodes /\ Rule(c) \in references)
    BY <1>2, <1>3
  <2>2. Demanded(type) = {c \in Entries : c.parent \in H /\ c.ref # HasSubtype
                                          /\ c.id \in nodes /\ Rule(c) \in references}
    BY DemandedAre DEF H
  <2>3. Demanded(type)' = {c \in Entries : c.parent \in H /\ c.ref # HasSubtype
                                           /\ c.id \in nodes' /\ Rule(c) \in references'}
    BY <1>1, DemandedAre DEF H
  <2> HIDE DEF Rule
  <2> QED
    BY <2>1, <2>2, <2>3
<1> QED
  BY <1>4 DEF MandatoryOf, Demanded

------------------------------------------------------------------------------
(* Every instance has what its type demands.                                *)

(* The object has what is demanded: of its own, or copied from the type. *)
Has(e, m) ==
  \/ [of |-> e.id, name |-> m.name, ref |-> m.ref] \in copied
  \/ \E c \in Children(e.id) : c.name = m.name

(* The node set that decides what a type demands: RaspberryPi is a subtype *)
(* of DI's DeviceType.                                                      *)
Home(type) == IF type[1] = "app" THEN "di" ELSE type[1]

CompleteOf(e) ==
  Loaded(Home(e.type)) /\ \A m \in MandatoryOf(e.type) : Has(e, m)

(* A finished instance is complete at every time, and not just in the end, *)
(* because its node set was there before.                                  *)
CompleteInv ==
  \A e \in Entries : IsInstance(e) /\ e.id \in finished => CompleteOf(e)

LEMMA HomeOfInstance ==
  ASSUME Generated, NEW e \in Entries, IsInstance(e)
  PROVE  /\ Home(e.type) \in Nodesets /\ Kin(Home(e.type), e.type)
         /\ e.id[1] \in Nodesets => e.type[1] = e.id[1] /\ Home(e.type) = e.id[1]
         /\ e.type[1] = "app" => e = ThisDevice
<1>1. CASE \E s \in Nodesets : e.id[1] = s /\ \E i \in DOMAIN Table[s] : e = Table[s][i]
  <2>1. PICK s \in Nodesets : e.id[1] = s /\ \E i \in DOMAIN Table[s] : e = Table[s][i]
    BY <1>1
  <2>2. e.type[1] = s
    BY <2>1, AllNearby DEF IsInstance
  <2> QED
    BY <2>1, <2>2 DEF Home, Kin, Nodesets
<1>2. CASE e.id[1] = "app" /\ e \in {TheAnswer, RaspberryPi, ThisDevice, Pump1}
  <2>1. e = ThisDevice \/ e = Pump1
    BY <1>2, OwnNodesAre DEF IsInstance
  <2>2. "app" \notin Nodesets
    BY DEF Nodesets
  <2>3. CASE e = ThisDevice
    BY <1>2, <2>2, <2>3, OwnNodesAre DEF Home, Kin, Nodesets
  <2>4. CASE e = Pump1
    BY <1>2, <2>2, <2>4, OwnNodesAre DEF Home, Kin, Nodesets
  <2> QED
    BY <2>1, <2>3, <2>4
<1> QED
  BY <1>1, <1>2, WhoseEntry

LEMMA AvailableIsLoaded ==
  ASSUME Generated, ProgressInv, NEW s \in Nodesets, s \in available
  PROVE  Loaded(s)
<1> SUFFICES ASSUME NEW i \in DOMAIN Table[s], Compiled(Table[s][i])
             PROVE  Table[s][i].id \in nodes /\ Table[s][i].links \subseteq references
  BY DEF Loaded
<1>1. PICK k \in DOMAIN Calls[s] : Calls[s][k] = [does |-> "begin", node |-> i]
  BY DEF Generated, Complete
<1> QED
  BY <1>1 DEF ProgressInv, Done

(* When an instance of a node set is finished, the node set is there. *)
LEMMA LoadedWhenFinishing ==
  ASSUME Generated, TypeOK, ProgressInv, NEW s \in Nodesets, stage = s,
         Calls[stage][next].does = "finish", IsInstance(Current)
  PROVE  Loaded(s)
<1>. PICK n : n = next
  OBVIOUS
<1>1. n \in DOMAIN Calls[s]
  BY DEF TypeOK
<1>2. InstancesLast(Table[s], Calls[s])
  BY DEF Generated
<1>3. \A i \in DOMAIN Table[s] : Table[s][i] \in BegunBefore(Table[s], Calls[s], n)
  BY <1>1, <1>2 DEF InstancesLast, Current
<1> QED
  BY <1>3 DEF BegunBefore, ProgressInv, Done, Loaded

LEMMA MandatoryUnchanged ==
  ASSUME UNCHANGED <<nodes, references>>, NEW type
  PROVE  MandatoryOf(type)' = MandatoryOf(type)
BY DemandedAre DEF MandatoryOf, Demanded

(* What is complete stays so. *)
LEMMA CompleteStays ==
  ASSUME Generated, TypeOK, references' \subseteq Links, Grows, copied \subseteq copied',
         NEW a \in Entries, Adds(a) \/ UNCHANGED <<nodes, references>>,
         NEW e \in Entries, IsInstance(e), CompleteOf(e)
  PROVE  CompleteOf(e)'
<1>1. MandatoryOf(e.type)' = MandatoryOf(e.type)
  BY HomeOfInstance, MandatorySettled, MandatoryUnchanged DEF CompleteOf
<1>2. Loaded(Home(e.type))'
  BY LoadedStays DEF CompleteOf
<1>3. Children(e.id) \subseteq Children(e.id)'
  BY ChildrenAre DEF Grows
<1>4. \A m \in MandatoryOf(e.type) : Has(e, m)'
  BY <1>3 DEF CompleteOf, Has
<1> QED
  BY <1>1, <1>2, <1>4 DEF CompleteOf

(* Finishing an instance completes it. *)
LEMMA FinishingCompletes ==
  ASSUME Generated, TypeOK, references' \subseteq Links, Grows,
         NEW e \in Entries, IsInstance(e), Loaded(Home(e.type)),
         Adds(e) \/ UNCHANGED <<nodes, references>>, CopiesInto(e) \subseteq copied'
  PROVE  CompleteOf(e)'
<1>1. MandatoryOf(e.type)' = MandatoryOf(e.type)
  BY HomeOfInstance, MandatorySettled, MandatoryUnchanged
<1>2. Loaded(Home(e.type))'
  BY LoadedStays
<1>3. Children(e.id) \subseteq Children(e.id)'
  BY ChildrenAre DEF Grows
<1>4. ASSUME NEW m \in MandatoryOf(e.type)
      PROVE  Has(e, m)'
  <2>1. CASE \E c \in Children(e.id) : c.name = m.name
    BY <1>3, <2>1 DEF Has
  <2>2. CASE \A c \in Children(e.id) : c.name # m.name
    <3>1. [of |-> e.id, name |-> m.name, ref |-> m.ref] \in CopiesInto(e)
      BY <2>2 DEF CopiesInto
    <3> QED
      BY <3>1 DEF Has
  <2> QED
    BY <2>1, <2>2
<1> QED
  BY <1>1, <1>2, <1>4 DEF CompleteOf

LEMMA CompleteStep ==
  ASSUME Generated
  PROVE  TypeOK /\ ProgressInv /\ InstanceInv /\ CompleteInv /\ [Next]_vars => CompleteInv'
<1> SUFFICES ASSUME TypeOK, ProgressInv, InstanceInv, CompleteInv, [Next]_vars PROVE CompleteInv'
  OBVIOUS
<1>1. Grows /\ references' \subseteq Links
  BY StepGrows, StepTypes DEF TypeOK
<1>2. ASSUME finished' = finished, copied \subseteq copied',
             NEW a \in Entries, Adds(a) \/ UNCHANGED <<nodes, references>>
      PROVE  CompleteInv'
  BY <1>1, <1>2, CompleteStays DEF CompleteInv
<1>3. ASSUME NEW a \in Entries, Adds(a) \/ UNCHANGED <<nodes, references>>,
             IsInstance(a) => Loaded(Home(a.type)),
             finished' = finished \cup {a.id}, copied' = copied \cup CopiesInto(a)
      PROVE  CompleteInv'
  <2>1. ASSUME NEW e \in Entries, IsInstance(e), e.id \in finished
        PROVE  CompleteOf(e)'
    BY <1>1, <1>3, <2>1, CompleteStays DEF CompleteInv
  <2>2. IsInstance(a) => CompleteOf(a)'
    BY <1>1, <1>3, FinishingCompletes
  <2>3. \A e \in Entries : e.id = a.id => e = a
    BY DEF Generated, UniqueIds
  <2> QED
    BY <1>3, <2>1, <2>2, <2>3 DEF CompleteInv
<1>4. CASE Skip \/ SetManufacturer \/ UNCHANGED vars
  <2>1. UNCHANGED spaceVars
    BY <1>4 DEF Skip, SetManufacturer, vars
  <2> QED
    BY <1>2, <2>1, OwnNodesAreEntries DEF spaceVars
<1>5. CASE Begin
  <2>1. Current \in Entries /\ Compiled(Current) /\ finished' = finished /\ copied' = copied
    BY <1>5, CurrentIsAnEntry DEF Begin, At
  <2>2. Adds(Current)
    BY <1>5 DEF Begin, Adds, Accepts
  <2> QED
    BY <1>2, <2>1, <2>2
<1>6. CASE Finish
  <2>1. /\ stage \in Nodesets /\ Calls[stage][next].does = "finish" /\ Current \in Entries
        /\ UNCHANGED <<nodes, references>>
    BY <1>6, CurrentIsAnEntry DEF Finish, At
  <2>2. \/ finished' = finished /\ copied' = copied
        \/ finished' = finished \cup {Current.id} /\ copied' = copied \cup CopiesInto(Current)
    BY <1>6 DEF Finish
  <2>3. IsInstance(Current) => Loaded(Home(Current.type))
    <3>1. Current.id[1] = stage
      BY <2>1, CurrentIsAnEntry, NamespacesAssumption DEF Current
    <3> QED
      BY <2>1, <3>1, HomeOfInstance, LoadedWhenFinishing
  <2> QED
    BY <1>2, <1>3, <2>1, <2>2, <2>3
<1>7. CASE AddDefaultInstance \/ AddDeviceType \/ AddDevice \/ AddMyNsInstance
  <2>1. PICK a \in {TheAnswer, RaspberryPi, ThisDevice, Pump1} :
          /\ \E s1, s2 \in Stages : Add(a, s1, s2)
          /\ a = ThisDevice => stage = "device"
          /\ a = Pump1 => stage = "pump"
    <3>1. CASE AddDefaultInstance \/ AddDeviceType
      BY <3>1, NextStages, OwnIds, OwnNodesAre
         DEF AddDefaultInstance, AddDeviceType
    <3>2. CASE AddDevice
      BY <3>2, NextStages, OwnIds DEF AddDevice
    <3>3. CASE AddMyNsInstance
      BY <3>3, NextStages, OwnIds DEF AddMyNsInstance
    <3> QED
      BY <1>7, <3>1, <3>2, <3>3
  <2>2. a \in Entries /\ Compiled(a)
    BY OwnNodesCompiled
  <2>3. \/ UNCHANGED spaceVars
        \/ /\ nodes' = nodes \cup {a.id} /\ a.id \notin nodes /\ UNCHANGED <<references, methodCalls>>
           /\ finished' = finished \cup {a.id} /\ copied' = copied \cup CopiesInto(a)
    BY <2>1 DEF Add, Accepts, spaceVars
  <2>4. CASE UNCHANGED spaceVars
    BY <1>2, <2>2, <2>4 DEF spaceVars
  <2>5. CASE /\ nodes' = nodes \cup {a.id} /\ a.id \notin nodes /\ UNCHANGED <<references, methodCalls>>
             /\ finished' = finished \cup {a.id} /\ copied' = copied \cup CopiesInto(a)
    <3>1. Adds(a)
      BY <2>2, <2>5 DEF Adds
    <3>2. IsInstance(a) => Loaded(Home(a.type))
      <4> SUFFICES ASSUME IsInstance(a) PROVE Loaded(Home(a.type))
        OBVIOUS
      <4>1. CASE a = ThisDevice
        <5>1. Home(a.type) = "di" /\ "di" \in available
          BY <2>1, <4>1, OwnNodesAre DEF Home, InstanceInv
        <5> QED
          BY <5>1, AvailableIsLoaded DEF Nodesets
      <4>2. CASE a = Pump1
        <5>1. Home(a.type) = "my" /\ "my" \in available
          BY <2>1, <4>2, OwnNodesAre DEF Home, InstanceInv
        <5> QED
          BY <5>1, AvailableIsLoaded DEF Nodesets
      <4>3. CASE a = TheAnswer \/ a = RaspberryPi
        BY <4>3, OwnNodesAre DEF IsInstance
      <4> QED
        BY <4>1, <4>2, <4>3
    <3> QED
      BY <1>3, <2>2, <2>5, <3>1, <3>2
  <2> QED
    BY <2>3, <2>4, <2>5
<1> QED
  BY <1>4, <1>5, <1>6, <1>7 DEF Next

(* A loaded type demands all that the generated functions declare. *)
LEMMA DeclaredIsDemanded ==
  ASSUME Generated, TypeOK, methodCalls, NEW s \in Nodesets, Loaded(s), NEW type, Kin(s, type)
  PROVE  Declared(type) \subseteq MandatoryOf(type)
<1> DEFINE Rule(c) == <<c.id, HasModellingRule, MandatoryRule>>
<1> SUFFICES ASSUME NEW t \in Hierarchy(references, type) \cap DOMAIN Below,
                    NEW c \in Below[t], Rule(c) \in c.links
             PROVE  c \in Demanded(type)
  BY DEF Declared, MandatoryOf, Demanded
<1>1. c \in Entries /\ c.parent = t /\ c.ref # HasSubtype
  BY DEF Below
<1>2. Kin(s, t)
  BY HierarchyKin DEF TypeOK
<1>3. Rule(c) \in Links
  BY <1>1 DEF Links
<1>4. PICK i \in DOMAIN Table[s] : c = Table[s][i]
  BY <1>1, <1>2, <1>3, DeclarationsAreNear
<1>5. c.id \in nodes /\ Rule(c) \in references
  BY <1>4 DEF Loaded, Compiled
<1> QED
  BY <1>1, <1>5, DemandedAre

(* Every finished object or variable has what its type and all that the    *)
(* type inherits from call mandatory: UA_Server_addNode_finish in the order *)
(* of di() and example_nodeset(), where a type is finished after the        *)
(* instances, and UA_Server_addObjectNode for the server's own.  If the     *)
(* loader of the type returned GOOD, nothing that the generated functions   *)
(* declare is missing.                                                      *)
THEOREM InstancesHaveTheirParts ==
  ASSUME Generated, \A s \in Nodesets : HasArguments(Table[s])
  PROVE  Spec => []InstancesComplete
<1>1. Init => ProgressInv /\ InstanceInv /\ CompleteInv
  BY DEF Init, ProgressInv, InstanceInv, InstancesOfLoadedTypes, CompleteInv
<1>2. TypeOK /\ ProgressInv /\ InstanceInv /\ CompleteInv /\ MethodlessNeverLoads
        => InstancesComplete
  <2> SUFFICES ASSUME TypeOK, ProgressInv, InstanceInv, CompleteInv, MethodlessNeverLoads,
                      NEW e \in Entries, IsInstance(e), e.id \in finished
               PROVE  \A m \in MandatoryOf(e.type) \cup
                        (IF e.type[1] \in available \cup {RaspberryPi.id[1]}
                         THEN Declared(e.type) ELSE {}) : Has(e, m)
    BY DEF InstancesComplete, Has
  <2>1. /\ Home(e.type) \in Nodesets /\ Kin(Home(e.type), e.type) /\ Loaded(Home(e.type))
        /\ \A m \in MandatoryOf(e.type) : Has(e, m)
    BY HomeOfInstance DEF CompleteInv, CompleteOf
  <2>2. CASE e.type[1] \in available \cup {RaspberryPi.id[1]}
    <3>1. available # {}
      <4>1. CASE e.type[1] = RaspberryPi.id[1]
        <5>1. e = ThisDevice
          BY <4>1, HomeOfInstance, OwnNodesAre
        <5> QED
          BY <5>1 DEF TypeOK, InstanceInv, InstancesOfLoadedTypes
      <4> QED
        BY <2>2, <4>1
    <3>2. methodCalls
      BY <3>1 DEF MethodlessNeverLoads
    <3> QED
      BY <2>1, <3>2, DeclaredIsDemanded
  <2> QED
    BY <2>1, <2>2
<1>3. Spec => []MethodlessNeverLoads
  BY ArgumentsNeedMethods DEF Generated
<1>4. Spec => [](TypeOK /\ ProgressInv /\ InstanceInv /\ CompleteInv)
  BY <1>1, ProgressStep, InstanceStep, CompleteStep, TypeCorrect, PTL DEF Spec
<1> QED
  BY <1>2, <1>3, <1>4, PTL

------------------------------------------------------------------------------
(* The device and its manufacturer.                                         *)

Naming == {"deviceType", "device", "manufacturer"}

(* How far start() is with the device, if the SDK has refused it nothing. *)
MakerInv ==
  /\ stage \in Nodesets \cup {"answer", "deviceType"} => RaspberryPi.id \notin nodes
  /\ stage \in Nodesets \cup {"answer", "deviceType", "device"} => ThisDevice.id \notin nodes
  /\ "di" \in available /\ refused \cap Naming = {} =>
       /\ stage = "device" => RaspberryPi.id \in nodes
       /\ stage = "manufacturer" => HasManufacturer(ThisDevice.id)
       /\ stage \in {"pump", "run"} => manufacturer

LEMMA OwnPlaces ==
  /\ RaspberryPi.ref[1] = "ua" /\ RaspberryPi.type[1] = "ua"
  /\ ThisDevice.ref[1] = "ua" /\ ThisDevice.parent = <<"di", 5001>>
  /\ RaspberryPi.ref = HasSubtype
<1>1. RaspberryPi.ref = HasSubtype /\ RaspberryPi.type = NoNode
  BY DEF RaspberryPi, Node
<1>2. ThisDevice.ref = HasComponent /\ ThisDevice.parent = <<"di", 5001>>
  BY DEF ThisDevice, Node
<1> QED
  BY <1>1, <1>2 DEF HasSubtype, NoNode, HasComponent, Ua

(* What DI has to bring for the device is there. *)
LEMMA DiIsThere ==
  ASSUME Generated, MakersAreNamed(Table["di"]), ProgressInv, "di" \in available
  PROVE  /\ RaspberryPi.parent \in nodes /\ ThisDevice.parent \in nodes
         /\ \E c \in Entries :
              /\ c.parent = RaspberryPi.parent /\ c.ref = HasProperty /\ c.name = ManufacturerName
              /\ c.id \in nodes /\ <<c.id, HasModellingRule, MandatoryRule>> \in references
<1>1. Loaded("di")
  BY AvailableIsLoaded DEF Nodesets
<1>2. \A i \in DOMAIN Table["di"] : Table["di"][i].class # "Method" =>
        Table["di"][i].id \in nodes /\ Table["di"][i].links \subseteq references
  BY <1>1 DEF Loaded, Compiled
<1>3. RaspberryPi.parent \in nodes /\ ThisDevice.parent \in nodes
  BY <1>2 DEF MakersAreNamed
<1>4. PICK i \in DOMAIN Table["di"] :
        LET e == Table["di"][i] IN
        /\ e.parent = RaspberryPi.parent /\ e.ref = HasProperty /\ e.class # "Method"
        /\ e.name = <<"di", "Manufacturer">>
        /\ <<e.id, HasModellingRule, MandatoryRule>> \in e.links
  BY DEF MakersAreNamed
<1>5. Table["di"][i] \in Entries
  BY DEF Entries, Nodesets
<1> QED
  BY <1>2, <1>3, <1>4, <1>5 DEF ManufacturerName

(* A subtype inherits from its parent. *)
LEMMA ParentInHierarchy ==
  ASSUME NEW refs
  PROVE  RaspberryPi.parent \in Hierarchy(refs, RaspberryPi.id)
<1>1. RaspberryPi.id \in DOMAIN Supers /\ RaspberryPi.parent \in Supers[RaspberryPi.id]
  BY OwnNodesAreEntries, OwnPlaces DEF Supers
<1>2. RaspberryPi.parent \in UpFrom(refs, {RaspberryPi.id})
  BY <1>1 DEF UpFrom, Above
<1>3. \A T : T \subseteq UpFrom(refs, T)
  BY DEF UpFrom
<1> QED
  BY <1>2, <1>3, HierarchyIs

(* The device gets a Manufacturer with its type. *)
LEMMA DeviceGetsMaker ==
  ASSUME Generated, MakersAreNamed(Table["di"]), ProgressInv, "di" \in available
  PROVE  [of |-> ThisDevice.id, name |-> ManufacturerName, ref |-> HasProperty]
           \in CopiesInto(ThisDevice)
<1>1. PICK c \in Entries :
        /\ c.parent = RaspberryPi.parent /\ c.ref = HasProperty /\ c.name = ManufacturerName
        /\ c.id \in nodes /\ <<c.id, HasModellingRule, MandatoryRule>> \in references
  BY DiIsThere
<1>2. HasProperty # HasSubtype
  BY DEF HasProperty, HasSubtype, Ua
<1>3. c \in Demanded(RaspberryPi.id)
  BY <1>1, <1>2, DemandedAre, ParentInHierarchy
<1>4. [name |-> ManufacturerName, ref |-> HasProperty] \in MandatoryOf(RaspberryPi.id)
  BY <1>1, <1>3 DEF MandatoryOf, Demanded
<1>5. Children(ThisDevice.id) = {}
  BY ChildrenAre, OwnNodesAreLeaves DEF Generated
<1>6. IsInstance(ThisDevice) /\ ThisDevice.type = RaspberryPi.id
  BY OwnNodesAre DEF IsInstance
<1> DEFINE m == [name |-> ManufacturerName, ref |-> HasProperty]
<1>7. m \in {w \in MandatoryOf(ThisDevice.type) : \A k \in Children(ThisDevice.id) : k.name # w.name}
  BY <1>4, <1>5, <1>6
<1>8. m.name = ManufacturerName /\ m.ref = HasProperty
  OBVIOUS
<1> HIDE DEF m
<1> QED
  BY <1>6, <1>7, <1>8 DEF CopiesInto

LEMMA LoaderKeepsMaker ==
  ASSUME TypeOK, MakerInv, stage \in Nodesets, NEW good \in BOOLEAN, Proceed(good),
         nodes' \subseteq nodes \cup {Current.id}
  PROVE  MakerInv'
<1>1. Current.id \notin {RaspberryPi.id, ThisDevice.id}
  BY CurrentIsAnEntry, OwnIds DEF Current
<1>2. stage' \in Nodesets \cup {"answer"}
  BY DEF Proceed, Return, After, Nodesets
<1> QED
  BY <1>1, <1>2 DEF MakerInv, Nodesets

LEMMA MakerStep ==
  ASSUME Generated, MakersAreNamed(Table["di"])
  PROVE  TypeOK /\ ProgressInv /\ MakerInv /\ [Next]_vars => MakerInv'
<1> SUFFICES ASSUME TypeOK, ProgressInv, MakerInv, [Next]_vars PROVE MakerInv'
  OBVIOUS
<1>1. CASE Skip \/ Begin \/ Finish
  <2>1. stage \in Nodesets /\ nodes' \subseteq nodes \cup {Current.id}
    BY <1>1 DEF Skip, Begin, Finish, At, spaceVars
  <2>2. \E good \in BOOLEAN : Proceed(good)
    BY <1>1 DEF Skip, Begin, Finish, Begun
  <2> QED
    BY <2>1, <2>2, LoaderKeepsMaker
<1>2. CASE AddDefaultInstance
  <2>1. TheAnswer.id \notin {RaspberryPi.id, ThisDevice.id}
    BY OwnIds
  <2>2. /\ stage = "answer" /\ stage' = AfterAnswer /\ available' = available
        /\ nodes' \subseteq nodes \cup {TheAnswer.id}
    BY <1>2 DEF AddDefaultInstance, Add, loaderVars
  <2> QED
    BY <2>1, <2>2 DEF MakerInv, AfterAnswer, Nodesets
<1>3. CASE AddDeviceType
  <2>1. PICK granted \in BOOLEAN :
          LET done == granted /\ Accepts(RaspberryPi) /\ Instantiable(RaspberryPi.type)
          IN  /\ Grant(granted)
              /\ nodes' = IF done THEN nodes \cup {RaspberryPi.id} ELSE nodes
              /\ stage' = IF done THEN "device" ELSE AfterDevice
    BY <1>3 DEF AddDeviceType, Add
  <2>2. stage = "deviceType" /\ available' = available /\ stage' \in {"device", "pump", "run"}
    BY <1>3, <2>1 DEF AddDeviceType, Add, loaderVars, AfterDevice
  <2>3. nodes' \subseteq nodes \cup {RaspberryPi.id} /\ ThisDevice.id # RaspberryPi.id
    BY <2>1, OwnNodesAre
  <2>4. ASSUME "di" \in available, refused' \cap Naming = {}
        PROVE  stage' = "device" /\ RaspberryPi.id \in nodes'
    <3>1. granted
      BY <2>1, <2>2, <2>4, GrantRecords DEF Naming
    <3>2. Accepts(RaspberryPi)
      BY <2>2, <2>4, DiIsThere, OwnPlaces DEF Accepts, Known, MakerInv
    <3>3. Instantiable(RaspberryPi.type)
      BY OwnNodesAre, WhoseEntry DEF Instantiable, Nodesets
    <3> QED
      BY <2>1, <3>1, <3>2, <3>3
  <2> QED
    BY <2>2, <2>3, <2>4 DEF MakerInv, Nodesets
<1>4. CASE AddDevice
  <2>1. PICK granted \in BOOLEAN :
          LET done == granted /\ Accepts(ThisDevice) /\ Instantiable(ThisDevice.type)
          IN  /\ Grant(granted)
              /\ copied' = IF done THEN copied \cup CopiesInto(ThisDevice) ELSE copied
              /\ stage' = IF done THEN "manufacturer" ELSE AfterDevice
    BY <1>4 DEF AddDevice, Add
  <2>2. stage = "device" /\ available' = available /\ stage' \in {"manufacturer", "pump", "run"}
    BY <1>4, <2>1 DEF AddDevice, Add, loaderVars, AfterDevice
  <2>3. ASSUME "di" \in available, refused' \cap Naming = {}
        PROVE  stage' = "manufacturer" /\ HasManufacturer(ThisDevice.id)'
    <3>1. granted /\ refused \cap Naming = {}
      BY <2>1, <2>2, <2>3, GrantRecords DEF Naming
    <3>2. Accepts(ThisDevice)
      BY <2>2, <2>3, <3>1, DiIsThere, OwnPlaces, OwnNodesAre DEF Accepts, Known, MakerInv
    <3>3. Instantiable(ThisDevice.type)
      BY OwnNodesAre, OwnNodesAreEntries DEF Instantiable, Generated, UniqueIds
    <3> QED
      BY <2>1, <2>3, <3>1, <3>2, <3>3, DeviceGetsMaker DEF HasManufacturer
  <2> QED
    BY <2>2, <2>3 DEF MakerInv, Nodesets
<1>5. CASE SetManufacturer
  <2>1. PICK granted \in BOOLEAN :
          Grant(granted) /\ manufacturer' = (granted /\ HasManufacturer(ThisDevice.id))
    BY <1>5 DEF SetManufacturer
  <2>2. stage = "manufacturer" /\ available' = available /\ stage' \in {"pump", "run"}
    BY <1>5 DEF SetManufacturer, loaderVars, AfterDevice
  <2>3. ASSUME "di" \in available, refused' \cap Naming = {}
        PROVE  manufacturer'
    <3>1. granted /\ refused \cap Naming = {}
      BY <2>1, <2>2, <2>3, GrantRecords DEF Naming
    <3> QED
      BY <2>1, <2>2, <2>3, <3>1 DEF MakerInv
  <2> QED
    BY <2>2, <2>3 DEF MakerInv, Nodesets
<1>6. CASE AddMyNsInstance
  <2>1. PICK granted \in BOOLEAN : Grant(granted)
    BY <1>6 DEF AddMyNsInstance, Add
  <2>2. /\ stage = "pump" /\ stage' = "run" /\ available' = available
        /\ manufacturer' = manufacturer /\ refused \subseteq refused'
    BY <1>6, <2>1, GrantRecords DEF AddMyNsInstance, Add, loaderVars
  <2> QED
    BY <2>2 DEF MakerInv, Nodesets
<1>7. CASE UNCHANGED vars
  BY <1>7 DEF vars, loaderVars, spaceVars, MakerInv, HasManufacturer, Children
<1> QED
  BY <1>1, <1>2, <1>3, <1>4, <1>5, <1>6, <1>7 DEF Next

(* The device names its manufacturer unless the SDK refuses a call: DI's   *)
(* DeviceType declares it, RaspberryPi inherits it, ThisDevice gets a copy  *)
(* with a browse name of DI, and that is where setManufacturer looks.       *)
THEOREM ManufacturerIsFound ==
  ASSUME Generated, MakersAreNamed(Table["di"])
  PROVE  Spec => []DeviceNamesItsMaker
<1>1. Init => ProgressInv /\ MakerInv
  BY DEF Init, ProgressInv, MakerInv, Nodesets
<1>2. MakerInv => DeviceNamesItsMaker
  BY DEF MakerInv, DeviceNamesItsMaker, Naming
<1> QED
  BY <1>1, <1>2, ProgressStep, MakerStep, TypeCorrect, PTL DEF Spec
=============================================================================
