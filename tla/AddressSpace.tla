---------------------------- MODULE AddressSpace ----------------------------
(***************************************************************************)
(* How OpcUaServer::start() fills the address space before the server      *)
(* runs: the generated loaders di() and example_nodeset(), which hand the  *)
(* nodes of their tables to the SDK call by call and give up at the first  *)
(* call that fails, and then the helpers that add the server's own         *)
(* instances.  Nothing is taken back: what a loader had added when it gave *)
(* up stays, and the server runs with it.                                  *)
(*                                                                         *)
(* All of it is one thread.  What is hard is the order: a node needs its   *)
(* parent, its type and the targets of its references to be there; and     *)
(* finishing an object copies into it what its type calls mandatory and it *)
(* does not have yet.  The SDK is modelled by what the code relies on, and *)
(* it may refuse any call for a reason of its own.                         *)
(***************************************************************************)
EXTENDS Integers, Sequences, FiniteSets

CONSTANTS
  Table,        \* per node set: what its functions add, in the order of their numbers
  Calls,        \* per node set: the calls of its loader
  MaxRefusals,  \* bound: how many stages the SDK refuses a call in
  Builds        \* the values of UA_ENABLE_METHODCALLS that are built

Nodesets == {"di", "my"}

(* The calls of a loader are about the entries of its table. *)
ASSUME ConstantsAssumption ==
  /\ MaxRefusals \in Nat /\ Builds \subseteq BOOLEAN
  /\ \A s \in Nodesets :
       /\ Calls[s] # <<>>
       /\ Calls[s] \in Seq([does : {"begin", "finish"}, node : DOMAIN Table[s]])

(* A loader adds nodes to the namespace it has registered. *)
ASSUME NamespacesAssumption ==
  \A s \in Nodesets : LET table == Table[s] IN \A i \in DOMAIN table : table[i].id[1] = s

INSTANCE NodeEntries WITH Namespace <- "app"

(* The nodes OpcUaServer.cpp adds itself.  The ids stand for those the SDK  *)
(* picks; "di" and "my" are looked up with UA_Server_addNamespace.          *)
TheAnswer   == Node(1, "Variable", Own("the answer"), ObjectsFolder, Organizes, NoNode, {})
RaspberryPi == Node(2, "ObjectType", Own("RaspberryPi"), <<"di", 1002>>, HasSubtype, NoNode, {})
ThisDevice  == Node(3, "Object", Own("ThisDevice"), <<"di", 5001>>, HasComponent, RaspberryPi.id, {})
Pump1       == Node(4, "Object", Own("Pump1"), ObjectsFolder, Organizes, <<"my", 1002>>, {})

Entries ==
  {TheAnswer, RaspberryPi, ThisDevice, Pump1}
    \cup UNION {{Table[s][i] : i \in DOMAIN Table[s]} : s \in Nodesets}

Ids   == {e.id : e \in Entries}
Links == UNION {e.links : e \in Entries}

(* Who may come to hang below whom, and what is derived from what. *)
Below  == [p \in {e.parent : e \in Entries} |-> {e \in Entries : e.parent = p /\ e.ref # HasSubtype}]
Supers == [t \in {e.id : e \in {f \in Entries : f.ref = HasSubtype}} |->
             {e.parent : e \in {f \in Entries : f.id = t}}]

VARIABLES
  stage,        \* what start() is doing: a loader, an instance, or "run"
  next,         \* the next call of the loader
  nodes,        \* the ids in the address space
  finished,     \* those whose construction the SDK has completed
  references,   \* the references that were added by themselves: <<source, type, target>>
  copied,       \* what finishing an object has put into it: its name and reference
  available,    \* the node sets whose loader returned GOOD: diAvailable, myAvailable
  manufacturer, \* the device's Manufacturer has been written
  refused,      \* the stages in which the SDK has refused a call
  methodCalls   \* the build has UA_ENABLE_METHODCALLS

loaderVars == <<next, available>>
spaceVars  == <<nodes, finished, references, copied>>
vars == <<stage, loaderVars, spaceVars, manufacturer, refused, methodCalls>>

Instancing == {"answer", "deviceType", "device", "manufacturer", "pump"}
Stages     == Nodesets \cup Instancing \cup {"run"}

TypeOK ==
  /\ stage \in Stages
  /\ stage \in Nodesets => next \in DOMAIN Calls[stage]
  /\ available \subseteq Nodesets
  /\ finished \subseteq nodes
  /\ nodes \subseteq Ids
  /\ references \subseteq Links
  /\ {c.of : c \in copied} \subseteq finished
  /\ manufacturer \in BOOLEAN
  /\ refused \subseteq Stages
  /\ methodCalls \in Builds

Init ==
  /\ stage = "di" /\ next = 1 /\ available = {}
  /\ nodes = {} /\ finished = {} /\ references = {} /\ copied = {}
  /\ manufacturer = FALSE /\ refused = {}
  /\ methodCalls \in Builds

------------------------------------------------------------------------------
(* What the SDK knows and does.                                             *)

(* The standard name space is complete: UA_NAMESPACE_ZERO is FULL. *)
Known(id) == id[1] = "ua" \/ id \in nodes

(* UA_Server_addNode_begin wants a new id, and what the node is added to. *)
Accepts(e) == e.id \notin nodes /\ Known(e.parent) /\ Known(e.ref) /\ Known(e.type)

(* A node is a subtype of its parent and implements its interfaces. *)
Above(refs, t) ==
  (IF t \in DOMAIN Supers THEN Supers[t] ELSE {})
    \cup {r[3] : r \in {q \in refs : q[1] = t /\ q[2] = HasInterface}}

TypeDepth == 5  \* no type of the node sets is further from the standard ones

(* A type and all it inherits from. *)
Hierarchy(refs, type) ==
  LET upTo[k \in 0..TypeDepth] ==
        IF k = 0 THEN {type} ELSE upTo[k - 1] \cup UNION {Above(refs, t) : t \in upTo[k - 1]}
  IN  upTo[TypeDepth]

Children(id) ==
  IF id \in DOMAIN Below THEN {e \in Below[id] : e.id \in nodes} ELSE {}

(* The names and references of what an instance of the type must have. *)
MandatoryOf(type) ==
  {[name |-> e.name, ref |-> e.ref] :
     e \in {c \in UNION {Children(t) : t \in Hierarchy(references, type)} :
              <<c.id, HasModellingRule, MandatoryRule>> \in references}}

(* The objects and variables of a type that the node sets or the server     *)
(* define: what the standard types declare is left to the SDK.              *)
IsInstance(e) == e.class \in {"Object", "Variable"} /\ e.type[1] # "ua"

(* UA_Server_addNode_finish: what is mandatory and not there is copied in. *)
CopiesInto(e) ==
  IF IsInstance(e)
  THEN {[of |-> e.id, name |-> m.name, ref |-> m.ref] :
          m \in {w \in MandatoryOf(e.type) : \A c \in Children(e.id) : c.name # w.name}}
  ELSE {}

MayRefuse == Cardinality(refused) < MaxRefusals

(* Whether the SDK grants the calls of a step for all it knows itself. *)
Grant(granted) ==
  /\ granted \in IF MayRefuse THEN BOOLEAN ELSE {TRUE}
  /\ refused' = IF granted THEN refused ELSE refused \cup {stage}

------------------------------------------------------------------------------
(* The loaders.                                                             *)

After(s) == IF s = "di" THEN "my" ELSE "answer"

(* MUTANT: a loader that failed is called again. *)
ReturnRetrying(good) ==
  /\ stage' = IF good THEN After(stage) ELSE stage
  /\ next' = 1
  /\ available' = IF good THEN available \cup {stage} ELSE available

(* MUTANT: start() gives up when a node set did not load. *)
ReturnOrGiveUp(good) ==
  /\ stage' = IF good THEN After(stage) ELSE "answer"
  /\ next' = 1
  /\ available' = IF good THEN available \cup {stage} ELSE available

(* return retVal *)
Return(good) ==
  /\ stage' = After(stage)
  /\ next' = 1
  /\ available' = IF good THEN available \cup {stage} ELSE available

(* MUTANT: the end of the list is missed. *)
ProceedPastEnd(good) ==
  IF good /\ next <= Len(Calls[stage])
  THEN next' = next + 1 /\ UNCHANGED <<stage, available>>
  ELSE Return(good)

(* if ((retVal = function(...)) != UA_STATUSCODE_GOOD) return retVal *)
Proceed(good) ==
  IF good /\ next < Len(Calls[stage])
  THEN next' = next + 1 /\ UNCHANGED <<stage, available>>
  ELSE Return(good)

(* The call the loader is at, and the entry it is about. *)
At(what)  == stage \in Nodesets /\ Calls[stage][next].does = what
Current   == Table[stage][Calls[stage][next].node]

(* MUTANT: the #ifdef is not there. *)
AlwaysCompiled(e) == TRUE

(* #ifdef UA_ENABLE_METHODCALLS: without it the functions of a method do    *)
(* nothing and return GOOD.                                                 *)
Compiled(e) == e.class # "Method" \/ methodCalls

Skip ==
  /\ stage \in Nodesets /\ ~Compiled(Current)
  /\ Proceed(TRUE)
  /\ UNCHANGED <<spaceVars, manufacturer, refused, methodCalls>>

(* MUTANT: retVal = UA_Server_addReference(...) of the last one only. *)
AllBegun(e, now, new) == now # nodes

(* What retVal |= ... has collected: the node and all of its references. *)
Begun(e, now, new) == now # nodes /\ new = e.links

(* MUTANT: UA_Server_addNode for _begin: a node is finished at once. *)
BeginAtOnce ==
  /\ At("begin") /\ Compiled(Current)
  /\ Grant(TRUE)
  /\ nodes' = nodes \cup {Current.id}
  /\ references' = references \cup Current.links
  /\ finished' = finished \cup {Current.id}
  /\ copied' = copied \cup CopiesInto(Current)
  /\ Proceed(TRUE)
  /\ UNCHANGED <<manufacturer, methodCalls>>

(* function_<set>_<n>_begin: the node, and its references even if the node  *)
(* was not added; lost is the reference the SDK refuses.                    *)
Begin ==
  /\ At("begin") /\ Compiled(Current)
  /\ \E added \in BOOLEAN, lost \in SUBSET Current.links :
       LET e   == Current
           now == IF added /\ Accepts(e) THEN nodes \cup {e.id} ELSE nodes
           new == {l \in e.links \ lost : \A i \in 1..3 : l[i][1] = "ua" \/ l[i] \in now}
       IN  /\ Cardinality(lost) <= IF added THEN 1 ELSE 0
           /\ Grant(added /\ lost = {})
           /\ nodes' = now
           /\ references' = references \cup new
           /\ Proceed(Begun(e, now, new))
  /\ UNCHANGED <<finished, copied, manufacturer, methodCalls>>

(* function_<set>_<n>_finish *)
Finish ==
  /\ At("finish") /\ Compiled(Current)
  /\ \E granted \in BOOLEAN :
       LET done == granted /\ Current.id \in nodes
       IN  /\ Grant(granted)
           /\ finished' = IF done THEN finished \cup {Current.id} ELSE finished
           /\ copied' = IF done THEN copied \cup CopiesInto(Current) ELSE copied
           /\ Proceed(done)
  /\ UNCHANGED <<nodes, references, manufacturer, methodCalls>>

------------------------------------------------------------------------------
(* The instances.  A helper's failure is logged, and start() goes on.       *)

(* MUTANT: start() does not ask diAvailable. *)
AfterAnswerAlways == "deviceType"

AfterAnswer == IF "di" \in available THEN "deviceType" ELSE IF "my" \in available THEN "pump" ELSE "run"

AfterDevice == IF "my" \in available THEN "pump" ELSE "run"

(* An abstract type has no instances. *)
Instantiable(type) == \A t \in Entries : t.id = type => ~t.abstract

(* UA_Server_addObjectTypeNode, _addObjectNode, _addVariableNode: all of    *)
(* the node or nothing.                                                     *)
Add(e, onSuccess, onFailure) ==
  /\ \E granted \in BOOLEAN :
       LET done == granted /\ Accepts(e) /\ Instantiable(e.type)
       IN  /\ Grant(granted)
           /\ nodes' = IF done THEN nodes \cup {e.id} ELSE nodes
           /\ finished' = IF done THEN finished \cup {e.id} ELSE finished
           /\ copied' = IF done THEN copied \cup CopiesInto(e) ELSE copied
           /\ stage' = IF done THEN onSuccess ELSE onFailure
  /\ UNCHANGED <<loaderVars, references, manufacturer, methodCalls>>

AddDefaultInstance == stage = "answer" /\ Add(TheAnswer, AfterAnswer, AfterAnswer)
AddDeviceType      == stage = "deviceType" /\ Add(RaspberryPi, "device", AfterDevice)
AddDevice          == stage = "device" /\ Add(ThisDevice, "manufacturer", AfterDevice)
AddMyNsInstance    == stage = "pump" /\ Add(Pump1, "run", "run")

(* setManufacturer follows HasProperty to DI's "Manufacturer" and writes    *)
(* what it finds.                                                           *)
(* MUTANT: UA_QUALIFIEDNAME(1, ...) as for the other names of the server. *)
OwnManufacturerName == Own("Manufacturer")

ManufacturerName == <<"di", "Manufacturer">>

HasManufacturer(id) ==
  \/ [of |-> id, name |-> ManufacturerName, ref |-> HasProperty] \in copied
  \/ \E c \in Children(id) : c.name = ManufacturerName /\ c.ref = HasProperty

SetManufacturer ==
  /\ stage = "manufacturer"
  /\ \E granted \in BOOLEAN :
       /\ Grant(granted)
       /\ manufacturer' = (granted /\ HasManufacturer(ThisDevice.id))
  /\ stage' = AfterDevice
  /\ UNCHANGED <<loaderVars, spaceVars, methodCalls>>

Next ==
  \/ Skip \/ Begin \/ Finish
  \/ AddDefaultInstance \/ AddDeviceType \/ AddDevice \/ SetManufacturer \/ AddMyNsInstance

Spec == Init /\ [][Next]_vars

(* start() is one thread that waits for nothing. *)
FairSpec == Spec /\ WF_vars(Next)

------------------------------------------------------------------------------
(* What the generator has to see to: facts about the tables and the calls.  *)

(* The entries that are begun before the k-th call. *)
BegunBefore(table, calls, k) ==
  {table[calls[j].node] : j \in {i \in 1..(k - 1) : calls[i].does = "begin"}}

(* A node is begun once, after all that it names, and finished later. *)
WellOrdered(table, calls) ==
  \A k \in DOMAIN calls :
    LET e         == table[calls[k].node]
        before    == {b.id : b \in BegunBefore(table, calls, k)}
        There(id) == id[1] = "ua" \/ id \in before
    IN  /\ calls[k].does = "begin" =>
             /\ e.id \notin before
             /\ There(e.parent) /\ There(e.ref) /\ There(e.type)
             /\ \A l \in e.links : \A i \in 1..3 : There(l[i]) \/ l[i] = e.id
        /\ calls[k].does = "finish" => e.id \in before

(* Every entry is begun and finished. *)
Complete(table, calls) ==
  \A i \in DOMAIN table : \A what \in {"begin", "finish"} :
    \E k \in DOMAIN calls : calls[k] = [does |-> what, node |-> i]

(* Two entries never have the same id. *)
UniqueIds(entries) == \A e \in entries, f \in entries : e.id = f.id => e = f

(* The node set has a method with arguments. *)
HasArguments(table) ==
  \E i \in DOMAIN table, j \in DOMAIN table :
    /\ table[j].class = "Method"
    /\ table[i].class # "Method" /\ table[i].parent = table[j].id

(* The folder that the device goes into has no declarations to follow. *)
PlainFolder(entries) == \A e \in entries : e.id = ThisDevice.parent => ~IsInstance(e)

(* Whether a type has an interface, and a declaration a modelling rule, is  *)
(* said where the type or the declaration is added, and none is mandatory   *)
(* in a standard type.                                                      *)
OwnDeclarations(table) ==
  \A i \in DOMAIN table : LET e == table[i] IN
    /\ \A l \in e.links : l[2] \in {HasInterface, HasModellingRule} => l[1] = e.id
    /\ <<e.id, HasModellingRule, MandatoryRule>> \in e.links => e.parent[1] # "ua"

(* The type of devices and the folder for them are there, and every device  *)
(* has to name its manufacturer.                                            *)
MakersAreNamed(table) ==
  /\ {RaspberryPi.parent, ThisDevice.parent} \subseteq
       {table[i].id : i \in {j \in DOMAIN table : table[j].class # "Method"}}
  /\ \E i \in DOMAIN table : LET e == table[i] IN
       /\ e.parent = RaspberryPi.parent /\ e.ref = HasProperty /\ e.class # "Method"
       /\ e.name = <<"di", "Manufacturer">>
       /\ <<e.id, HasModellingRule, MandatoryRule>> \in e.links

(* No instance is finished before the whole of its node set is begun. *)
InstancesLast(table, calls) ==
  \A k \in DOMAIN calls :
    calls[k].does = "finish" /\ IsInstance(table[calls[k].node]) =>
      \A i \in DOMAIN table : table[i] \in BegunBefore(table, calls, k)

------------------------------------------------------------------------------
(* Properties *)

(* The loader of s has returned. *)
Left(s) == stage \notin IF s = "di" THEN {"di"} ELSE Nodesets

(* The generated order never makes a call fail: every parent, type and      *)
(* target of a reference is there when it is needed, no id is used twice,   *)
(* and each node set loads whatever became of the other.                    *)
LoadsUnlessRefused ==
  \A s \in Nodesets : Left(s) /\ methodCalls /\ s \notin refused => s \in available

(* A build without method calls skips the methods but not their arguments,  *)
(* so that neither loader gets past the first of those.                     *)
MethodlessNeverLoads == ~methodCalls => available = {}

(* diAvailable and myAvailable mean the whole of a node set: every node     *)
(* finished, and every reference there.                                     *)
WholeOrUnavailable ==
  \A s \in available : \A i \in DOMAIN Table[s] :
    Compiled(Table[s][i]) =>
      Table[s][i].id \in finished /\ Table[s][i].links \subseteq references

(* What the SDK copies into an object is not there a second time: an object *)
(* is finished after the children the node set gives it.                    *)
NothingTwice ==
  \A c \in copied : \A e \in Children(c.of) : e.name # c.name

(* The names and references that the tables mark as mandatory in a type.    *)
Declared(type) ==
  {[name |-> e.name, ref |-> e.ref] :
     e \in {c \in UNION {Below[t] : t \in Hierarchy(references, type) \cap DOMAIN Below} :
              <<c.id, HasModellingRule, MandatoryRule>> \in c.links}}

(* A finished object or variable has what its type calls mandatory, though  *)
(* many are finished before their type is, and also in a node set whose     *)
(* loader gave up; and if the loader of the type returned GOOD, that is all *)
(* that the generated functions mark as mandatory in it and what it         *)
(* inherits from.                                                           *)
InstancesComplete ==
  stage = "run" =>
    \A e \in {i \in Entries : IsInstance(i) /\ i.id \in finished} :
      \A m \in MandatoryOf(e.type) \cup
               (IF e.type[1] \in available \cup {RaspberryPi.id[1]} THEN Declared(e.type) ELSE {}) :
        \/ [of |-> e.id, name |-> m.name, ref |-> m.ref] \in copied
        \/ \E c \in Children(e.id) : c.name = m.name

(* The server's own nodes are built from completely loaded node sets only.  *)
InstancesOfLoadedTypes ==
  /\ {RaspberryPi.id, ThisDevice.id} \cap nodes # {} => "di" \in available
  /\ Pump1.id \in nodes => "my" \in available

(* setManufacturer finds and writes the Manufacturer that DeviceType makes  *)
(* mandatory, a subtype and a copy away, unless the SDK refuses a call.     *)
DeviceNamesItsMaker ==
  stage = "run" /\ "di" \in available =>
    manufacturer \/ refused \cap {"deviceType", "device", "manufacturer"} # {}

(* Whatever is refused, start() gets to UA_Server_run. *)
ReachesRun == <>(stage = "run")
=============================================================================
