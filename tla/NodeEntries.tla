---------------------------- MODULE NodeEntries ----------------------------
(***************************************************************************)
(* What a generated pair of functions function_<set>_<n>_begin and _finish *)
(* hands to the SDK, as a record: the arguments of UA_Server_addNode_begin *)
(* and, in links, of every UA_Server_addReference after it.  Attributes    *)
(* (values, access levels, descriptions) are left out.                     *)
(*                                                                         *)
(* An id or a browse name is a pair of a namespace and a number or a word. *)
(* ns[0] is "ua", ns[1] the namespace the node set registers for itself:   *)
(* UA_Server_addNamespace returns one index per URI, always the same one,  *)
(* so the URI stands for the index here.                                   *)
(***************************************************************************)
EXTENDS Integers, Sequences

CONSTANT Namespace  \* the namespace of the nodes that are described

Ua(x)  == <<"ua", x>>
Own(x) == <<Namespace, x>>

NoNode == Ua(0)  \* UA_NODEID_NULL and UA_NODEID_NUMERIC(ns[0], 0)

(* Reference types and modelling rules of the standard name space. *)
HasModellingRule == Ua(37)
HasEncoding      == Ua(38)
HasDescription   == Ua(39)
HasSubtype       == Ua(45)
HasProperty      == Ua(46)
HasComponent     == Ua(47)
Organizes        == Ua(35)
FromState        == Ua(51)
ToState          == Ua(52)
HasEffect        == Ua(54)
HasInterface     == Ua(17603)
MandatoryRule    == Ua(78)

(* Object, variable, data and reference types of the standard name space. *)
UInt32                     == Ua(7)
Structure                  == Ua(22)
Enumeration                == Ua(29)
HierarchicalReferences     == Ua(33)
Aggregates                 == Ua(44)
BaseObjectType             == Ua(58)
FolderType                 == Ua(61)
BaseDataVariableType       == Ua(63)
PropertyType               == Ua(68)
DataTypeDescriptionType    == Ua(69)
DataTypeDictionaryType     == Ua(72)
DataTypeEncodingType       == Ua(76)
StateType                  == Ua(2307)
InitialStateType           == Ua(2309)
TransitionType             == Ua(2310)
TransitionEventType        == Ua(2311)
FiniteStateVariableType    == Ua(2760)
FiniteStateMachineType     == Ua(2771)
NamespaceMetadataType      == Ua(11616)
FileDirectoryType          == Ua(13353)
TemporaryFileTransferType  == Ua(15744)
BaseInterfaceType          == Ua(17602)
InstrumentDiagnosticAlarmType == Ua(18347)

(* Where the standard name space lets others hang their nodes. *)
ObjectsFolder           == Ua(85)
XmlSchema_TypeSystem    == Ua(92)
OPCBinary_TypeSystem    == Ua(93)
ServerCapabilities      == Ua(2268)
Server_Namespaces       == Ua(11715)

(* The modelling rule that a node refers to, if any. *)
NoRule               == {}
Mandatory            == {MandatoryRule}
Optional             == {Ua(80)}
OptionalPlaceholder  == {Ua(11508)}
MandatoryPlaceholder == {Ua(11510)}

(* The links of a node: <<source, type, target>>, an inverse reference      *)
(* turned round.                                                            *)
Ruled(id, rule) == {<<Own(id), HasModellingRule, r>> : r \in rule}

Node(id, class, name, parent, ref, type, links) ==
  [id |-> Own(id), class |-> class, name |-> name, parent |-> parent, ref |-> ref,
   type |-> type, abstract |-> FALSE, links |-> links]

(* Most kinds of nodes come with others that the generator puts right      *)
(* behind them, so that each kind is a sequence of nodes.                   *)

ObjectType(id, super, name, interfaces) ==
  <<Node(id, "ObjectType", Own(name), super, HasSubtype, NoNode,
         {<<Own(id), HasInterface, Own(i)>> : i \in interfaces})>>

AbstractType(id, super, name, interfaces) ==
  <<[ObjectType(id, super, name, interfaces)[1] EXCEPT !.abstract = TRUE]>>

VariableType(id, super, name) ==
  <<Node(id, "VariableType", Own(name), super, HasSubtype, NoNode, {})>>

ReferenceType(id, super, name) ==
  <<Node(id, "ReferenceType", Own(name), super, HasSubtype, NoNode, {})>>

DataType(id, super, name) ==
  <<Node(id, "DataType", Own(name), super, HasSubtype, NoNode, {})>>

(* An encoding has no parent: its data type points at it. *)
Encoding(id, dataType, name) ==
  <<Node(id, "Object", Ua(name), NoNode, NoNode, DataTypeEncodingType,
         {<<Own(dataType), HasEncoding, Own(id)>>})>>

Dictionary(id, typeSystem, name) ==
  <<Node(id, "Variable", Own(name), typeSystem, HasComponent, DataTypeDictionaryType, {})>>

Description(id, dictionary, name, encoding) ==
  <<Node(id, "Variable", Own(name), Own(dictionary), HasComponent, DataTypeDescriptionType,
         {<<Own(encoding), HasDescription, Own(id)>>})>>

(* A property of the node set's own, and one that the standard names. *)
Property(id, of, name, rule) ==
  <<Node(id, "Variable", Own(name), Own(of), HasProperty, PropertyType, Ruled(id, rule))>>

UaProperty(id, of, name, rule) ==
  <<Node(id, "Variable", Ua(name), Own(of), HasProperty, PropertyType, Ruled(id, rule))>>

Variable(id, of, name, rule) ==
  <<Node(id, "Variable", Own(name), Own(of), HasComponent, BaseDataVariableType, Ruled(id, rule))>>

TypedVariable(id, of, name, type, rule) ==
  <<Node(id, "Variable", Own(name), Own(of), HasComponent, type, Ruled(id, rule))>>

(* A property of a node of the standard name space. *)
CapabilityProperty(id, of, name) ==
  <<Node(id, "Variable", Own(name), of, HasProperty, PropertyType, {})>>

Object(id, of, name, type, rule) ==
  <<Node(id, "Object", Own(name), Own(of), HasComponent, type, Ruled(id, rule))>>

UaObject(id, of, name, type, rule) ==
  <<Node(id, "Object", Ua(name), Own(of), HasComponent, type, Ruled(id, rule))>>

(* An object anywhere, below whatever reference. *)
Placed(id, parent, ref, name, type, rule) ==
  <<Node(id, "Object", Own(name), parent, ref, type, Ruled(id, rule))>>

Method(id, of, name, rule) ==
  <<Node(id, "Method", Own(name), Own(of), HasComponent, NoNode, Ruled(id, rule))>>

UaMethod(id, of, name, rule) ==
  <<Node(id, "Method", Ua(name), Own(of), HasComponent, NoNode, Ruled(id, rule))>>

Output(id, method) == UaProperty(id, method, "OutputArguments", Mandatory)
Input(id, method)  == UaProperty(id, method, "InputArguments", Mandatory)

(* The parts of a state machine: a state is the ToState of the transitions *)
(* that enter it and the FromState of those that leave it.                  *)
Transition(id, machine, name, number) ==
  <<Node(id, "Object", Own(name), Own(machine), HasComponent, TransitionType,
         {<<Own(id), HasEffect, TransitionEventType>>})>>
  \o UaProperty(number, id, "TransitionNumber", Mandatory)

State(id, machine, name, type, entering, leaving, number) ==
  <<Node(id, "Object", Own(name), Own(machine), HasComponent, type,
         {<<Own(t), ToState, Own(id)>> : t \in entering}
           \cup {<<Own(t), FromState, Own(id)>> : t \in leaving})>>
  \o UaProperty(number, id, "StateNumber", Mandatory)

CurrentState(id, machine, stateId) ==
  <<Node(id, "Variable", Ua("CurrentState"), Own(machine), HasComponent,
         FiniteStateVariableType, Ruled(id, Mandatory))>>
  \o UaProperty(stateId, id, "Id", Mandatory)

(* The calls of a loader: function i of the node set, which is entry i + 1 *)
(* of its table; the generator begins nodes upwards and finishes them      *)
(* downwards.                                                              *)
Begins(first, last) ==
  [k \in 1..(last - first + 1) |-> [does |-> "begin", node |-> first + k]]

Finishes(last, first) ==
  [k \in 1..(last - first + 1) |-> [does |-> "finish", node |-> last - k + 2]]
=============================================================================
