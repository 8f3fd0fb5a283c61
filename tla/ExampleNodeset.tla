--------------------------- MODULE ExampleNodeset ---------------------------
(***************************************************************************)
(* The example node set of the repository (a pump), as the generated       *)
(* nodesets/example_nodeset.c hands it to the SDK: entry i + 1 of          *)
(* ExampleTable is what function_example_nodeset_<i>_begin and _finish add.*)
(***************************************************************************)
EXTENDS Integers, Sequences

LOCAL INSTANCE NodeEntries WITH Namespace <- "my"

ProvidesInputTo ==
     ReferenceType(4001, HierarchicalReferences, "providesInputTo")

FieldDevice ==
     AbstractType(1001, BaseObjectType, "FieldDevice", {})
  \o Variable(6002, 1001, "ModelName", Mandatory)
  \o Variable(6001, 1001, "ManufacturerName", Mandatory)

Pump ==
     ObjectType(1002, Own(1001), "Pump", {})
  \o Method(7002, 1002, "stopPump", Mandatory)
  \o Output(6006, 7002)

StartPump ==
     Method(7001, 1002, "startPump", Mandatory)
  \o Output(6005, 7001)

PumpState ==
     Variable(6004, 1002, "MotorRPM", Mandatory)
  \o Variable(6003, 1002, "isOn", Mandatory)

ExampleTable ==
     ProvidesInputTo \o FieldDevice \o Pump \o StartPump \o PumpState

(* The calls of example_nodeset(), in their order. *)
ExampleCalls == Begins(0, 0) \o Finishes(0, 0) \o Begins(1, 10) \o Finishes(10, 1)

=============================================================================
