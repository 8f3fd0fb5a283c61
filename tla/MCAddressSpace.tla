--------------------------- MODULE MCAddressSpace ---------------------------
(***************************************************************************)
(* The address space for TLC: the two node sets of the repository.         *)
(***************************************************************************)
EXTENDS AddressSpace, DiNodeset, ExampleNodeset

NodesetTables ==
  LET tables == [di |-> DiTable, my |-> ExampleTable]
  IN  [s \in Nodesets |-> tables[s]]

NodesetCalls ==
  LET calls == [di |-> DiCalls, my |-> ExampleCalls]
  IN  [s \in Nodesets |-> calls[s]]

(* The hypotheses of the theorems hold of these two. *)
ASSUME NodesetsAreGenerated ==
  /\ UniqueIds(Entries) /\ PlainFolder(Entries)
  /\ \A s \in Nodesets :
       /\ WellOrdered(Table[s], Calls[s])
       /\ Complete(Table[s], Calls[s])
       /\ HasArguments(Table[s])
       /\ InstancesLast(Table[s], Calls[s])
       /\ OwnDeclarations(Table[s])
  /\ MakersAreNamed(Table["di"])
=============================================================================
