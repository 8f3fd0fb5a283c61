------------------------- MODULE AddressSpaceProofs -------------------------
(***************************************************************************)
(* The address space for every node set, every order of the calls and any  *)
(* number of refusals.                                                     *)
(***************************************************************************)
EXTENDS AddressSpace, TLAPS

(* A loader is at a call about an entry of its table. *)
LEMMA CurrentIsAnEntry ==
  ASSUME TypeOK, stage \in Nodesets
  PROVE  /\ Calls[stage][next].node \in DOMAIN Table[stage]
         /\ Calls[stage][next].does \in {"begin", "finish"}
         /\ Current \in Entries
         /\ Current.id \in Ids
         /\ Current.links \subseteq Links
<1> DEFINE Call == [does : {"begin", "finish"}, node : DOMAIN Table[stage]]
<1>1. Calls[stage][next] \in Call
  <2>1. Calls[stage] \in Seq(Call)
    BY ConstantsAssumption
  <2>2. next \in 1..Len(Calls[stage])
    BY <2>1 DEF TypeOK
  <2> HIDE DEF Call
  <2> QED BY <2>1, <2>2
<1>2. Current \in Entries
  BY <1>1 DEF Current, Entries
<1> QED
  BY <1>1, <1>2 DEF Ids, Links

LEMMA FirstCall ==
  ASSUME NEW s \in Nodesets
  PROVE  1 \in DOMAIN Calls[s]
<1> DEFINE Call == [does : {"begin", "finish"}, node : DOMAIN Table[s]]
<1>1. Calls[s] \in Seq(Call) /\ Calls[s] # <<>>
  BY ConstantsAssumption
<1> HIDE DEF Call
<1> QED BY <1>1

(* retVal takes a loader to its next call, or start() past the loader. *)
LEMMA ProceedKeepsTypes ==
  ASSUME TypeOK, stage \in Nodesets, NEW good \in BOOLEAN, Proceed(good)
  PROVE  /\ stage' \in Stages
         /\ stage' \in Nodesets => next' \in DOMAIN Calls[stage']
         /\ available' \subseteq Nodesets
<1>1. CASE good /\ next < Len(Calls[stage])
  <2>1. next' = next + 1 /\ stage' = stage /\ available' = available
    BY <1>1 DEF Proceed
  <2> DEFINE Call == [does : {"begin", "finish"}, node : DOMAIN Table[stage]]
  <2>2. Calls[stage] \in Seq(Call)
    BY ConstantsAssumption
  <2> HIDE DEF Call
  <2>3. next \in 1..Len(Calls[stage])
    BY <2>2 DEF TypeOK
  <2>4. next + 1 \in DOMAIN Calls[stage]
    BY <1>1, <2>2, <2>3
  <2> QED BY <2>1, <2>4 DEF TypeOK
<1>2. CASE ~(good /\ next < Len(Calls[stage]))
  <2>1. stage' = After(stage) /\ next' = 1 /\ available' \subseteq available \cup {stage}
    BY <1>2 DEF Proceed, Return
  <2>2. stage' \in Stages
    BY <2>1 DEF After, Stages, Nodesets, Instancing
  <2>3. \A s \in Nodesets : 1 \in DOMAIN Calls[s]
    BY FirstCall
  <2> QED BY <2>1, <2>2, <2>3 DEF TypeOK
<1> QED BY <1>1, <1>2

(* Finishing an object puts nothing into any other. *)
LEMMA CopiesAreIntoTheObject ==
  ASSUME NEW e, NEW c \in CopiesInto(e)
  PROVE  c.of = e.id
BY DEF CopiesInto

LEMMA InitTypes == Init => TypeOK
<1> SUFFICES ASSUME Init PROVE TypeOK
  OBVIOUS
<1>1. 1 \in DOMAIN Calls["di"]
  BY FirstCall DEF Nodesets
<1> QED
  BY <1>1 DEF Init, TypeOK, Stages, Nodesets

LEMMA RefusedStages ==
  ASSUME TypeOK, NEW granted \in BOOLEAN, Grant(granted)
  PROVE  refused' \subseteq Stages
BY DEF Grant, TypeOK

(* An instance changes what TypeOK says of in one way, for all of them. *)
LEMMA AddKeepsTypes ==
  ASSUME TypeOK, NEW e \in Entries, NEW s1 \in Stages \ Nodesets, NEW s2 \in Stages \ Nodesets,
         Add(e, s1, s2)
  PROVE  TypeOK'
<1>1. PICK granted \in BOOLEAN :
        /\ Grant(granted)
        /\ nodes' = nodes \/ nodes' = nodes \cup {e.id}
        /\ \/ nodes' = nodes /\ finished' = finished /\ copied' = copied
           \/ /\ nodes' = nodes \cup {e.id} /\ finished' = finished \cup {e.id}
              /\ copied' = copied \cup CopiesInto(e)
        /\ stage' \in {s1, s2}
  BY DEF Add
<1>2. e.id \in Ids
  BY DEF Ids
<1>3. {c.of : c \in copied'} \subseteq finished'
  BY <1>1, CopiesAreIntoTheObject DEF TypeOK
<1>4. refused' \subseteq Stages
  BY <1>1, RefusedStages
<1> QED
  BY <1>1, <1>2, <1>3, <1>4 DEF Add, TypeOK, loaderVars

LEMMA OwnNodesAreEntries == {TheAnswer, RaspberryPi, ThisDevice, Pump1} \subseteq Entries
BY DEF Entries

LEMMA NextStages ==
  /\ AfterAnswer \in Stages \ Nodesets
  /\ AfterDevice \in Stages \ Nodesets
  /\ {"device", "manufacturer", "run"} \subseteq Stages \ Nodesets
BY DEF AfterAnswer, AfterDevice, Stages, Nodesets, Instancing

LEMMA StepTypes == TypeOK /\ [Next]_vars => TypeOK'
<1> SUFFICES ASSUME TypeOK, [Next]_vars PROVE TypeOK'
  OBVIOUS
<1>1. CASE Skip
  <2>1. stage \in Nodesets /\ Proceed(TRUE)
    BY <1>1 DEF Skip
  <2> QED
    BY <1>1, <2>1, ProceedKeepsTypes DEF Skip, TypeOK, spaceVars
<1>2. CASE Begin
  <2>1. stage \in Nodesets
    BY <1>2 DEF Begin, At
  <2>2. PICK added \in BOOLEAN, lost \in SUBSET Current.links, good \in BOOLEAN, new \in SUBSET Current.links :
          /\ Grant(added /\ lost = {})
          /\ nodes' \in {nodes, nodes \cup {Current.id}}
          /\ references' = references \cup new
          /\ Proceed(good)
    <3>1. PICK added \in BOOLEAN, lost \in SUBSET Current.links :
            LET e   == Current
                now == IF added /\ Accepts(e) THEN nodes \cup {e.id} ELSE nodes
                nw  == {l \in e.links \ lost : \A i \in 1..3 : l[i][1] = "ua" \/ l[i] \in now}
            IN  /\ Cardinality(lost) <= IF added THEN 1 ELSE 0
                /\ Grant(added /\ lost = {})
                /\ nodes' = now
                /\ references' = references \cup nw
                /\ Proceed(Begun(e, now, nw))
      BY <1>2 DEF Begin
    <3> DEFINE e   == Current
               now == IF added /\ Accepts(e) THEN nodes \cup {e.id} ELSE nodes
               nw  == {l \in e.links \ lost : \A i \in 1..3 : l[i][1] = "ua" \/ l[i] \in now}
    <3>2. nw \in SUBSET Current.links
      OBVIOUS
    <3>3. Begun(e, now, nw) \in BOOLEAN
      BY DEF Begun
    <3> QED BY <3>1, <3>2, <3>3
  <2>3. /\ nodes' \subseteq Ids /\ finished' \subseteq nodes'
        /\ references' \subseteq Links
    BY <1>2, <2>1, <2>2, CurrentIsAnEntry DEF TypeOK, Begin
  <2>4. refused' \subseteq Stages
    BY <2>2, RefusedStages
  <2> QED
    BY <1>2, <2>1, <2>2, <2>3, <2>4, ProceedKeepsTypes DEF Begin, TypeOK
<1>3. CASE Finish
  <2>1. stage \in Nodesets
    BY <1>3 DEF Finish, At
  <2>2. PICK granted \in BOOLEAN, done \in BOOLEAN :
          /\ Grant(granted)
          /\ done => Current.id \in nodes
          /\ finished' = IF done THEN finished \cup {Current.id} ELSE finished
          /\ copied' = IF done THEN copied \cup CopiesInto(Current) ELSE copied
          /\ Proceed(done)
    BY <1>3 DEF Finish
  <2>3. {c.of : c \in copied'} \subseteq finished'
    BY <2>2, CopiesAreIntoTheObject DEF TypeOK
  <2>4. refused' \subseteq Stages
    BY <2>2, RefusedStages
  <2> QED
    BY <1>3, <2>1, <2>2, <2>3, <2>4, ProceedKeepsTypes DEF Finish, TypeOK
<1>4. CASE AddDefaultInstance \/ AddDeviceType \/ AddDevice \/ AddMyNsInstance
  BY <1>4, AddKeepsTypes, OwnNodesAreEntries, NextStages
     DEF AddDefaultInstance, AddDeviceType, AddDevice, AddMyNsInstance
<1>5. CASE SetManufacturer
  <2>1. refused' \subseteq Stages /\ manufacturer' \in BOOLEAN
    BY <1>5, RefusedStages DEF SetManufacturer, HasManufacturer
  <2> QED
    BY <1>5, <2>1, NextStages DEF SetManufacturer, TypeOK, loaderVars, spaceVars
<1>6. CASE UNCHANGED vars
  BY <1>6 DEF TypeOK, vars, loaderVars, spaceVars
<1> QED BY <1>1, <1>2, <1>3, <1>4, <1>5, <1>6 DEF Next

(* The address space holds nodes of the tables only, what is finished was  *)
(* added, what was copied is in a finished object, and a loader never gets *)
(* past its last call: OpcUaServer::start(), di(), example_nodeset().      *)
THEOREM TypeCorrect == Spec => []TypeOK
BY InitTypes, StepTypes, PTL DEF Spec

------------------------------------------------------------------------------
(* The server's own instances. *)

(* Ids of the server itself are in no node set, and differ. *)
LEMMA OwnIds ==
  /\ \A s \in Nodesets : \A i \in DOMAIN Table[s] :
       Table[s][i].id \notin {TheAnswer.id, RaspberryPi.id, ThisDevice.id, Pump1.id}
  /\ TheAnswer.id \notin {RaspberryPi.id, ThisDevice.id, Pump1.id}
  /\ Pump1.id \notin {RaspberryPi.id, ThisDevice.id}
<1>1. /\ TheAnswer.id = <<"app", 1>> /\ RaspberryPi.id = <<"app", 2>>
      /\ ThisDevice.id = <<"app", 3>> /\ Pump1.id = <<"app", 4>>
  BY DEF TheAnswer, RaspberryPi, ThisDevice, Pump1, Node, Own
<1>2. \A s \in Nodesets : \A i \in DOMAIN Table[s] : Table[s][i].id[1] \in {"di", "my"}
  BY NamespacesAssumption DEF Nodesets
<1> QED BY <1>1, <1>2

(* An instance is added only while its node set is known to be whole. *)
InstanceInv ==
  /\ stage \in {"deviceType", "device", "manufacturer"} => "di" \in available
  /\ stage = "pump" => "my" \in available
  /\ InstancesOfLoadedTypes

LEMMA LoaderKeepsInstances ==
  ASSUME TypeOK, InstanceInv, stage \in Nodesets, NEW good \in BOOLEAN, Proceed(good),
         nodes' \subseteq nodes \cup {Current.id}
  PROVE  InstanceInv'
<1>1. Current.id \notin {RaspberryPi.id, ThisDevice.id, Pump1.id}
  BY CurrentIsAnEntry, OwnIds DEF Current
<1>2. available \subseteq available'
  BY DEF Proceed, Return
<1>3. stage' \in Nodesets \cup {"answer"}
  BY DEF Proceed, Return, After, Nodesets
<1> QED
  BY <1>1, <1>2, <1>3 DEF InstanceInv, InstancesOfLoadedTypes, Nodesets

LEMMA InstanceStep == TypeOK /\ InstanceInv /\ [Next]_vars => InstanceInv'
<1> SUFFICES ASSUME TypeOK, InstanceInv, [Next]_vars PROVE InstanceInv'
  OBVIOUS
<1>1. CASE Skip
  BY <1>1, LoaderKeepsInstances DEF Skip, spaceVars
<1>2. CASE Begin
  <2>1. stage \in Nodesets /\ nodes' \subseteq nodes \cup {Current.id}
    BY <1>2 DEF Begin, At
  <2>2. \E good \in BOOLEAN : Proceed(good)
    BY <1>2 DEF Begin, Begun
  <2> QED BY <2>1, <2>2, LoaderKeepsInstances
<1>3. CASE Finish
  <2>1. stage \in Nodesets /\ nodes' = nodes
    BY <1>3 DEF Finish, At
  <2>2. \E good \in BOOLEAN : Proceed(good)
    BY <1>3 DEF Finish
  <2> QED BY <2>1, <2>2, LoaderKeepsInstances
<1>4. CASE AddDefaultInstance
  BY <1>4, OwnIds
     DEF AddDefaultInstance, Add, loaderVars, InstanceInv, InstancesOfLoadedTypes, AfterAnswer
<1>5. CASE AddDeviceType
  BY <1>5, OwnIds
     DEF AddDeviceType, Add, loaderVars, InstanceInv, InstancesOfLoadedTypes, AfterDevice
<1>6. CASE AddDevice
  BY <1>6, OwnIds
     DEF AddDevice, Add, loaderVars, InstanceInv, InstancesOfLoadedTypes, AfterDevice
<1>7. CASE SetManufacturer
  BY <1>7 DEF SetManufacturer, loaderVars, spaceVars, InstanceInv, InstancesOfLoadedTypes, AfterDevice
<1>8. CASE AddMyNsInstance
  BY <1>8, OwnIds DEF AddMyNsInstance, Add, loaderVars, InstanceInv, InstancesOfLoadedTypes
<1>9. CASE UNCHANGED vars
  BY <1>9 DEF vars, loaderVars, spaceVars, InstanceInv, InstancesOfLoadedTypes
<1> QED BY <1>1, <1>2, <1>3, <1>4, <1>5, <1>6, <1>7, <1>8, <1>9 DEF Next

(* RaspberryPi, ThisDevice and Pump1 are made only of node sets that have  *)
(* loaded to the end: diAvailable and myAvailable in OpcUaServer::start(). *)
THEOREM InstancesHaveTheirTypes == Spec => []InstancesOfLoadedTypes
<1>1. Init => InstanceInv
  BY DEF Init, InstanceInv, InstancesOfLoadedTypes
<1>2. InstanceInv => InstancesOfLoadedTypes
  BY DEF InstanceInv
<1> QED BY <1>1, <1>2, InstanceStep, TypeCorrect, PTL DEF Spec

------------------------------------------------------------------------------
(* GOOD means the whole node set. *)

(* What the k-th call of a loader was for is there. *)
Done(s, k) ==
  LET e == Table[s][Calls[s][k].node]
  IN  Compiled(e) =>
        /\ Calls[s][k].does = "begin"  => e.id \in nodes /\ e.links \subseteq references
        /\ Calls[s][k].does = "finish" => e.id \in finished

ProgressInv ==
  /\ stage \in Nodesets => \A k \in 1..(next - 1) : Done(stage, k)
  /\ \A s \in available : \A k \in DOMAIN Calls[s] : Done(s, k)

(* Nothing is taken out of the address space. *)
Grows ==
  /\ nodes \subseteq nodes' /\ references \subseteq references' /\ finished \subseteq finished'
  /\ methodCalls' = methodCalls

LEMMA DoneStaysDone ==
  ASSUME Grows, NEW s, NEW k, Done(s, k)
  PROVE  Done(s, k)'
BY DEF Grows, Done, Compiled

LEMMA StepGrows == [Next]_vars => Grows
<1> SUFFICES ASSUME [Next]_vars PROVE Grows
  OBVIOUS
<1>1. CASE Skip \/ SetManufacturer
  BY <1>1 DEF Skip, SetManufacturer, spaceVars, Grows
<1>2. CASE Begin
  BY <1>2 DEF Begin, Grows
<1>3. CASE Finish
  BY <1>3 DEF Finish, Grows
<1>4. CASE AddDefaultInstance \/ AddDeviceType \/ AddDevice \/ AddMyNsInstance
  BY <1>4 DEF AddDefaultInstance, AddDeviceType, AddDevice, AddMyNsInstance, Add, Grows
<1>5. CASE UNCHANGED vars
  BY <1>5 DEF vars, spaceVars, Grows
<1> QED BY <1>1, <1>2, <1>3, <1>4, <1>5 DEF Next

(* A loader goes on, or returns GOOD, only after a call that has succeeded. *)
LEMMA ProceedMakesProgress ==
  ASSUME TypeOK, ProgressInv, Grows, NEW s \in Nodesets, NEW n, stage = s, next = n,
         NEW good \in BOOLEAN, Proceed(good), good => Done(s, n)'
  PROVE  ProgressInv'
<1> DEFINE Call == [does : {"begin", "finish"}, node : DOMAIN Table[s]]
<1>1. Calls[s] \in Seq(Call)
  BY ConstantsAssumption
<1> HIDE DEF Call
<1>2. /\ DOMAIN Calls[s] = 1..Len(Calls[s])
      /\ Len(Calls[s]) \in Nat /\ n \in 1..Len(Calls[s])
  BY <1>1 DEF TypeOK
<1>3. \A t \in available : \A k \in DOMAIN Calls[t] : Done(t, k)'
  BY DoneStaysDone DEF ProgressInv
<1>4. \A k \in 1..(n - 1) : Done(s, k)'
  BY DoneStaysDone DEF ProgressInv
<1>5. good => \A k \in 1..n : Done(s, k)'
  BY <1>2, <1>4
<1>6. CASE good /\ next < Len(Calls[stage])
  <2>1. stage' = s /\ next' = n + 1 /\ available' = available
    BY <1>6 DEF Proceed
  <2>2. next' - 1 = n
    BY <1>2, <2>1
  <2> QED BY <1>3, <1>5, <1>6, <2>1, <2>2 DEF ProgressInv
<1>7. CASE ~(good /\ next < Len(Calls[stage]))
  <2>1. /\ next' = 1
        /\ available' = IF good THEN available \cup {s} ELSE available
    BY <1>7 DEF Proceed, Return
  <2>2. good => n = Len(Calls[s])
    BY <1>2, <1>7
  <2>3. \A t \in available' : \A k \in DOMAIN Calls[t] : Done(t, k)'
    BY <1>2, <1>3, <1>5, <2>1, <2>2
  <2>4. 1..(next' - 1) = {}
    BY <2>1
  <2> QED BY <2>3, <2>4 DEF ProgressInv
<1> QED BY <1>6, <1>7

LEMMA ProgressStep == TypeOK /\ ProgressInv /\ [Next]_vars => ProgressInv'
<1> SUFFICES ASSUME TypeOK, ProgressInv, [Next]_vars PROVE ProgressInv'
  OBVIOUS
<1> USE StepGrows
<1>. PICK s, n : s = stage /\ n = next
  OBVIOUS
<1>1. CASE Skip
  <2>1. stage \in Nodesets /\ Proceed(TRUE)
    BY <1>1 DEF Skip
  <2>2. Done(s, n)'
    BY <1>1 DEF Skip, Done, Compiled, Current
  <2> QED BY <2>1, <2>2, ProceedMakesProgress
<1>2. CASE Begin
  <2>1. /\ stage \in Nodesets /\ Calls[stage][next].does = "begin"
    BY <1>2 DEF Begin, At
  <2>2. PICK now \in SUBSET Ids, new \in SUBSET Current.links, good \in BOOLEAN :
          /\ nodes' = now /\ references' = references \cup new
          /\ now \subseteq nodes \cup {Current.id}
          /\ nodes \subseteq now
          /\ good => now # nodes /\ new = Current.links
          /\ Proceed(good)
    <3> DEFINE now(added) == IF added /\ Accepts(Current) THEN nodes \cup {Current.id} ELSE nodes
               new(added, lost) == {l \in Current.links \ lost :
                 \A i \in 1..3 : l[i][1] = "ua" \/ l[i] \in now(added)}
    <3>1. PICK added \in BOOLEAN, lost \in SUBSET Current.links :
            /\ nodes' = now(added)
            /\ references' = references \cup new(added, lost)
            /\ Proceed(Begun(Current, now(added), new(added, lost)))
      BY <1>2 DEF Begin
    <3>2. Begun(Current, now(added), new(added, lost)) =
            (now(added) # nodes /\ new(added, lost) = Current.links)
      BY DEF Begun
    <3>3. now(added) \in SUBSET Ids
      BY <2>1, CurrentIsAnEntry DEF TypeOK
    <3> QED BY <3>1, <3>2, <3>3
  <2>3. good => Done(s, n)'
    BY <2>1, <2>2 DEF Done, Current
  <2> QED BY <2>1, <2>2, <2>3, ProceedMakesProgress
<1>3. CASE Finish
  <2>1. stage \in Nodesets /\ Calls[stage][next].does = "finish"
    BY <1>3 DEF Finish, At
  <2>2. PICK done \in BOOLEAN :
          /\ finished' = IF done THEN finished \cup {Current.id} ELSE finished
          /\ Proceed(done)
    BY <1>3 DEF Finish
  <2>3. done => Done(s, n)'
    BY <2>1, <2>2 DEF Done, Current
  <2> QED BY <2>1, <2>2, <2>3, ProceedMakesProgress
<1>4. CASE \/ AddDefaultInstance \/ AddDeviceType \/ AddDevice \/ AddMyNsInstance \/ SetManufacturer
  <2>1. stage' \notin Nodesets /\ available' = available
    BY <1>4, NextStages
       DEF AddDefaultInstance, AddDeviceType, AddDevice, AddMyNsInstance, SetManufacturer, Add, loaderVars
  <2> QED BY <2>1, DoneStaysDone DEF ProgressInv
<1>5. CASE UNCHANGED vars
  BY <1>5, DoneStaysDone DEF ProgressInv, vars, loaderVars
<1> QED BY <1>1, <1>2, <1>3, <1>4, <1>5 DEF Next

(* A loader that returns GOOD has finished every node and added every      *)
(* reference of its table, given that its calls name every entry: nothing  *)
(* that went wrong on the way is forgotten (di(), example_nodeset()).      *)
THEOREM GoodMeansWhole ==
  ASSUME \A s \in Nodesets : Complete(Table[s], Calls[s])
  PROVE  Spec => []WholeOrUnavailable
<1>1. Init => ProgressInv
  BY DEF Init, ProgressInv
<1>2. TypeOK /\ ProgressInv => WholeOrUnavailable
  <2> SUFFICES ASSUME TypeOK, ProgressInv, NEW s \in available, NEW i \in DOMAIN Table[s],
                      Compiled(Table[s][i])
               PROVE  Table[s][i].id \in finished /\ Table[s][i].links \subseteq references
    BY DEF WholeOrUnavailable
  <2>1. s \in Nodesets
    BY DEF TypeOK
  <2>2. PICK b \in DOMAIN Calls[s] : Calls[s][b] = [does |-> "begin", node |-> i]
    BY <2>1 DEF Complete
  <2>3. PICK f \in DOMAIN Calls[s] : Calls[s][f] = [does |-> "finish", node |-> i]
    BY <2>1 DEF Complete
  <2>4. Done(s, b) /\ Done(s, f)
    BY DEF ProgressInv
  <2> QED BY <2>2, <2>3, <2>4 DEF Done
<1> QED BY <1>1, <1>2, ProgressStep, TypeCorrect, PTL DEF Spec

------------------------------------------------------------------------------
(* The order makes every call succeed that the SDK does not refuse.        *)

IdsBefore(s, n) == {b.id : b \in BegunBefore(Table[s], Calls[s], n)}

(* While a loader runs, only it has added nodes to its namespace, by the   *)
(* calls it has made.                                                       *)
FreshInv ==
  stage \in Nodesets =>
    \A id \in nodes : /\ id[1] = stage => id \in IdsBefore(stage, next)
                      /\ stage = "di" => id[1] # "my"

LEMMA CallsAreASequence ==
  ASSUME NEW s \in Nodesets
  PROVE  Len(Calls[s]) \in Nat /\ DOMAIN Calls[s] = 1..Len(Calls[s])
<1> DEFINE Call == [does : {"begin", "finish"}, node : DOMAIN Table[s]]
<1>1. Calls[s] \in Seq(Call)
  BY ConstantsAssumption
<1> HIDE DEF Call
<1> QED BY <1>1

LEMMA OneMoreBegun ==
  ASSUME NEW s \in Nodesets, NEW n \in DOMAIN Calls[s]
  PROVE  /\ IdsBefore(s, n) \subseteq IdsBefore(s, n + 1)
         /\ Calls[s][n].does = "begin" =>
              Table[s][Calls[s][n].node].id \in IdsBefore(s, n + 1)
<1>1. n \in Nat /\ 1..(n - 1) \subseteq 1..((n + 1) - 1) /\ n \in 1..((n + 1) - 1)
  BY CallsAreASequence
<1> QED BY <1>1 DEF IdsBefore, BegunBefore

LEMMA LoaderKeepsFresh ==
  ASSUME TypeOK, FreshInv, NEW s \in Nodesets, NEW n, stage = s, next = n,
         NEW good \in BOOLEAN, Proceed(good),
         nodes' \subseteq nodes \cup {Current.id},
         nodes' # nodes => Calls[s][n].does = "begin"
  PROVE  FreshInv'
<1>1. n \in DOMAIN Calls[s]
  BY DEF TypeOK
<1>2. Current = Table[s][Calls[s][n].node] /\ Current.id[1] = s
  BY CurrentIsAnEntry, NamespacesAssumption DEF Current
<1>3. CASE good /\ next < Len(Calls[stage])
  <2>1. stage' = s /\ next' = n + 1
    BY <1>3 DEF Proceed
  <2>2. \A id \in nodes' : id[1] = s => id \in IdsBefore(s, n + 1)
    BY <1>1, <1>2, OneMoreBegun DEF FreshInv
  <2>3. s = "di" => \A id \in nodes' : id[1] # "my"
    BY <1>2 DEF FreshInv
  <2> QED BY <2>1, <2>2, <2>3 DEF FreshInv
<1>4. CASE ~(good /\ next < Len(Calls[stage]))
  <2>1. stage' = After(s)
    BY <1>4 DEF Proceed, Return
  <2>2. CASE s = "di"
    BY <1>2, <2>1, <2>2 DEF FreshInv, After, Nodesets
  <2>3. CASE s = "my"
    BY <2>1, <2>3 DEF FreshInv, After, Nodesets
  <2> QED BY <2>2, <2>3 DEF Nodesets
<1> QED BY <1>3, <1>4

LEMMA LoaderLoads ==
  ASSUME TypeOK, LoadsUnlessRefused, NEW s \in Nodesets, stage = s,
         NEW good \in BOOLEAN, Proceed(good), Grows, refused \subseteq refused',
         methodCalls /\ s \notin refused' => good
  PROVE  LoadsUnlessRefused'
<1>1. CASE good /\ next < Len(Calls[stage])
  BY <1>1 DEF Proceed, LoadsUnlessRefused, Left, Grows
<1>2. CASE ~(good /\ next < Len(Calls[stage]))
  <2>1. /\ stage' = After(s)
        /\ available' = IF good THEN available \cup {s} ELSE available
    BY <1>2 DEF Proceed, Return
  <2> SUFFICES ASSUME NEW t \in Nodesets, Left(t)', methodCalls, t \notin refused'
               PROVE  t \in available'
    BY DEF LoadsUnlessRefused, Grows
  <2>2. CASE t = s
    BY <2>1, <2>2
  <2>3. CASE t # s
    <3>1. t = "di" /\ s = "my"
      BY <2>1, <2>3 DEF Left, After, Nodesets
    <3> QED BY <2>1, <3>1 DEF LoadsUnlessRefused, Left, Nodesets
  <2> QED BY <2>2, <2>3
<1> QED BY <1>1, <1>2

(* In a build with method calls, the call a loader is at finds what it     *)
(* names: this is where the order of the calls comes in.                   *)
LEMMA BeginFindsAll ==
  ASSUME TypeOK, ProgressInv, FreshInv, NEW s \in Nodesets, NEW n, stage = s, next = n,
         WellOrdered(Table[s], Calls[s]), methodCalls, Calls[s][n].does = "begin"
  PROVE  /\ Accepts(Current)
         /\ \A l \in Current.links : \A i \in 1..3 :
              l[i][1] = "ua" \/ l[i] \in nodes \cup {Current.id}
<1>1. n \in DOMAIN Calls[s]
  BY DEF TypeOK
<1>2. Current = Table[s][Calls[s][n].node] /\ Current.id[1] = s
  BY CurrentIsAnEntry, NamespacesAssumption DEF Current
<1> DEFINE There(id) == id[1] = "ua" \/ id \in IdsBefore(s, n)
<1>3. /\ Current.id \notin IdsBefore(s, n)
      /\ There(Current.parent) /\ There(Current.ref) /\ There(Current.type)
      /\ \A l \in Current.links : \A i \in 1..3 : There(l[i]) \/ l[i] = Current.id
  BY <1>1, <1>2 DEF WellOrdered, IdsBefore
<1>4. IdsBefore(s, n) \subseteq nodes
  <2> SUFFICES ASSUME NEW j \in 1..(n - 1), Calls[s][j].does = "begin"
               PROVE  Table[s][Calls[s][j].node].id \in nodes
    BY DEF IdsBefore, BegunBefore
  <2>1. Done(s, j)
    BY DEF ProgressInv
  <2> QED BY <2>1 DEF Done, Compiled
<1>5. Current.id \notin nodes
  BY <1>2, <1>3 DEF FreshInv
<1> QED BY <1>3, <1>4, <1>5 DEF Accepts, Known

LEMMA GrantRecords ==
  ASSUME NEW granted \in BOOLEAN, Grant(granted)
  PROVE  /\ refused \subseteq refused'
         /\ ~granted => stage \in refused'
BY DEF Grant

LoadsInv == FreshInv /\ LoadsUnlessRefused

LEMMA LoadsStep ==
  ASSUME \A s \in Nodesets : WellOrdered(Table[s], Calls[s])
  PROVE  TypeOK /\ ProgressInv /\ LoadsInv /\ [Next]_vars => LoadsInv'
<1> SUFFICES ASSUME TypeOK, ProgressInv, LoadsInv, [Next]_vars PROVE LoadsInv'
  OBVIOUS
<1> USE StepGrows DEF LoadsInv
<1>. PICK s, n : s = stage /\ n = next
  OBVIOUS
<1>1. CASE Skip
  <2>1. /\ s \in Nodesets /\ Proceed(TRUE)
        /\ nodes' = nodes /\ refused' = refused
    BY <1>1 DEF Skip, spaceVars
  <2> QED BY <2>1, LoaderKeepsFresh, LoaderLoads
<1>2. CASE Begin
  <2>1. s \in Nodesets /\ Calls[s][n].does = "begin"
    BY <1>2 DEF Begin, At
  <2> DEFINE now(added) == IF added /\ Accepts(Current) THEN nodes \cup {Current.id} ELSE nodes
             new(added, lost) == {l \in Current.links \ lost :
               \A i \in 1..3 : l[i][1] = "ua" \/ l[i] \in now(added)}
  <2>2. PICK added \in BOOLEAN, lost \in SUBSET Current.links :
          /\ Grant(added /\ lost = {})
          /\ nodes' = now(added)
          /\ Proceed(now(added) # nodes /\ new(added, lost) = Current.links)
    BY <1>2 DEF Begin, Begun
  <2> DEFINE good == now(added) # nodes /\ new(added, lost) = Current.links
  <2>3. refused \subseteq refused'
    BY <2>2, GrantRecords
  <2>4. methodCalls /\ s \notin refused' => good
    <3> SUFFICES ASSUME methodCalls, s \notin refused' PROVE good
      OBVIOUS
    <3>1. added /\ lost = {}
      BY <2>2, GrantRecords
    <3>2. /\ Accepts(Current)
          /\ \A l \in Current.links : \A i \in 1..3 :
               l[i][1] = "ua" \/ l[i] \in nodes \cup {Current.id}
      BY <2>1, BeginFindsAll
    <3>3. now(added) = nodes \cup {Current.id} /\ Current.id \notin nodes
      BY <3>1, <3>2 DEF Accepts
    <3> QED BY <3>1, <3>2, <3>3
  <2> QED BY <2>1, <2>2, <2>3, <2>4, LoaderKeepsFresh, LoaderLoads
<1>3. CASE Finish
  <2>1. s \in Nodesets /\ Calls[s][n].does = "finish" /\ nodes' = nodes
    BY <1>3 DEF Finish, At
  <2>2. PICK granted \in BOOLEAN :
          Grant(granted) /\ Proceed(granted /\ Current.id \in nodes)
    BY <1>3 DEF Finish
  <2>3. methodCalls => Current.id \in nodes
    <3> SUFFICES ASSUME methodCalls PROVE Current.id \in nodes
      OBVIOUS
    <3>1. n \in DOMAIN Calls[s]
      BY <2>1 DEF TypeOK
    <3>2. Current.id \in IdsBefore(s, n)
      BY <2>1, <3>1 DEF WellOrdered, IdsBefore, Current
    <3>3. PICK j \in 1..(n - 1) : /\ Calls[s][j].does = "begin"
                                  /\ Table[s][Calls[s][j].node].id = Current.id
      BY <3>2 DEF IdsBefore, BegunBefore
    <3>4. Done(s, j)
      BY <2>1 DEF ProgressInv
    <3> QED BY <3>3, <3>4 DEF Done, Compiled
  <2> DEFINE good == granted /\ Current.id \in nodes
  <2>4. methodCalls /\ s \notin refused' => good
    BY <2>2, <2>3, GrantRecords
  <2>5. refused \subseteq refused'
    BY <2>2, GrantRecords
  <2> QED BY <2>1, <2>2, <2>4, <2>5, LoaderKeepsFresh, LoaderLoads
<1>4. CASE \/ AddDefaultInstance \/ AddDeviceType \/ AddDevice \/ AddMyNsInstance \/ SetManufacturer
  <2>1. /\ stage \notin Nodesets /\ stage' \notin Nodesets /\ available' = available
        /\ refused \subseteq refused'
    BY <1>4, NextStages, GrantRecords
       DEF AddDefaultInstance, AddDeviceType, AddDevice, AddMyNsInstance, SetManufacturer, Add,
           loaderVars, Nodesets
  <2> QED BY <2>1 DEF FreshInv, LoadsUnlessRefused, Left, Grows, Nodesets
<1>5. CASE UNCHANGED vars
  BY <1>5 DEF FreshInv, LoadsUnlessRefused, Left, vars, loaderVars, spaceVars
<1> QED BY <1>1, <1>2, <1>3, <1>4, <1>5 DEF Next

(* If the generator puts what a node names before it, a loader fails only  *)
(* when the SDK refuses a call, however many it refuses elsewhere (di(),   *)
(* example_nodeset(), built with UA_ENABLE_METHODCALLS).                   *)
THEOREM OrderSuffices ==
  ASSUME \A s \in Nodesets : WellOrdered(Table[s], Calls[s])
  PROVE  Spec => []LoadsUnlessRefused
<1>1. Init => ProgressInv /\ LoadsInv
  BY DEF Init, ProgressInv, LoadsInv, FreshInv, LoadsUnlessRefused, Left, Nodesets
<1>2. LoadsInv => LoadsUnlessRefused
  BY DEF LoadsInv
<1> QED BY <1>1, <1>2, ProgressStep, LoadsStep, TypeCorrect, PTL DEF Spec

------------------------------------------------------------------------------
(* Builds without method calls.                                             *)

(* No method is there, and no node whose parent is not. *)
ParentsInv ==
  /\ ~methodCalls => \A e \in Entries : e.class = "Method" => e.id \notin nodes
  /\ \A e \in Entries : e.id \in nodes => Known(e.parent)

LEMMA NewNodeKeepsParents ==
  ASSUME UniqueIds(Entries), ParentsInv, methodCalls' = methodCalls, NEW e \in Entries,
         Compiled(e), nodes' \subseteq nodes \cup {e.id}, nodes \subseteq nodes',
         nodes' # nodes => Accepts(e)
  PROVE  ParentsInv'
<1>1. \A f \in Entries : f.id \in nodes' \ nodes => f = e /\ Accepts(e)
  BY DEF UniqueIds
<1>2. ~methodCalls => e.class # "Method"
  BY DEF Compiled
<1> QED BY <1>1, <1>2 DEF ParentsInv, Known, Accepts

(* The server's own nodes are no methods. *)
LEMMA OwnNodesCompiled ==
  ASSUME NEW e \in {TheAnswer, RaspberryPi, ThisDevice, Pump1}
  PROVE  e \in Entries /\ Compiled(e)
<1>1. TheAnswer.class = "Variable"
  BY DEF TheAnswer, Node
<1>2. RaspberryPi.class = "ObjectType"
  BY DEF RaspberryPi, Node
<1>3. ThisDevice.class = "Object"
  BY DEF ThisDevice, Node
<1>4. Pump1.class = "Object"
  BY DEF Pump1, Node
<1> QED BY <1>1, <1>2, <1>3, <1>4, OwnNodesAreEntries DEF Compiled

LEMMA ParentsStep ==
  ASSUME UniqueIds(Entries)
  PROVE  TypeOK /\ ParentsInv /\ [Next]_vars => ParentsInv'
<1> SUFFICES ASSUME TypeOK, ParentsInv, [Next]_vars PROVE ParentsInv'
  OBVIOUS
<1>1. CASE Skip \/ SetManufacturer \/ Finish
  BY <1>1 DEF Skip, SetManufacturer, Finish, spaceVars, ParentsInv, Known
<1>2. CASE Begin
  <2>1. /\ stage \in Nodesets /\ Compiled(Current) /\ methodCalls' = methodCalls
        /\ \E added \in BOOLEAN :
             nodes' = IF added /\ Accepts(Current) THEN nodes \cup {Current.id} ELSE nodes
    BY <1>2 DEF Begin, At
  <2> QED BY <2>1, CurrentIsAnEntry, NewNodeKeepsParents
<1>3. CASE AddDefaultInstance \/ AddDeviceType \/ AddDevice \/ AddMyNsInstance
  <2>1. PICK e \in {TheAnswer, RaspberryPi, ThisDevice, Pump1} : \E s1, s2 \in Stages : Add(e, s1, s2)
    BY <1>3, NextStages DEF AddDefaultInstance, AddDeviceType, AddDevice, AddMyNsInstance
  <2>2. /\ methodCalls' = methodCalls
        /\ nodes' = nodes \/ (nodes' = nodes \cup {e.id} /\ Accepts(e))
    BY <2>1 DEF Add
  <2> QED BY <2>2, OwnNodesCompiled, NewNodeKeepsParents
<1>4. CASE UNCHANGED vars
  BY <1>4 DEF vars, spaceVars, ParentsInv, Known
<1> QED BY <1>1, <1>2, <1>3, <1>4 DEF Next

(* Without UA_ENABLE_METHODCALLS neither node set loads, whatever the SDK  *)
(* grants: the functions of the methods are compiled away and those of     *)
(* their arguments are not.                                                 *)
THEOREM ArgumentsNeedMethods ==
  ASSUME UniqueIds(Entries),
         \A s \in Nodesets : Complete(Table[s], Calls[s]) /\ HasArguments(Table[s])
  PROVE  Spec => []MethodlessNeverLoads
<1>1. Init => ProgressInv /\ ParentsInv
  BY DEF Init, ProgressInv, ParentsInv
<1>2. TypeOK /\ ProgressInv /\ ParentsInv => MethodlessNeverLoads
  <2> SUFFICES ASSUME TypeOK, ProgressInv, ParentsInv, ~methodCalls, NEW s \in available
               PROVE  FALSE
    BY DEF MethodlessNeverLoads
  <2>1. s \in Nodesets
    BY DEF TypeOK
  <2>2. PICK i \in DOMAIN Table[s], j \in DOMAIN Table[s] :
          /\ Table[s][j].class = "Method"
          /\ Table[s][i].class # "Method" /\ Table[s][i].parent = Table[s][j].id
    BY <2>1 DEF HasArguments
  <2>3. PICK k \in DOMAIN Calls[s] : Calls[s][k] = [does |-> "begin", node |-> i]
    BY <2>1 DEF Complete
  <2>4. Table[s][i].id \in nodes
    BY <2>2, <2>3 DEF ProgressInv, Done, Compiled
  <2>5. Table[s][i] \in Entries /\ Table[s][j] \in Entries
    BY <2>1, <2>2 DEF Entries
  <2>6. Table[s][j].id[1] # "ua"
    BY <2>1, <2>2, NamespacesAssumption DEF Nodesets
  <2> QED BY <2>2, <2>4, <2>5, <2>6 DEF ParentsInv, Known
<1> QED BY <1>1, <1>2, ProgressStep, ParentsStep, TypeCorrect, PTL DEF Spec

------------------------------------------------------------------------------
(* What is copied into an object is not there twice.                        *)

LEMMA ChildrenAre ==
  ASSUME NEW id
  PROVE  /\ Children(id) = {f \in Entries : f.parent = id /\ f.ref # HasSubtype /\ f.id \in nodes}
         /\ Children(id)' = {f \in Entries : f.parent = id /\ f.ref # HasSubtype /\ f.id \in nodes'}
BY DEF Children, Below

(* Who may hang below id has been added, or never will be. *)
Closed(id) ==
  \A f \in Entries : f.parent = id /\ f.ref # HasSubtype => f.id \in nodes \/ ~Compiled(f)

ClosedInv == \A c \in copied : Closed(c.of)

(* A node of a node set has its parent there or in the standard one. *)
LEMMA ParentsNearby ==
  ASSUME NEW s \in Nodesets, Complete(Table[s], Calls[s]), WellOrdered(Table[s], Calls[s]),
         NEW i \in DOMAIN Table[s]
  PROVE  Table[s][i].parent[1] \in {"ua", s}
<1> DEFINE parent == Table[s][i].parent
<1>1. PICK k \in DOMAIN Calls[s] : Calls[s][k] = [does |-> "begin", node |-> i]
  BY DEF Complete
<1>2. parent[1] = "ua" \/ parent \in {b.id : b \in BegunBefore(Table[s], Calls[s], k)}
  BY <1>1 DEF WellOrdered
<1>3. \A b \in BegunBefore(Table[s], Calls[s], k) : b.id[1] = s
  <2>1. \A j \in 1..(k - 1) : Calls[s][j].node \in DOMAIN Table[s]
    <3> DEFINE Call == [does : {"begin", "finish"}, node : DOMAIN Table[s]]
    <3>1. Calls[s] \in Seq(Call)
      BY ConstantsAssumption
    <3>2. \A j \in 1..(k - 1) : j \in DOMAIN Calls[s]
      BY CallsAreASequence
    <3>3. \A j \in DOMAIN Calls[s] : Calls[s][j] \in Call
      <4> HIDE DEF Call
      <4> QED BY <3>1
    <3> QED BY <3>2, <3>3
  <2> QED BY <2>1, NamespacesAssumption DEF BegunBefore
<1> QED BY <1>2, <1>3

(* The server's own nodes: where they are, and that they have no children. *)
LEMMA OwnParents ==
  /\ TheAnswer.parent[1] = "ua" /\ Pump1.parent[1] = "ua"
  /\ RaspberryPi.ref = HasSubtype
  /\ ThisDevice.parent = <<"di", 5001>>
  /\ \A e \in {TheAnswer, RaspberryPi, ThisDevice, Pump1} : e.id[1] = "app" /\ e.parent[1] # "app"
<1>1. /\ TheAnswer.id = <<"app", 1>> /\ RaspberryPi.id = <<"app", 2>>
      /\ ThisDevice.id = <<"app", 3>> /\ Pump1.id = <<"app", 4>>
  BY DEF TheAnswer, RaspberryPi, ThisDevice, Pump1, Node, Own
<1>2. /\ TheAnswer.parent = <<"ua", 85>> /\ Pump1.parent = <<"ua", 85>>
      /\ RaspberryPi.parent = <<"di", 1002>> /\ ThisDevice.parent = <<"di", 5001>>
  BY DEF TheAnswer, RaspberryPi, ThisDevice, Pump1, Node, ObjectsFolder, Ua
<1>3. RaspberryPi.ref = HasSubtype
  BY DEF RaspberryPi, Node
<1> QED BY <1>1, <1>2, <1>3

(* When an instance of a node set is finished, its children are there. *)
LEMMA InstanceIsClosed ==
  ASSUME TypeOK, ProgressInv, stage \in Nodesets, PlainFolder(Entries),
         \A s \in Nodesets : /\ Complete(Table[s], Calls[s])
                             /\ WellOrdered(Table[s], Calls[s])
                             /\ InstancesLast(Table[s], Calls[s]),
         Calls[stage][next].does = "finish", IsInstance(Current)
  PROVE  Closed(Current.id)
<1>. PICK s \in Nodesets, n \in DOMAIN Calls[stage] : s = stage /\ n = next
  BY DEF TypeOK
<1>1. n \in DOMAIN Calls[s]
  BY DEF TypeOK
<1>2. Current.id[1] = s /\ Current \in Entries
  BY CurrentIsAnEntry, NamespacesAssumption DEF Current
<1>3. \A i \in DOMAIN Table[s] : Table[s][i] \in BegunBefore(Table[s], Calls[s], n)
  BY <1>1 DEF InstancesLast, Current
<1>4. \A i \in DOMAIN Table[s] : Table[s][i].id \in nodes \/ ~Compiled(Table[s][i])
  BY <1>3 DEF BegunBefore, ProgressInv, Done
<1> SUFFICES ASSUME NEW f \in Entries, f.parent = Current.id, f.ref # HasSubtype
             PROVE  f.id \in nodes \/ ~Compiled(f)
  BY DEF Closed
<1>5. CASE f \in {TheAnswer, RaspberryPi, ThisDevice, Pump1}
  <2>1. f = ThisDevice
    BY <1>2, <1>5, OwnParents DEF Nodesets
  <2> QED BY <1>2, <2>1 DEF PlainFolder
<1>6. CASE \E t \in Nodesets : \E i \in DOMAIN Table[t] : f = Table[t][i]
  <2>1. PICK t \in Nodesets : \E i \in DOMAIN Table[t] : f = Table[t][i]
    BY <1>6
  <2>2. t = s
    BY <1>2, <2>1, ParentsNearby DEF Nodesets
  <2> QED BY <1>4, <2>1, <2>2
<1> QED BY <1>5, <1>6 DEF Entries

(* Nothing hangs below the server's own nodes. *)
LEMMA OwnNodesAreLeaves ==
  ASSUME \A s \in Nodesets : /\ Complete(Table[s], Calls[s])
                             /\ WellOrdered(Table[s], Calls[s]),
         NEW e \in {TheAnswer, RaspberryPi, ThisDevice, Pump1}, NEW f \in Entries
  PROVE  f.parent # e.id
<1>1. e.id[1] = "app"
  BY OwnParents
<1>2. CASE f \in {TheAnswer, RaspberryPi, ThisDevice, Pump1}
  BY <1>1, <1>2, OwnParents
<1>3. CASE \E t \in Nodesets : \E i \in DOMAIN Table[t] : f = Table[t][i]
  BY <1>1, <1>3, ParentsNearby DEF Nodesets
<1> QED BY <1>2, <1>3 DEF Entries

(* What has all its children gets no other. *)
LEMMA ClosedStaysClosed ==
  ASSUME UniqueIds(Entries), NEW id, Closed(id), NEW e \in Entries, Compiled(e),
         methodCalls' = methodCalls,
         nodes' = nodes \/ (nodes' = nodes \cup {e.id} /\ e.id \notin nodes)
  PROVE  Closed(id)' /\ Children(id)' = Children(id)
<1>1. Closed(id)'
  BY DEF Closed, Compiled
<1>2. \A f \in Entries : f.parent = id /\ f.ref # HasSubtype =>
        (f.id \in nodes' <=> f.id \in nodes)
  BY DEF Closed, UniqueIds
<1>3. Children(id)' = Children(id)
  <2> DEFINE Hangs(f) == f.parent = id /\ f.ref # HasSubtype
  <2>1. Children(id) = {f \in Entries : Hangs(f) /\ f.id \in nodes}
    BY ChildrenAre
  <2>2. Children(id)' = {f \in Entries : Hangs(f) /\ f.id \in nodes'}
    BY ChildrenAre
  <2>3. \A f \in Entries : Hangs(f) => (f.id \in nodes' <=> f.id \in nodes)
    BY <1>2
  <2> HIDE DEF Hangs
  <2> QED BY <2>1, <2>2, <2>3
<1> QED BY <1>1, <1>3

TwiceInv == ClosedInv /\ NothingTwice

LEMMA CopiesAreNew ==
  ASSUME NEW e, NEW c \in CopiesInto(e)
  PROVE  \A f \in Children(e.id) : f.name # c.name
BY DEF CopiesInto

LEMMA TwiceStep ==
  ASSUME UniqueIds(Entries), PlainFolder(Entries),
         \A s \in Nodesets : /\ Complete(Table[s], Calls[s])
                             /\ WellOrdered(Table[s], Calls[s])
                             /\ InstancesLast(Table[s], Calls[s])
  PROVE  TypeOK /\ ProgressInv /\ TwiceInv /\ [Next]_vars => TwiceInv'
<1> SUFFICES ASSUME TypeOK, ProgressInv, TwiceInv, [Next]_vars PROVE TwiceInv'
  OBVIOUS
<1> USE DEF TwiceInv
<1>1. CASE Skip \/ SetManufacturer \/ UNCHANGED vars
  <2>1. nodes' = nodes /\ copied' = copied /\ methodCalls' = methodCalls
    BY <1>1 DEF Skip, SetManufacturer, vars, spaceVars
  <2>2. \A id : Closed(id)' = Closed(id) /\ Children(id)' = Children(id)
    BY <2>1, ChildrenAre DEF Closed, Compiled
  <2> QED BY <2>1, <2>2 DEF ClosedInv, NothingTwice
<1>2. CASE Begin
  <2>1. /\ stage \in Nodesets /\ Compiled(Current) /\ methodCalls' = methodCalls
        /\ copied' = copied
        /\ \E added \in BOOLEAN :
             nodes' = IF added /\ Accepts(Current) THEN nodes \cup {Current.id} ELSE nodes
    BY <1>2 DEF Begin, At
  <2>2. nodes' = nodes \/ (nodes' = nodes \cup {Current.id} /\ Current.id \notin nodes)
    BY <2>1 DEF Accepts
  <2>3. \A c \in copied : Closed(c.of)' /\ Children(c.of)' = Children(c.of)
    BY <2>1, <2>2, CurrentIsAnEntry, ClosedStaysClosed DEF ClosedInv
  <2> QED BY <2>1, <2>3 DEF ClosedInv, NothingTwice
<1>3. CASE Finish
  <2>1. /\ stage \in Nodesets /\ Calls[stage][next].does = "finish"
        /\ nodes' = nodes /\ methodCalls' = methodCalls
        /\ copied' \subseteq copied \cup CopiesInto(Current)
    BY <1>3 DEF Finish, At
  <2>2. \A id : Closed(id)' = Closed(id) /\ Children(id)' = Children(id)
    BY <2>1, ChildrenAre DEF Closed, Compiled
  <2>3. \A c \in CopiesInto(Current) :
          c.of = Current.id /\ Closed(c.of) /\ \A f \in Children(c.of) : f.name # c.name
    <3>1. CASE IsInstance(Current)
      BY <2>1, <3>1, InstanceIsClosed, CopiesAreIntoTheObject, CopiesAreNew
    <3>2. CASE ~IsInstance(Current)
      BY <3>2 DEF CopiesInto
    <3> QED BY <3>1, <3>2
  <2> QED BY <2>1, <2>2, <2>3 DEF ClosedInv, NothingTwice
<1>4. CASE AddDefaultInstance \/ AddDeviceType \/ AddDevice \/ AddMyNsInstance
  <2>1. PICK e \in {TheAnswer, RaspberryPi, ThisDevice, Pump1} : \E s1, s2 \in Stages : Add(e, s1, s2)
    BY <1>4, NextStages DEF AddDefaultInstance, AddDeviceType, AddDevice, AddMyNsInstance
  <2>2. /\ methodCalls' = methodCalls
        /\ nodes' = nodes \/ (nodes' = nodes \cup {e.id} /\ e.id \notin nodes)
        /\ copied' \subseteq copied \cup CopiesInto(e)
    BY <2>1 DEF Add, Accepts
  <2>3. \A c \in copied : Closed(c.of)' /\ Children(c.of)' = Children(c.of)
    BY <2>2, OwnNodesCompiled, ClosedStaysClosed DEF ClosedInv
  <2>4. Closed(e.id)' /\ Children(e.id)' = {}
    <3>1. \A f \in Entries : f.parent # e.id
      BY OwnNodesAreLeaves
    <3> QED BY <3>1, ChildrenAre DEF Closed
  <2>5. \A c \in CopiesInto(e) : c.of = e.id
    BY CopiesAreIntoTheObject
  <2> QED BY <2>2, <2>3, <2>4, <2>5 DEF ClosedInv, NothingTwice
<1> QED BY <1>1, <1>2, <1>3, <1>4 DEF Next

(* Finishing never copies what the node set, or anything after it, adds by *)
(* itself, if instances are finished when their node set has been begun:   *)
(* the two passes of di() and example_nodeset().                            *)
THEOREM NothingCopiedTwice ==
  ASSUME UniqueIds(Entries), PlainFolder(Entries),
         \A s \in Nodesets : /\ Complete(Table[s], Calls[s])
                             /\ WellOrdered(Table[s], Calls[s])
                             /\ InstancesLast(Table[s], Calls[s])
  PROVE  Spec => []NothingTwice
<1>1. Init => ProgressInv /\ TwiceInv
  BY DEF Init, ProgressInv, TwiceInv, ClosedInv, NothingTwice
<1>2. TwiceInv => NothingTwice
  BY DEF TwiceInv
<1> QED BY <1>1, <1>2, ProgressStep, TwiceStep, TypeCorrect, PTL DEF Spec
=============================================================================
