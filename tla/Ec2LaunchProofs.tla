--------------------------- MODULE Ec2LaunchProofs ---------------------------
(***************************************************************************)
(* What holds of Ec2Launch for any number of commands and VPCs, and any    *)
(* AMIs: a closed security group is about to be opened, and an instance    *)
(* has the volumes that were asked for.                                    *)
(***************************************************************************)
EXTENDS Ec2Launch, TLAPS

-----------------------------------------------------------------------------
\* The volumes of an instance, as a fact about Overrides and InstanceVolumes.

LEMMA ImageType ==
  ASSUME NEW image \in Image
  PROVE  /\ image.root \in Device
         /\ \A d \in EbsDevices(image) : d \in Device /\ image.ebs[d] \in Ebs
<1> PICK D \in SUBSET Device : image \in [root : Device, ebs : [D -> Ebs]]
  BY DEF Image
<1> QED BY DEF EbsDevices

Fields == {"size", "type", "snapshot", "encrypted", "iops"}

\* What _override makes of one volume.
LEMMA OverrideFacts ==
  ASSUME NEW ebs \in Ebs, NEW size, NEW type,
         NEW v, v = Override(ebs, size, type)
  PROVE  /\ v.size = size
         /\ v.type = IF type = Unset THEN ebs.type ELSE type
         /\ v.snapshot = ebs.snapshot
         /\ v.encrypted = (ebs.encrypted /\ ~ebs.snapshot)
         /\ v.iops = (ebs.iops /\ type = Unset)
         /\ DOMAIN v = Fields
<1> DEFINE e == ebs.encrypted /\ ~ebs.snapshot
           i == ebs.iops /\ type = Unset
           t == IF type = Unset THEN ebs.type ELSE type
<1>1. v = [ebs EXCEPT !.size = size, !.type = t, !.encrypted = e, !.iops = i]
  BY DEF Override
<1>2. DOMAIN ebs = Fields
  BY DEF Ebs, Fields
<1> HIDE DEF e, i, t
<1>3. /\ v.size = size /\ v.type = t /\ v.snapshot = ebs.snapshot
      /\ v.encrypted = e /\ v.iops = i /\ DOMAIN v = Fields
  BY <1>1, <1>2 DEF Fields
<1> QED BY <1>3, Zenon DEF e, i, t

\* What EC2 makes of an entry beside an inherited snapshot.
LEMMA EncryptFacts ==
  ASSUME NEW e, DOMAIN e = Fields, NEW x,
         NEW v, v = [e EXCEPT !.encrypted = x]
  PROVE  /\ v.size = e.size /\ v.type = e.type /\ v.snapshot = e.snapshot
         /\ v.iops = e.iops /\ v.encrypted = x
  BY DEF Fields

\* Which devices are overridden.
LEMMA OverriddenDevices ==
  ASSUME NEW request, NEW image, NEW d \in EbsDevices(image)
  PROVE  d \in DOMAIN Overrides(request, image) <=>
           (IF d = image.root THEN request.root ELSE request.data) # Unset
  BY DEF Overrides, DataDevices

LEMMA VolumeFacts ==
  ASSUME NEW request \in VolumeRequest, NEW image \in Image,
         VolumesResolve(request, image), NEW d \in EbsDevices(image),
         NEW asked, asked = (IF d = image.root THEN request.root ELSE request.data),
         NEW v, v = InstanceVolumes(Overrides(request, image), image)[d]
  PROVE  /\ v.size >= image.ebs[d].size
         /\ v.snapshot = image.ebs[d].snapshot
         /\ v.encrypted = image.ebs[d].encrypted
         /\ IF asked = Unset THEN v = image.ebs[d] ELSE v.size = asked
         /\ v.iops => v.type = image.ebs[d].type
         /\ v.size > image.ebs[d].size => d \in Grown(request, image)
<1> DEFINE e == image.ebs[d]
           o == Override(e, asked, request.type)
<1>1. e \in Ebs BY ImageType
<1>2. e.size \in Nat /\ e.snapshot \in BOOLEAN /\ e.encrypted \in BOOLEAN /\ e.iops \in BOOLEAN
  BY <1>1, VolumesAssumption DEF Ebs
<1>3. CASE asked = Unset
  <2>1. v = e
    BY <1>3, OverriddenDevices DEF InstanceVolumes
  <2> QED BY <1>2, <1>3, <2>1
<1>4. CASE asked # Unset
  <2>1. d \in DOMAIN Overrides(request, image)
    BY <1>4, OverriddenDevices
  <2>2. Overrides(request, image)[d] = o
    BY <2>1 DEF Overrides
  <2>3. v = [o EXCEPT !.encrypted = @ \/ (e.snapshot /\ e.encrypted)]
    BY <2>1, <2>2 DEF InstanceVolumes
  <2>4. /\ o.size = asked /\ o.snapshot = e.snapshot
        /\ o.type = IF request.type = Unset THEN e.type ELSE request.type
        /\ o.encrypted = (e.encrypted /\ ~e.snapshot)
        /\ o.iops = (e.iops /\ request.type = Unset)
        /\ DOMAIN o = Fields
    BY <1>1, OverrideFacts
  <2>5. asked >= e.size
    BY <1>4 DEF VolumesResolve, RootResolves, DataResolves, DataDevices
  <2>6. d \in Grown(request, image)
    BY <1>4 DEF Grown, DataDevices
  <2> HIDE DEF o
  <2>7. /\ v.size = o.size /\ v.type = o.type /\ v.snapshot = o.snapshot
        /\ v.iops = o.iops
        /\ v.encrypted = (o.encrypted \/ (e.snapshot /\ e.encrypted))
    BY <2>3, <2>4, EncryptFacts
  <2> HIDE DEF e
  <2>8. v.encrypted = e.encrypted
    BY <1>2, <2>4, <2>7, Zenon
  <2>9. v.iops => v.type = e.type
    BY <2>4, <2>7
  <2> QED BY <1>4, <2>4, <2>5, <2>6, <2>7, <2>8, <2>9 DEF e
<1> QED BY <1>3, <1>4

-----------------------------------------------------------------------------
\* The inductive invariant.

\* The group a command has got hold of is the group of some VPC.
LaunchTyped ==
  /\ TypeOK
  /\ machine = [c \in Cli |-> machine[c]]
  /\ \A c \in Cli : pc[c] \in {"authorize", "run", "wait"} => found[c] \in Vpc

LaunchInv == LaunchTyped /\ ClosedIsPending /\ VolumesAsAsked

LEMMA OrderType ==
  ASSUME TypeOK
  PROVE  order.request \in VolumeRequest /\ order.image \in Image
  BY LaunchAssumption DEF TypeOK, Order

LEMMA LaunchInit == Init => LaunchInv
<1> SUFFICES ASSUME Init PROVE LaunchInv
  OBVIOUS
<1>1. \A c \in Cli : machine[c].vpc = Unset
  BY DEF Init, NoMachine
<1>2. LaunchTyped
  BY <1>1 DEF Init, LaunchTyped, TypeOK, GroupState, Label
<1> QED BY <1>1, <1>2 DEF Init, LaunchInv, ClosedIsPending, VolumesAsAsked

LEMMA VpcType ==
  ASSUME TypeOK, NEW c \in Cli
  PROVE  VpcOf(c) \in Vpc
  BY LaunchAssumption DEF TypeOK, VpcOf

\* A command that starts, goes on or ends leaves the machines of the others as
\* they are.
LEMMA MachineStep ==
  ASSUME LaunchInv, UNCHANGED order, NEW c \in Cli, NEW m,
         machine' = [machine EXCEPT ![c] = m],
         m.vpc = Unset \/ m = machine[c]
  PROVE  VolumesAsAsked'
<1>1. \A k \in Cli : machine'[k] = IF k = c THEN m ELSE machine[k]
  BY DEF LaunchInv, LaunchTyped
<1>2. \A k \in Cli : machine'[k].vpc # Unset => machine'[k] = machine[k]
  BY <1>1
<1> QED BY <1>2 DEF LaunchInv, VolumesAsAsked, Volume, Asked

LEMMA TypedStep == LaunchInv /\ [Next]_vars => LaunchTyped'
<1> SUFFICES ASSUME LaunchInv, [Next]_vars PROVE LaunchTyped'
  OBVIOUS
<1> USE DEF LaunchInv, LaunchTyped, TypeOK, Goto, Label, GroupState
<1>1. CASE UNCHANGED vars
  BY <1>1 DEF vars
<1>2. ASSUME NEW c \in Cli, Begin(c) PROVE LaunchTyped'
  BY <1>2 DEF Begin
<1>3. ASSUME NEW c \in Cli, Lookup(c) PROVE LaunchTyped'
  BY <1>3 DEF Lookup, Candidates
<1>4. ASSUME NEW c \in Cli, CreateSecurityGroup(c) PROVE LaunchTyped'
  <2>1. VpcOf(c) \in Vpc /\ pc[c] = "create"
    BY <1>4, VpcType DEF CreateSecurityGroup
  <2>2. group' \in [Vpc -> GroupState] /\ found' \in [Cli -> Vpc \cup {Unset}]
    BY <1>4, <2>1 DEF CreateSecurityGroup
  <2>3. pc' \in [Cli -> Label] BY <1>4 DEF CreateSecurityGroup
  <2>4. UNCHANGED <<subnet, order, machine, cut>>
    BY <1>4 DEF CreateSecurityGroup
  <2>5. \A k \in Cli : pc'[k] \in {"authorize", "run", "wait"} => found'[k] \in Vpc
    BY <1>4, <2>1 DEF CreateSecurityGroup
  <2> QED BY <2>2, <2>3, <2>4, <2>5
<1>5. ASSUME NEW c \in Cli, AuthorizeIngress(c) PROVE LaunchTyped'
  <2>1. found[c] \in Vpc /\ pc[c] = "authorize" BY <1>5 DEF AuthorizeIngress
  <2>2. group' \in [Vpc -> GroupState] BY <1>5, <2>1 DEF AuthorizeIngress
  <2>3. pc' \in [Cli -> Label] BY <1>5 DEF AuthorizeIngress
  <2>4. UNCHANGED <<subnet, found, order, machine, cut>> BY <1>5 DEF AuthorizeIngress
  <2>5. \A k \in Cli : pc'[k] \in {"authorize", "run", "wait"} => found'[k] \in Vpc
    BY <1>5, <2>1 DEF AuthorizeIngress
  <2> QED BY <2>2, <2>3, <2>4, <2>5
<1>6. ASSUME NEW c \in Cli, RunInstances(c) PROVE LaunchTyped'
  <2>1. CASE UNCHANGED machine
    BY <1>6, <2>1 DEF RunInstances
  <2>2. CASE ~UNCHANGED machine
    <3> DEFINE m == [vpc |-> found[c],
                     volumes |-> InstanceVolumes(Overrides(order.request, order.image), order.image),
                     grown |-> Grown(order.request, order.image)]
    <3>1. machine' = [machine EXCEPT ![c] = m] /\ pc' = [pc EXCEPT ![c] = "wait"]
      BY <1>6, <2>2 DEF RunInstances
    <3>2. m.vpc \in Vpc BY <1>6 DEF RunInstances
    <3> HIDE DEF m
    <3>3. \A k \in Cli : machine'[k].vpc \in Vpc \cup {Unset}
      BY <3>1, <3>2
    <3>4. machine' = [k \in Cli |-> machine'[k]]
      BY <3>1
    <3>5. UNCHANGED <<group, subnet, found, order, cut>> /\ pc[c] = "run"
      BY <1>6 DEF RunInstances
    <3> QED BY <3>1, <3>3, <3>4, <3>5
  <2> QED BY <2>1, <2>2
<1>7. ASSUME NEW c \in Cli, WaitForSsh(c) PROVE LaunchTyped'
  BY <1>7 DEF WaitForSsh
<1>8. ASSUME NEW c \in Cli, Interrupt(c) PROVE LaunchTyped'
  BY <1>8 DEF Interrupt
<1>9. ASSUME NEW c \in Cli, Again(c) PROVE LaunchTyped'
  <2>1. NoMachine.vpc = Unset BY DEF NoMachine
  <2>2. \A k \in Cli : machine'[k].vpc \in Vpc \cup {Unset}
    BY <1>9, <2>1 DEF Again
  <2>3. machine' = [k \in Cli |-> machine'[k]]
    BY <1>9 DEF Again
  <2> QED BY <1>9, <2>2, <2>3 DEF Again
<1> QED BY <1>1, <1>2, <1>3, <1>4, <1>5, <1>6, <1>7, <1>8, <1>9 DEF Next, Step

LEMMA ClosedStep == LaunchInv /\ [Next]_vars => ClosedIsPending'
<1> SUFFICES ASSUME LaunchInv, [Next]_vars, NEW v \in Vpc, group'[v] = "closed",
                    v \notin cut'
             PROVE  \E c \in Cli : pc'[c] = "authorize" /\ found'[c] = v
  BY DEF ClosedIsPending
<1> USE DEF LaunchInv, LaunchTyped, TypeOK, Goto
\* A group that was closed before the step, and the command about to open it.
<1>1. ASSUME group[v] = "closed", v \notin cut
      PROVE  \E k \in Cli : pc[k] = "authorize" /\ found[k] = v
  BY <1>1 DEF ClosedIsPending
<1>2. CASE UNCHANGED vars
  BY <1>1, <1>2 DEF vars
<1>3. ASSUME NEW c \in Cli, Begin(c) \/ Lookup(c) \/ RunInstances(c) \/ WaitForSsh(c) \/ Again(c)
      PROVE  \E k \in Cli : pc'[k] = "authorize" /\ found'[k] = v
  <2>1. /\ UNCHANGED <<group, cut>> /\ pc[c] # "authorize"
        /\ \A k \in Cli \ {c} : pc'[k] = pc[k] /\ found'[k] = found[k]
    BY <1>3 DEF Begin, Lookup, RunInstances, WaitForSsh, Again
  <2> QED BY <1>1, <2>1
<1>4. ASSUME NEW c \in Cli, CreateSecurityGroup(c)
      PROVE  \E k \in Cli : pc'[k] = "authorize" /\ found'[k] = v
  <2>1. VpcOf(c) \in Vpc BY VpcType
  <2>2. CASE group[v] = "closed"
    <3> PICK k \in Cli : pc[k] = "authorize" /\ found[k] = v
      BY <1>1, <1>4, <2>2 DEF CreateSecurityGroup
    <3> QED BY <1>4 DEF CreateSecurityGroup
  <2>3. CASE group[v] # "closed"
    BY <1>4, <2>1, <2>3 DEF CreateSecurityGroup
  <2> QED BY <2>2, <2>3
<1>5. ASSUME NEW c \in Cli, AuthorizeIngress(c)
      PROVE  \E k \in Cli : pc'[k] = "authorize" /\ found'[k] = v
  BY <1>1, <1>5 DEF AuthorizeIngress
<1>6. ASSUME NEW c \in Cli, Interrupt(c)
      PROVE  \E k \in Cli : pc'[k] = "authorize" /\ found'[k] = v
  <2> PICK k \in Cli : pc[k] = "authorize" /\ found[k] = v
    BY <1>1, <1>6 DEF Interrupt
  <2>1. k # c BY <1>6 DEF Interrupt
  <2> QED BY <1>6, <2>1 DEF Interrupt
<1> QED BY <1>2, <1>3, <1>4, <1>5, <1>6 DEF Next, Step

LEMMA VolumesStep == LaunchInv /\ [Next]_vars => VolumesAsAsked'
<1> SUFFICES ASSUME LaunchInv, [Next]_vars PROVE VolumesAsAsked'
  OBVIOUS
<1>1. ASSUME UNCHANGED <<machine, order>> PROVE VolumesAsAsked'
  BY <1>1 DEF LaunchInv, VolumesAsAsked, Volume, Asked
<1>2. CASE UNCHANGED vars
  BY <1>1, <1>2 DEF vars
<1>3. ASSUME NEW c \in Cli, Again(c) PROVE VolumesAsAsked'
  <2>1. NoMachine.vpc = Unset BY DEF NoMachine
  <2> QED BY <1>3, <2>1, MachineStep DEF Again
<1>4. ASSUME NEW c \in Cli, RunInstances(c), ~UNCHANGED machine
      PROVE  VolumesAsAsked'
  <2> DEFINE request == order.request
             image == order.image
             volumes == InstanceVolumes(Overrides(request, image), image)
             m == [vpc |-> found[c], volumes |-> volumes,
                   grown |-> Grown(request, image)]
  <2>1. /\ machine' = [machine EXCEPT ![c] = m] /\ UNCHANGED order
        /\ VolumesResolve(request, image)
    BY <1>4 DEF RunInstances
  <2>2. request \in VolumeRequest /\ image \in Image
    BY OrderType DEF LaunchInv, LaunchTyped
  <2>3. m.volumes = volumes /\ m.grown = Grown(request, image)
    OBVIOUS
  <2>4. DOMAIN volumes = EbsDevices(image)
    BY DEF InstanceVolumes
  <2> HIDE DEF m
  <2>5. \A k \in Cli : machine'[k] = IF k = c THEN m ELSE machine[k]
    BY <2>1 DEF LaunchInv, LaunchTyped
  <2> SUFFICES ASSUME NEW k \in Cli, machine'[k].vpc # Unset
               PROVE  /\ DOMAIN machine'[k].volumes = EbsDevices(image)
                      /\ \A d \in EbsDevices(image) :
                           LET v == machine'[k].volumes[d]
                               asked == IF d = image.root THEN request.root
                                        ELSE request.data
                           IN  /\ v.size >= image.ebs[d].size
                               /\ v.snapshot = image.ebs[d].snapshot
                               /\ v.encrypted = image.ebs[d].encrypted
                               /\ IF asked = Unset THEN v = image.ebs[d]
                                  ELSE v.size = asked
                               /\ v.iops => v.type = image.ebs[d].type
                               /\ v.size > image.ebs[d].size =>
                                    d \in machine'[k].grown
    BY <2>1 DEF VolumesAsAsked, Volume, Asked
  <2>6. CASE k = c
    <3> HIDE DEF volumes
    <3>1. machine'[k].volumes = volumes /\ machine'[k].grown = Grown(request, image)
      BY <2>3, <2>5, <2>6
    <3> QED BY <2>1, <2>2, <2>4, <3>1, VolumeFacts DEF volumes
  <2>7. CASE k # c
    BY <2>5, <2>7 DEF LaunchInv, VolumesAsAsked, Volume, Asked
  <2> QED BY <2>6, <2>7
<1>5. ASSUME NEW c \in Cli,
             \/ Begin(c) \/ Lookup(c) \/ CreateSecurityGroup(c)
             \/ AuthorizeIngress(c) \/ WaitForSsh(c) \/ Interrupt(c)
      PROVE  VolumesAsAsked'
  BY <1>1, <1>5 DEF Begin, Lookup, CreateSecurityGroup, AuthorizeIngress,
     WaitForSsh, Interrupt
<1>6. ASSUME NEW c \in Cli, RunInstances(c) PROVE VolumesAsAsked'
  BY <1>1, <1>4, <1>6 DEF RunInstances
<1> QED BY <1>2, <1>3, <1>5, <1>6 DEF Next, Step

LEMMA LaunchInvariant == Spec => []LaunchInv
<1>1. Init => LaunchInv BY LaunchInit
<1>2. LaunchInv /\ [Next]_vars => LaunchInv'
  BY TypedStep, ClosedStep, VolumesStep DEF LaunchInv
<1> QED BY <1>1, <1>2, PTL DEF Spec

-----------------------------------------------------------------------------
\* A security group that lets no SSH in has a command about to open it, or one
\* was cut off right there (launch_instance: create_security_group, then
\* authorize_security_group_ingress).
THEOREM ClosedIsPendingAlways == Spec => []ClosedIsPending
<1>1. LaunchInv => ClosedIsPending BY DEF LaunchInv
<1> QED BY <1>1, LaunchInvariant, PTL

\* An instance has the volumes that were asked for, of any AMI: sizes, types,
\* encryption, IOPS and grown filesystems (_resolve_block_device_mappings).
THEOREM VolumesAsAskedAlways == Spec => []VolumesAsAsked
<1>1. LaunchInv => VolumesAsAsked BY DEF LaunchInv
<1> QED BY <1>1, LaunchInvariant, PTL
=============================================================================
