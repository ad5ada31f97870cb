------------------------------ MODULE Ec2Launch ------------------------------
(***************************************************************************)
(* launch_instance (cloudutils/aws/fpga.py) and the wait for SSH after it: *)
(* the security group that all launches of an account share, looked up and *)
(* if need be created and opened in separate calls, by several commands at *)
(* a time, each of which may be interrupted between two calls; and the     *)
(* volumes of the instance.                                                *)
(***************************************************************************)
EXTENDS Volumes

CONSTANTS
  Cli,         \* commands that launch an instance
  Vpc,         \* the VPCs of the account in the region
  DefaultVpc,  \* the one an instance without a subnet goes to
  Images       \* the AMIs considered

ASSUME LaunchAssumption == DefaultVpc \in Vpc /\ Images \subseteq Image

VARIABLES
  group,   \* fslab-ssh-access-sg of each VPC
  pc,      \* the statement each command is at
  subnet,  \* the VPC of the subnet_id of its project, if it gives one
  found,   \* the VPC of the security group it has got hold of
  order,   \* the volumes the project asks for, and the AMI
  machine, \* the instance it launched
  cut      \* history: VPCs where a command was cut off before it opened a group

vars == <<group, pc, subnet, found, order, machine, cut>>

GroupState == {"absent", "closed", "open"}
Label == {"idle", "lookup", "create", "authorize", "run", "wait", "up", "failed"}

Order == [request : VolumeRequest, image : Images]

\* [AWS-04]: a type only beside a size.
ValidRequest(r) == r.type # Unset => ~NoOverride(r)

NoMachine == [vpc |-> Unset, volumes |-> <<>>, grown |-> {}]

TypeOK ==
  /\ group \in [Vpc -> GroupState]
  /\ pc \in [Cli -> Label]
  /\ subnet \in [Cli -> Vpc \cup {Unset}]
  /\ found \in [Cli -> Vpc \cup {Unset}]
  /\ order \in Order
  /\ \A c \in Cli : machine[c].vpc \in Vpc \cup {Unset}
  /\ cut \subseteq Vpc

Init ==
  /\ group = [v \in Vpc |-> "absent"]
  /\ pc = [c \in Cli |-> "idle"]
  /\ subnet = [c \in Cli |-> Unset]
  /\ found = [c \in Cli |-> Unset]
  /\ order \in Order /\ ValidRequest(order.request)
  /\ machine = [c \in Cli |-> NoMachine]
  /\ cut = {}

-----------------------------------------------------------------------------
Goto(c, label) == pc' = [pc EXCEPT ![c] = label]

\* The VPC the instance goes to.
VpcOf(c) == IF subnet[c] = Unset THEN DefaultVpc ELSE subnet[c]

Begin(c) ==
  /\ pc[c] = "idle"
  /\ \E s \in Vpc \cup {Unset} : subnet' = [subnet EXCEPT ![c] = s]
  /\ Goto(c, "lookup")
  /\ UNCHANGED <<group, found, order, machine, cut>>

\* describe_security_groups, with a filter on the VPC only beside a subnet:
\* existing_sgs[0] is any group of that name.
Candidates(c) ==
  {v \in Vpc : group[v] # "absent" /\ (subnet[c] # Unset => v = subnet[c])}

Lookup(c) ==
  /\ pc[c] = "lookup"
  /\ \/ /\ Candidates(c) = {}
        /\ Goto(c, "create")
        /\ UNCHANGED found
     \/ \E v \in Candidates(c) :
          /\ found' = [found EXCEPT ![c] = v]
          /\ Goto(c, "run")
  /\ UNCHANGED <<group, subnet, order, machine, cut>>

\* create_security_group: a name that another command has just taken is an error.
CreateSecurityGroup(c) ==
  /\ pc[c] = "create"
  /\ IF group[VpcOf(c)] = "absent"
     THEN /\ group' = [group EXCEPT ![VpcOf(c)] = "closed"]
          /\ found' = [found EXCEPT ![c] = VpcOf(c)]
          /\ Goto(c, "authorize")
     ELSE Goto(c, "failed") /\ UNCHANGED <<group, found>>
  /\ UNCHANGED <<subnet, order, machine, cut>>

\* Mutant: any error is taken for "the rule exists already".
AuthorizeIngressTried(c) ==
  /\ pc[c] = "authorize"
  /\ \/ group' = [group EXCEPT ![found[c]] = "open"]
     \/ UNCHANGED group
  /\ Goto(c, "run")
  /\ UNCHANGED <<subnet, found, order, machine, cut>>

AuthorizeIngress(c) ==
  /\ pc[c] = "authorize"
  /\ group' = [group EXCEPT ![found[c]] = "open"]
  /\ Goto(c, "run")
  /\ UNCHANGED <<subnet, found, order, machine, cut>>

\* GROWFS_USERDATA runs on the first boot, and only if a data volume is resized;
\* the root filesystem grows by itself.
Grown(request, image) ==
  {image.root} \cup (IF request.data = Unset THEN {} ELSE DataDevices(image))

\* EC2 wants the group to be one of the instance's VPC.
RunInstances(c) ==
  /\ pc[c] = "run"
  /\ LET request == order.request
         image == order.image
     IN  IF VolumesResolve(request, image) /\ found[c] = VpcOf(c)
         THEN /\ machine' = [machine EXCEPT ![c] =
                   [vpc |-> found[c],
                    volumes |-> InstanceVolumes(Overrides(request, image), image),
                    grown |-> Grown(request, image)]]
              /\ Goto(c, "wait")
         ELSE Goto(c, "failed") /\ UNCHANGED machine
  /\ UNCHANGED <<group, subnet, found, order, cut>>

\* wait_for_ssh: the port answers, or five minutes pass.
WaitForSsh(c) ==
  /\ pc[c] = "wait"
  /\ \/ group[found[c]] = "open" /\ Goto(c, "up")
     \/ Goto(c, "failed")
  /\ UNCHANGED <<group, subnet, found, order, machine, cut>>

\* Ctrl+C, a lost connection or expired credentials at any call.
Interrupt(c) ==
  /\ pc[c] \in {"lookup", "create", "authorize", "run", "wait"}
  /\ Goto(c, "failed")
  /\ cut' = IF pc[c] = "authorize" THEN cut \cup {found[c]} ELSE cut
  /\ UNCHANGED <<group, subnet, found, order, machine>>

\* The command is over; the user tries again.
Again(c) ==
  /\ pc[c] \in {"failed", "up"}
  /\ Goto(c, "idle")
  /\ subnet' = [subnet EXCEPT ![c] = Unset]
  /\ found' = [found EXCEPT ![c] = Unset]
  /\ machine' = [machine EXCEPT ![c] = NoMachine]
  /\ UNCHANGED <<group, order, cut>>

Step(c) ==
  \/ Lookup(c) \/ CreateSecurityGroup(c) \/ AuthorizeIngress(c)
  \/ RunInstances(c) \/ WaitForSsh(c)

Next == \E c \in Cli : Begin(c) \/ Step(c) \/ Interrupt(c) \/ Again(c)

Spec == Init /\ [][Next]_vars

-----------------------------------------------------------------------------
\* A group that is not open has a command about to open it, or one was cut off
\* there: a launch that finds the group before another launch has opened it
\* does not find a closed one left for good.
ClosedIsPending ==
  \A v \in Vpc : group[v] = "closed" =>
    v \in cut \/ \E c \in Cli : pc[c] = "authorize" /\ found[c] = v

Volume(c, d) == machine[c].volumes[d]
Asked(d) ==
  IF d = order.image.root THEN order.request.root ELSE order.request.data

\* An instance has the volumes that were asked for, no smaller than the AMI's,
\* with the AMI's encryption, and IOPS that fit their type; a volume that
\* nobody asked about is the AMI's; and a filesystem fills the volume that was
\* grown under it.
VolumesAsAsked ==
  \A c \in Cli : machine[c].vpc # Unset =>
    LET image == order.image IN
    /\ DOMAIN machine[c].volumes = EbsDevices(image)
    /\ \A d \in EbsDevices(image) :
         /\ Volume(c, d).size >= image.ebs[d].size
         /\ Volume(c, d).snapshot = image.ebs[d].snapshot
         /\ Volume(c, d).encrypted = image.ebs[d].encrypted
         /\ IF Asked(d) = Unset THEN Volume(c, d) = image.ebs[d]
            ELSE Volume(c, d).size = Asked(d)
         /\ Volume(c, d).iops => Volume(c, d).type = image.ebs[d].type
         /\ Volume(c, d).size > image.ebs[d].size => d \in machine[c].grown
==============================================================================
