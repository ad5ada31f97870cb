------------------------------- MODULE Volumes -------------------------------
(***************************************************************************)
(* The volumes of an instance that is launched from an AMI: what           *)
(* _resolve_block_device_mappings asks EC2 to override, and what EC2 makes *)
(* of it (cloudutils/aws/fpga.py).                                         *)
(***************************************************************************)
EXTENDS Naturals, FiniteSets

CONSTANTS
  Device,   \* device names
  Size,     \* sizes of volumes, in GiB
  Type,     \* EBS volume types
  Unset     \* a parameter that is not given; an attribute that is absent

ASSUME VolumesAssumption == Size \subseteq Nat /\ Unset \notin Size \cup Type

\* The Ebs block of a mapping.  Encryption goes with the snapshot, if there is
\* one, and IOPS go with the type.
Ebs == [size : Size, type : Type, snapshot : BOOLEAN, encrypted : BOOLEAN,
        iops : BOOLEAN]

\* An AMI: its root device, and its EBS-backed devices.
Image == UNION {[root : Device, ebs : [d -> Ebs]] : d \in SUBSET Device}

VolumeRequest == [root : Size \cup {Unset}, data : Size \cup {Unset},
                  type : Type \cup {Unset}]

EbsDevices(image) == DOMAIN image.ebs
DataDevices(image) == EbsDevices(image) \ {image.root}

\* No override at all, even if a type is given.
NoOverride(request) == request.root = Unset /\ request.data = Unset

\* The device a request is about: None is an error, and so is a choice.
RootResolves(request, image) ==
  request.root # Unset =>
    /\ image.root \in EbsDevices(image)
    /\ request.root >= image.ebs[image.root].size

DataResolves(request, image) ==
  request.data # Unset =>
    \E d \in Device :
      /\ DataDevices(image) = {d}
      /\ request.data >= image.ebs[d].size

\* _resolve_block_device_mappings raises nothing.
VolumesResolve(request, image) ==
  RootResolves(request, image) /\ DataResolves(request, image)

\* Mutant: the IOPS are kept with another type.
OverrideKeepsIops(ebs, size, type) ==
  [ebs EXCEPT !.size = size,
              !.type = IF type = Unset THEN @ ELSE type,
              !.encrypted = @ /\ ~ebs.snapshot]

\* _override: EC2 rejects an encryption beside an inherited snapshot, and IOPS
\* that the new type does not take.
Override(ebs, size, type) ==
  [ebs EXCEPT !.size = size,
              !.type = IF type = Unset THEN @ ELSE type,
              !.encrypted = @ /\ ~ebs.snapshot,
              !.iops = @ /\ type = Unset]

\* The override entries, by device.
Overrides(request, image) ==
  LET root == IF request.root = Unset THEN {} ELSE {image.root}
      data == IF request.data = Unset THEN {} ELSE DataDevices(image)
  IN  [d \in root \cup data |->
         Override(image.ebs[d],
                  IF d = image.root THEN request.root ELSE request.data,
                  request.type)]

\* run_instances: an override replaces the AMI's entry, but a volume made from
\* an encrypted snapshot is encrypted whatever the entry says.
InstanceVolumes(overrides, image) ==
  [d \in EbsDevices(image) |->
     IF d \in DOMAIN overrides
     THEN [overrides[d] EXCEPT
             !.encrypted = @ \/ (image.ebs[d].snapshot /\ image.ebs[d].encrypted)]
     ELSE image.ebs[d]]
==============================================================================
