---------------------------- MODULE Configuration ----------------------------
(***************************************************************************)
(* How one fslab process turns fslab.yaml and registry.yaml into a         *)
(* configuration, and that into a BuildConfig or a RunConfig               *)
(* (schemas/parser.py, schemas/project.py, schemas/registry.py,            *)
(* schemas/host_model.py, schemas/resolvers.py, bitstream/buildconfig.py,  *)
(* runtime/runconfig.py).                                                  *)
(*                                                                         *)
(* The registry is merged and cross-checked first, its defaults are folded *)
(* into the project, the project is validated against it, and the result   *)
(* is kept for the whole process.  The commands trust it: the properties   *)
(* say what they may rely on.                                              *)
(*                                                                         *)
(* The checks of a single field (a regular expression, a range) are one    *)
(* Boolean "fields" of the block that holds it; ids, paths and values that *)
(* relate two blocks are kept.                                             *)
(***************************************************************************)
EXTENDS Naturals, FiniteSets, Sequences

CONSTANTS
  Registry,   \* the registry files that may be installed
  Project,    \* the fslab.yaml files that may be written
  None        \* Python's None, an unset reference, nothing read yet

Paths == {"absent", "null", "user", "default"}
KnownHosts == {"external", "ec2_launch"}
KnownPublish == {"none", "local_tarball", "aws_afi"}
KnownArtifacts == {"aws_afi"}

-----------------------------------------------------------------------------
\* The registry: one platform entry, and the merged file.

\* BB-05, BB-08, BB-09, RUN-04 and the validators of single fields.
PlatformEntryOK(p) ==
  /\ p.fields
  /\ p.bitbuilder # None => p.localPaths
  /\ DOMAIN p.hosts \subseteq KnownHosts
  /\ p.publish \subseteq KnownPublish
  /\ p.artifacts \subseteq KnownArtifacts

\* BB-10, BB-11, BB-12: bitbuilders maps an id to whether its argument schemas
\* are known.
CrossValidateBitbuilders(r) ==
  /\ \A b \in DOMAIN r.bitbuilders : r.bitbuilders[b]
  /\ \A p \in DOMAIN r.platforms :
       r.platforms[p].bitbuilder \in DOMAIN r.bitbuilders \cup {None}

\* RUN-10, RUN-11
CrossValidateRunners(r) ==
  /\ \A u \in DOMAIN r.runners : r.runners[u]
  /\ \A p \in DOMAIN r.platforms :
       r.platforms[p].runner \in DOMAIN r.runners \cup {None}

RegistryOK(r) ==
  /\ r.version
  /\ \A p \in DOMAIN r.platforms : PlatformEntryOK(r.platforms[p])
  /\ CrossValidateBitbuilders(r)
  /\ CrossValidateRunners(r)

-----------------------------------------------------------------------------
\* The project against the registry.  A host's path is "absent" (no such key),
\* "null", "user" (written by the user) or "default" (from the registry).

\* Mutant: a host type without defaults gets None for a path.
MergeHostNone(h, r, platform) ==
  IF platform \in DOMAIN r.platforms /\ h.path = "absent"
  THEN [h EXCEPT !.path = IF h.type \in DOMAIN r.platforms[platform].hosts
                          THEN r.platforms[platform].hosts[h.type] ELSE None]
  ELSE h

\* The shallow merge {**defaults, **user}: a key of the user wins, null too.
MergeHost(h, r, platform) ==
  IF /\ platform \in DOMAIN r.platforms
     /\ h.type \in DOMAIN r.platforms[platform].hosts
     /\ h.path = "absent"
  THEN [h EXCEPT !.path = r.platforms[platform].hosts[h.type]]
  ELSE h

MergeTargetDefaults(p, r) ==
  [p EXCEPT !.build.host = MergeHost(@, r, p.platform),
            !.run = IF @ = None THEN None
                    ELSE [@ EXCEPT !.host = MergeHost(@, r, p.platform)]]

\* HMOD-01 to HMOD-07, AWS-01 to AWS-07: an external host must name its path.
HostOK(h) ==
  /\ h.type \in KnownHosts
  /\ h.fields
  /\ h.type = "external" => h.path \in {"user", "default"}

\* AdvancedConfig: the list made by normalize_registries is then held against
\* the annotation Optional[Union[str, RegistryEntry]], which no list meets.
AdvancedOK(p) == ~p.customRegistries

ProjectFieldsOK(p) ==
  /\ p.fields
  /\ HostOK(p.build.host)
  /\ p.run # None => HostOK(p.run.host)
  /\ \A i \in DOMAIN p.bridges :
       \A param \in {p.bridges[i].trackers, p.bridges[i].tagBits} :
          param # None => (param.value = None) # (param.ref = None)

\* PROJ-10, PROJ-12, the required parameters, PROJ-13
BridgesOK(p, r) ==
  /\ \A i, j \in DOMAIN p.bridges :
       p.bridges[i].name = p.bridges[j].name => i = j
  /\ \A i \in DOMAIN p.bridges :
       LET b == p.bridges[i] IN
       /\ b.type \in r.bridges
       /\ b.type = "iceblk" => None \notin {b.trackers, b.tagBits}
       /\ b.portsMatch

\* HMOD-05, FSLOT-02, PUB-03
BuildOK(p, e) ==
  /\ p.build.host.type \in DOMAIN e.hosts
  /\ p.build.host.slot = None
  /\ p.build.publish \in e.publish

\* Mutant: RUNA-01 takes a slot that is set for a slot that is valid.
RunOKAnySlot(p, e) ==
  /\ p.run.host.type \in DOMAIN e.hosts
  /\ p.run.host.slot # None
  /\ p.run.artifact \in e.artifacts
  /\ e.runner # None

\* HMOD-06, FSLOT-03, ARTSRC-01, RUN-20, RUNA-01
RunOK(p, e) ==
  /\ p.run.host.type \in DOMAIN e.hosts
  /\ p.run.host.slot # None
  /\ p.run.artifact \in e.artifacts
  /\ e.runner # None
  /\ p.run.host.slot = "ok"

\* A platform without a bitbuilder ends the checks before BBA-01, and with it
\* those of target.run.
CrossValidateWithRegistry(p, r) ==
  /\ p.platform \in DOMAIN r.platforms
  /\ p.fpgaSim \in r.fpgaSims
  /\ BridgesOK(p, r)
  /\ BuildOK(p, r.platforms[p.platform])
  /\ r.platforms[p.platform].bitbuilder # None =>
       /\ p.build.args
       /\ p.run # None => RunOK(p, r.platforms[p.platform])

-----------------------------------------------------------------------------
\* The parameters of bridges.

\* int.bit_length
BitLength(n) ==
  CHOOSE k \in 0 .. n : n < 2 ^ k /\ (k = 0 \/ 2 ^ (k - 1) <= n)

\* What bits are for: a number is below the power of its bits, and of any more.
BitsSuffice(S) ==
  \A n, t, u \in S : t >= BitLength(n) /\ u >= t => 2 ^ u \in Nat /\ n < 2 ^ u

RefsDeclared(p) ==
  \A i \in DOMAIN p.bridges :
    \A param \in {p.bridges[i].trackers, p.bridges[i].tagBits} :
       (param # None /\ param.ref # None) => param.ref \in DOMAIN p.parameters

Sourced(param, p) ==
  IF param = None \/ param.ref = None THEN param
  ELSE [param EXCEPT !.value = p.parameters[param.ref]]

\* BlockdevBridgeConfig: enough tag bits for the trackers, and one at least.
TrackersOK(p) ==
  \A i \in DOMAIN p.bridges :
    p.bridges[i].type = "iceblk" =>
      LET n == Sourced(p.bridges[i].trackers, p).value
          t == Sourced(p.bridges[i].tagBits, p).value
      IN n >= 1 /\ t >= BitLength(n - 1)

\* Mutant: a single tracker gets a tag of no bits.
ResolveRefsUnclamped(b, p) ==
  [b EXCEPT !.trackers = Sourced(@, p), !.tagBits = Sourced(@, p)]

ResolveRefs(b, p) ==
  LET t == Sourced(b.tagBits, p) IN
  [b EXCEPT !.trackers = Sourced(@, p),
            !.tagBits = IF b.type = "iceblk" /\ t.value < 1
                        THEN [t EXCEPT !.value = 1] ELSE t]

\* _sync_bridge_refs: nothing happens in a design without parameters.
HasParameters(p) == DOMAIN p.parameters # {}
SyncOK(p) == HasParameters(p) => RefsDeclared(p) /\ TrackersOK(p)
SyncBridgeRefs(p) ==
  IF HasParameters(p)
  THEN [p EXCEPT !.bridges =
          [i \in DOMAIN p.bridges |-> ResolveRefs(p.bridges[i], p)]]
  ELSE p

-----------------------------------------------------------------------------
VARIABLES
  stage,      \* how far the process is
  registry,   \* the merged registry
  config      \* the project as it stands: raw, then merged, then validated

configurationVars == <<stage, registry, config>>

Stages == {"start", "read", "registry", "merged", "valid",
           "build_ready", "run_ready", "invalid", "refused", "crashed"}

\* What the parser makes of a file that it accepts.
Blocks == {"platform", "build", "run", "bridges", "parameters"}
ParameterShape(param) ==
  param # None =>
    {"value", "ref"} \subseteq DOMAIN param /\ param.value \in Nat \cup {None}
ProjectShape(p) ==
  /\ Blocks \subseteq DOMAIN p
  /\ "host" \in DOMAIN p.build /\ "path" \in DOMAIN p.build.host
  /\ p.build.host.path \in Paths
  /\ \A name \in DOMAIN p.parameters : p.parameters[name] \in Nat
  /\ \A i \in DOMAIN p.bridges :
       LET b == p.bridges[i] IN
       /\ {"type", "trackers", "tagBits"} \subseteq DOMAIN b
       /\ ParameterShape(b.trackers) /\ ParameterShape(b.tagBits)
RegistryShape(r) ==
  \A p \in DOMAIN r.platforms : \A type \in DOMAIN r.platforms[p].hosts :
    r.platforms[p].hosts[type] \in Paths

ASSUME ConfigurationAssumption ==
  /\ \A p \in Project : ProjectShape(p)
  /\ \A r \in Registry : RegistryShape(r)

ConfigurationInit == stage = "start" /\ registry = None /\ config = None

Refuse(from, ok) ==
  /\ stage = from
  /\ ~ok
  /\ stage' = "refused"
  /\ UNCHANGED <<registry, config>>

\* load_and_validate in a process that has no configuration yet.
ReadProject ==
  \E p \in Project :
    /\ stage = "start"
    /\ p.version
    /\ AdvancedOK(p)
    /\ stage' = "read" /\ config' = p
    /\ UNCHANGED registry

ProjectRefused ==
  \E p \in Project : Refuse("start", p.version /\ AdvancedOK(p))

LoadRegistry ==
  \E r \in Registry :
    /\ stage = "read"
    /\ RegistryOK(r)
    /\ stage' = "registry" /\ registry' = r
    /\ UNCHANGED config

RegistryRefused == \E r \in Registry : Refuse("read", RegistryOK(r))

Merge ==
  /\ stage = "registry"
  /\ stage' = "merged"
  /\ config' = MergeTargetDefaults(config, registry)
  /\ UNCHANGED registry

Accepted ==
  /\ ProjectFieldsOK(config)
  /\ CrossValidateWithRegistry(config, registry)
  /\ SyncOK(config)

Validate ==
  /\ stage = "merged"
  /\ Accepted
  /\ stage' = "valid"
  /\ config' = SyncBridgeRefs(config)
  /\ UNCHANGED registry

ValidateRefused == Refuse("merged", Accepted)

\* BuildConfig.from_validated; the checks of local files are left out.
ResolveBuild ==
  /\ stage = "valid"
  /\ LET b == registry.platforms[config.platform].bitbuilder IN
     stage' = IF b = None THEN "invalid"
              ELSE IF b \notin DOMAIN registry.bitbuilders THEN "invalid"
              ELSE IF config.build.host.path \notin {"user", "default"}
                THEN "invalid"
              ELSE IF ~config.build.args THEN "crashed"
              ELSE "build_ready"
  /\ UNCHANGED <<registry, config>>

\* RunConfig.from_validated: the slot is used without a test.
ResolveRun ==
  /\ stage = "valid"
  /\ LET u == registry.platforms[config.platform].runner IN
     stage' = IF config.run = None \/ u = None THEN "invalid"
              ELSE IF u \notin DOMAIN registry.runners THEN "invalid"
              ELSE IF config.run.host.path \notin {"user", "default"}
                THEN "invalid"
              ELSE IF config.run.host.slot # "ok" THEN "crashed"
              ELSE "run_ready"
  /\ UNCHANGED <<registry, config>>

\* A later step of the same process asks again and gets the kept pair.
LoadAgain ==
  /\ stage \in {"build_ready", "run_ready"}
  /\ stage' = "valid"
  /\ UNCHANGED <<registry, config>>

\* The next command is a new process.
Exit ==
  /\ stage \in {"invalid", "refused", "crashed", "valid"}
  /\ stage' = "start" /\ registry' = None /\ config' = None

ConfigurationNext ==
  \/ ReadProject \/ ProjectRefused
  \/ LoadRegistry \/ RegistryRefused
  \/ Merge
  \/ Validate \/ ValidateRefused
  \/ ResolveBuild \/ ResolveRun \/ LoadAgain \/ Exit

ConfigurationSpec == ConfigurationInit /\ [][ConfigurationNext]_configurationVars
-----------------------------------------------------------------------------
\* Properties

\* The stages in order carry what they should: from the time it is read on there
\* is a project with all its blocks, merged or not, and a registry beside it
\* from the time that is read on.
ConfigurationTypeOK ==
  /\ stage \in Stages
  /\ stage \notin {"start", "refused"} => ProjectShape(config)
  /\ stage \notin {"start", "read", "refused"} => registry \in Registry

\* What was validated resolves: no resolution stumbles over a block that the
\* validation should have asked for, on a platform with a bitbuilder.
ValidatedResolves ==
  stage = "crashed" =>
    registry.platforms[config.platform].bitbuilder = None

\* The block devices that the generated target instantiates can address every
\* tracker by its tag, and every reference has its value (resolvers.py), in a
\* design that declares parameters.
TrackersAddressed ==
  (stage = "valid" /\ HasParameters(config)) =>
    \A i \in DOMAIN config.bridges :
      LET b == config.bridges[i] IN
      b.type = "iceblk" =>
        /\ b.trackers.value \in Nat \ {0}
        /\ b.tagBits.value \in Nat \ {0}
        /\ 2 ^ b.tagBits.value >= b.trackers.value
=============================================================================
