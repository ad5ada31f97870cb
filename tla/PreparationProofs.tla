-------------------------- MODULE PreparationProofs --------------------------
(***************************************************************************)
(* What holds of Configuration for any registries and projects: a project  *)
(* that was validated resolves, and every tracker of a block device has    *)
(* its tag.  And the types of the three preparations together.             *)
(***************************************************************************)
EXTENDS Preparation, Ec2LaunchProofs, PlatformHdkProofs

-----------------------------------------------------------------------------
\* Configuration: types

\* Merging and resolving keep the blocks they do not speak of.
LEMMA MergeKeeps ==
  ASSUME NEW p, ProjectShape(p), NEW r \in Registry,
         NEW q, q = MergeTargetDefaults(p, r)
  PROVE  /\ ProjectShape(q)
         /\ q.platform = p.platform /\ q.bridges = p.bridges
         /\ q.parameters = p.parameters
<1> DEFINE build == q.build
<1>1. Blocks \subseteq DOMAIN p /\ "host" \in DOMAIN p.build
  BY DEF ProjectShape
<1>2. /\ DOMAIN q = DOMAIN p /\ q.platform = p.platform
      /\ q.bridges = p.bridges /\ q.parameters = p.parameters
  BY <1>1 DEF MergeTargetDefaults, Blocks
<1>3. build.host = MergeHost(p.build.host, r, p.platform) /\ "host" \in DOMAIN build
  BY <1>1 DEF MergeTargetDefaults, Blocks
<1>4. "path" \in DOMAIN build.host /\ build.host.path \in Paths
  <2> DEFINE h == p.build.host
  <2>1. "path" \in DOMAIN h /\ h.path \in Paths
    BY DEF ProjectShape
  <2> SUFFICES "path" \in DOMAIN MergeHost(h, r, p.platform)
               /\ MergeHost(h, r, p.platform).path \in Paths
    BY <1>3
  <2> HIDE DEF h
  <2>2. CASE MergeHost(h, r, p.platform) = h
    BY <2>1, <2>2
  <2>3. CASE MergeHost(h, r, p.platform) # h
    <3>1. /\ p.platform \in DOMAIN r.platforms
          /\ h.type \in DOMAIN r.platforms[p.platform].hosts
      BY <2>3 DEF MergeHost
    <3>2. r.platforms[p.platform].hosts[h.type] \in Paths
      BY <3>1, ConfigurationAssumption DEF RegistryShape
    <3>3. MergeHost(h, r, p.platform) =
            [h EXCEPT !.path = r.platforms[p.platform].hosts[h.type]]
      BY <2>3 DEF MergeHost
    <3> QED BY <2>1, <3>2, <3>3
  <2> QED BY <2>2, <2>3
<1> QED BY <1>1, <1>2, <1>3, <1>4 DEF ProjectShape

\* A parameter of a bridge, given or taken from the design.
LEMMA SourcedShape ==
  ASSUME NEW p, ProjectShape(p), NEW param, ParameterShape(param),
         param # None /\ param.ref # None => param.ref \in DOMAIN p.parameters
  PROVE  /\ ParameterShape(Sourced(param, p))
         /\ param # None /\ param.ref # None =>
              Sourced(param, p).value = p.parameters[param.ref]
         /\ param # None /\ param.ref = None => Sourced(param, p) = param
         /\ param # None => {"value", "ref"} \subseteq DOMAIN Sourced(param, p)
<1>1. CASE param = None \/ param.ref = None
  BY <1>1 DEF Sourced, ParameterShape
<1>2. CASE param # None /\ param.ref # None
  <2>1. Sourced(param, p) = [param EXCEPT !.value = p.parameters[param.ref]]
    BY <1>2 DEF Sourced
  <2>2. {"value", "ref"} \subseteq DOMAIN param /\ p.parameters[param.ref] \in Nat
    BY <1>2 DEF ParameterShape, ProjectShape
  <2>3. /\ {"value", "ref"} \subseteq DOMAIN Sourced(param, p)
        /\ Sourced(param, p).value = p.parameters[param.ref]
    BY <2>1, <2>2
  <2> QED BY <1>2, <2>2, <2>3 DEF ParameterShape
<1> QED BY <1>1, <1>2

LEMMA SyncKeeps ==
  ASSUME NEW p, ProjectShape(p), NEW r, BridgesOK(p, r), SyncOK(p),
         NEW q, q = SyncBridgeRefs(p)
  PROVE  /\ ProjectShape(q)
         /\ q.platform = p.platform /\ q.build = p.build /\ q.run = p.run
         /\ q.parameters = p.parameters
         /\ DOMAIN q.bridges = DOMAIN p.bridges
         /\ HasParameters(p) => \A i \in DOMAIN p.bridges :
              q.bridges[i] = ResolveRefs(p.bridges[i], p)
<1>1. CASE ~HasParameters(p)
  BY <1>1 DEF SyncBridgeRefs
<1>2. CASE HasParameters(p)
  <2> DEFINE bridges == [i \in DOMAIN p.bridges |-> ResolveRefs(p.bridges[i], p)]
  <2>1. q = [p EXCEPT !.bridges = bridges]
    BY <1>2 DEF SyncBridgeRefs
  <2>2. ASSUME NEW i \in DOMAIN p.bridges
        PROVE  LET b == bridges[i] IN
               /\ {"type", "trackers", "tagBits"} \subseteq DOMAIN b
               /\ ParameterShape(b.trackers) /\ ParameterShape(b.tagBits)
    <3> DEFINE b == p.bridges[i]
               n == Sourced(b.trackers, p)
               t == Sourced(b.tagBits, p)
               u == IF b.type = "iceblk" /\ t.value < 1
                    THEN [t EXCEPT !.value = 1] ELSE t
    <3>1. /\ {"type", "trackers", "tagBits"} \subseteq DOMAIN b
          /\ ParameterShape(b.trackers) /\ ParameterShape(b.tagBits)
      BY DEF ProjectShape
    <3>2. \A param \in {b.trackers, b.tagBits} :
            param # None /\ param.ref # None => param.ref \in DOMAIN p.parameters
      BY <1>2 DEF SyncOK, RefsDeclared
    <3>3. ParameterShape(n) /\ ParameterShape(t)
      BY <3>1, <3>2, SourcedShape
    <3>4. b.type = "iceblk" => {"value", "ref"} \subseteq DOMAIN t
      BY <3>1, <3>2, SourcedShape DEF BridgesOK
    <3>5. bridges[i] = [b EXCEPT !.trackers = n, !.tagBits = u]
      BY DEF ResolveRefs
    <3> HIDE DEF n, t, b, bridges
    <3>6. ParameterShape(u)
      BY <3>3, <3>4 DEF ParameterShape
    <3> HIDE DEF u
    <3>7. /\ DOMAIN bridges[i] = DOMAIN b
          /\ bridges[i].trackers = n /\ bridges[i].tagBits = u
      BY <3>1, <3>5
    <3> QED BY <3>1, <3>3, <3>6, <3>7
  <2>3. DOMAIN bridges = DOMAIN p.bridges
    OBVIOUS
  <2>4. \A i \in DOMAIN p.bridges : bridges[i] = ResolveRefs(p.bridges[i], p)
    OBVIOUS
  <2> HIDE DEF bridges
  <2>5. /\ DOMAIN q = DOMAIN p /\ q.bridges = bridges
        /\ q.platform = p.platform /\ q.build = p.build /\ q.run = p.run
        /\ q.parameters = p.parameters
    BY <2>1 DEF ProjectShape, Blocks
  <2> QED BY <2>2, <2>3, <2>4, <2>5 DEF ProjectShape
<1> QED BY <1>1, <1>2

LEMMA ConfigurationTypeInit == ConfigurationInit => ConfigurationTypeOK
  BY DEF ConfigurationInit, ConfigurationTypeOK, Stages

LEMMA ConfigurationTypeStep ==
  ConfigurationTypeOK /\ [ConfigurationNext]_configurationVars
    => ConfigurationTypeOK'
<1> SUFFICES ASSUME ConfigurationTypeOK, [ConfigurationNext]_configurationVars
             PROVE  ConfigurationTypeOK'
  OBVIOUS
<1> USE DEF ConfigurationTypeOK, Stages
<1>1. CASE ReadProject
  BY <1>1, ConfigurationAssumption DEF ReadProject
<1>2. CASE ProjectRefused \/ RegistryRefused \/ ValidateRefused
  BY <1>2 DEF ProjectRefused, RegistryRefused, ValidateRefused, Refuse
<1>3. CASE LoadRegistry
  BY <1>3 DEF LoadRegistry
<1>4. CASE Merge
  <2>1. ProjectShape(config') BY <1>4, MergeKeeps DEF Merge
  <2> QED BY <1>4, <2>1 DEF Merge
<1>5. CASE Validate
  <2>1. BridgesOK(config, registry) /\ SyncOK(config)
    BY <1>5 DEF Validate, Accepted, CrossValidateWithRegistry
  <2>2. ProjectShape(config') BY <1>5, <2>1, SyncKeeps DEF Validate
  <2> QED BY <1>5, <2>2 DEF Validate
<1>6. CASE ResolveBuild
  BY <1>6 DEF ResolveBuild
<1>7. CASE ResolveRun
  BY <1>7 DEF ResolveRun
<1>8. CASE LoadAgain
  BY <1>8 DEF LoadAgain
<1>9. CASE Exit
  BY <1>9 DEF Exit
<1>10. CASE UNCHANGED configurationVars
  BY <1>10 DEF configurationVars
<1> QED BY <1>1, <1>2, <1>3, <1>4, <1>5, <1>6, <1>7, <1>8, <1>9, <1>10
        DEF ConfigurationNext

-----------------------------------------------------------------------------
\* Configuration: what was validated

Validated == {"valid", "build_ready", "run_ready"}

\* What the resolutions use without a test.
Resolvable ==
  registry.platforms[config.platform].bitbuilder # None =>
    config.build.args /\ (config.run # None => config.run.host.slot = "ok")

ResolveInv ==
  /\ ConfigurationTypeOK
  /\ stage \in Validated => Resolvable
  /\ ValidatedResolves

LEMMA ResolveInit == ConfigurationInit => ResolveInv
  BY ConfigurationTypeInit
     DEF ConfigurationInit, ResolveInv, Validated, ValidatedResolves

LEMMA ResolveStep ==
  ResolveInv /\ [ConfigurationNext]_configurationVars => ResolveInv'
<1> SUFFICES ASSUME ResolveInv, [ConfigurationNext]_configurationVars
             PROVE  (stage \in Validated => Resolvable)' /\ ValidatedResolves'
  BY ConfigurationTypeStep DEF ResolveInv
<1> USE DEF ResolveInv, Validated, ValidatedResolves, Resolvable
<1>1. CASE Validate
  <2>1. /\ BridgesOK(config, registry) /\ SyncOK(config)
        /\ Resolvable
    BY <1>1 DEF Validate, Accepted, CrossValidateWithRegistry, RunOK
  <2>2. /\ config'.platform = config.platform
        /\ config'.build = config.build /\ config'.run = config.run
    BY <1>1, <2>1, SyncKeeps DEF Validate, ConfigurationTypeOK
  <2> QED BY <1>1, <2>1, <2>2 DEF Validate
<1>2. CASE ResolveBuild
  BY <1>2 DEF ResolveBuild
<1>3. CASE ResolveRun
  BY <1>3 DEF ResolveRun
<1>4. CASE LoadAgain
  BY <1>4 DEF LoadAgain
<1>5. CASE \/ ReadProject \/ LoadRegistry \/ Merge \/ Exit
           \/ ProjectRefused \/ RegistryRefused \/ ValidateRefused
  BY <1>5 DEF ReadProject, LoadRegistry, Merge, Exit, ProjectRefused,
     RegistryRefused, ValidateRefused, Refuse
<1>6. CASE UNCHANGED configurationVars
  BY <1>6 DEF configurationVars
<1> QED BY <1>1, <1>2, <1>3, <1>4, <1>5, <1>6 DEF ConfigurationNext

LEMMA ResolveInvariant == ConfigurationSpec => []ResolveInv
  BY ResolveInit, ResolveStep, PTL DEF ConfigurationSpec

\* What cross_validate_with_registry let through resolves: from_validated of
\* neither configuration stumbles over a block that it should have asked for,
\* on a platform with a bitbuilder.
THEOREM ValidatedResolvesAlways == ConfigurationSpec => []ValidatedResolves
<1>1. ResolveInv => ValidatedResolves BY DEF ResolveInv
<1> QED BY <1>1, ResolveInvariant, PTL

-----------------------------------------------------------------------------
\* Configuration: the tags of the trackers

\* The prover knows no powers of two, so what bit_length is for is a
\* hypothesis: a number is below the power of its bits, and of any more bits.
\* TLC evaluates it on an initial segment (MCPreparation).
LEMMA TagsSuffice ==
  ASSUME BitsSuffice(Nat), NEW p, ProjectShape(p), NEW r, BridgesOK(p, r),
         ProjectFieldsOK(p), SyncOK(p), HasParameters(p),
         NEW i \in DOMAIN p.bridges, p.bridges[i].type = "iceblk",
         NEW b, b = ResolveRefs(p.bridges[i], p)
  PROVE  /\ b.trackers.value \in Nat \ {0}
         /\ b.tagBits.value \in Nat \ {0}
         /\ 2 ^ b.tagBits.value >= b.trackers.value
<1> DEFINE a == p.bridges[i]
           n == Sourced(a.trackers, p)
           t == Sourced(a.tagBits, p)
           u == IF t.value < 1 THEN [t EXCEPT !.value = 1] ELSE t
<1>1. /\ {"type", "trackers", "tagBits"} \subseteq DOMAIN a
      /\ ParameterShape(a.trackers) /\ ParameterShape(a.tagBits)
      /\ a.trackers # None /\ a.tagBits # None
  BY DEF ProjectShape, BridgesOK
<1>2. \A param \in {a.trackers, a.tagBits} :
        /\ {"value", "ref"} \subseteq DOMAIN Sourced(param, p)
        /\ Sourced(param, p).value \in Nat
  <2> SUFFICES ASSUME NEW param \in {a.trackers, a.tagBits}
               PROVE  /\ {"value", "ref"} \subseteq DOMAIN Sourced(param, p)
                      /\ Sourced(param, p).value \in Nat
    OBVIOUS
  <2>1. param # None /\ ParameterShape(param) BY <1>1
  <2>2. param.ref # None => param.ref \in DOMAIN p.parameters
    BY <2>1 DEF SyncOK, RefsDeclared
  <2>3. (param.value = None) # (param.ref = None)
    BY <2>1 DEF ProjectFieldsOK
  <2> QED BY <2>1, <2>2, <2>3, SourcedShape DEF ParameterShape, ProjectShape
<1>3. n.value >= 1 /\ t.value >= BitLength(n.value - 1)
  BY DEF SyncOK, TrackersOK
<1>4. b = [a EXCEPT !.trackers = n, !.tagBits = u]
  BY DEF ResolveRefs
<1>5. n.value \in Nat /\ t.value \in Nat /\ "value" \in DOMAIN t
  BY <1>2
<1> HIDE DEF a, n, t
<1>6. u.value \in Nat \ {0} /\ u.value >= t.value
  BY <1>5
<1> HIDE DEF u
<1>7. b.trackers = n /\ b.tagBits = u
  BY <1>1, <1>4
<1>8. 2 ^ u.value \in Nat /\ n.value - 1 < 2 ^ u.value
  BY <1>3, <1>5, <1>6 DEF BitsSuffice
<1> QED BY <1>3, <1>5, <1>6, <1>7, <1>8

\* build_ready and run_ready are left for valid again.
TagInv ==
  /\ ConfigurationTypeOK
  /\ stage \in Validated /\ HasParameters(config) =>
       \A i \in DOMAIN config.bridges :
         LET b == config.bridges[i] IN
         b.type = "iceblk" =>
           /\ b.trackers.value \in Nat \ {0}
           /\ b.tagBits.value \in Nat \ {0}
           /\ 2 ^ b.tagBits.value >= b.trackers.value

LEMMA TagInit == ConfigurationInit => TagInv
  BY ConfigurationTypeInit DEF ConfigurationInit, TagInv, Validated

LEMMA TagStep ==
  ASSUME BitsSuffice(Nat)
  PROVE  TagInv /\ [ConfigurationNext]_configurationVars => TagInv'
<1> SUFFICES ASSUME TagInv, [ConfigurationNext]_configurationVars
             PROVE  TagInv'
  OBVIOUS
<1>1. ConfigurationTypeOK' BY ConfigurationTypeStep DEF TagInv
<1>2. CASE Validate
  <2>1. /\ ProjectShape(config) /\ ProjectFieldsOK(config)
        /\ BridgesOK(config, registry) /\ SyncOK(config)
        /\ config' = SyncBridgeRefs(config)
    BY <1>2 DEF Validate, Accepted, CrossValidateWithRegistry, TagInv,
       ConfigurationTypeOK
  <2>2. /\ HasParameters(config') = HasParameters(config)
        /\ DOMAIN config'.bridges = DOMAIN config.bridges
        /\ HasParameters(config) => \A i \in DOMAIN config.bridges :
             config'.bridges[i] = ResolveRefs(config.bridges[i], config)
    BY <2>1, SyncKeeps DEF HasParameters
  <2>3. \A i \in DOMAIN config.bridges :
          ResolveRefs(config.bridges[i], config).type = config.bridges[i].type
    BY <2>1 DEF ResolveRefs, ProjectShape
  <2> SUFFICES ASSUME HasParameters(config), NEW i \in DOMAIN config.bridges,
                      config'.bridges[i].type = "iceblk"
               PROVE  /\ config'.bridges[i].trackers.value \in Nat \ {0}
                      /\ config'.bridges[i].tagBits.value \in Nat \ {0}
                      /\ 2 ^ config'.bridges[i].tagBits.value
                           >= config'.bridges[i].trackers.value
    BY <1>1, <2>2 DEF TagInv
  <2> QED BY <2>1, <2>2, <2>3, TagsSuffice
<1>3. CASE ResolveBuild \/ ResolveRun \/ LoadAgain
  <2>1. UNCHANGED config /\ stage \in Validated
    BY <1>3 DEF ResolveBuild, ResolveRun, LoadAgain, Validated
  <2> QED BY <1>1, <2>1 DEF TagInv
<1>4. CASE \/ ReadProject \/ LoadRegistry \/ Merge \/ Exit
           \/ ProjectRefused \/ RegistryRefused \/ ValidateRefused
  <2>1. stage' \notin Validated
    BY <1>4 DEF ReadProject, LoadRegistry, Merge, Exit, ProjectRefused,
       RegistryRefused, ValidateRefused, Refuse, Validated
  <2> QED BY <1>1, <2>1 DEF TagInv
<1>5. CASE UNCHANGED configurationVars
  BY <1>1, <1>5 DEF configurationVars, TagInv
<1> QED BY <1>2, <1>3, <1>4, <1>5 DEF ConfigurationNext

\* The block devices of a validated configuration can address every tracker by
\* its tag, whatever the bridges refer to (BlockdevBridgeConfig.resolve_refs).
THEOREM TrackersAddressedAlways ==
  ASSUME BitsSuffice(Nat)
  PROVE  ConfigurationSpec => []TrackersAddressed
<1>1. TagInv => TrackersAddressed
  BY DEF TagInv, TrackersAddressed, Validated
<1> QED BY <1>1, TagInit, TagStep, PTL DEF ConfigurationSpec

-----------------------------------------------------------------------------
\* The three preparations together

\* Every variable has its type, whichever preparation a command is at.
THEOREM PreparationTypeCorrect == PreparationSpec => []PreparationTypeOK
<1> DEFINE IInv == LaunchInv /\ PlatformTypeOK /\ ConfigurationTypeOK
<1>1. PreparationInit => IInv
  BY LaunchInit, PlatformTypeInit, ConfigurationTypeInit DEF PreparationInit
<1>2. IInv /\ [PreparationNext]_preparationVars => IInv'
  <2>1. [PreparationNext]_preparationVars =>
          /\ [Next]_vars /\ [PlatformNext]_platformVars
          /\ [ConfigurationNext]_configurationVars
    BY DEF PreparationNext, preparationVars
  <2>2. LaunchInv /\ [Next]_vars => LaunchInv'
    BY TypedStep, ClosedStep, VolumesStep DEF LaunchInv
  <2> QED BY <2>1, <2>2, PlatformTypeStep, ConfigurationTypeStep
<1>3. IInv => PreparationTypeOK
  BY DEF LaunchInv, LaunchTyped, PreparationTypeOK
<1> QED BY <1>1, <1>2, <1>3, PTL DEF PreparationSpec
=============================================================================
