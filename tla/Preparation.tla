----------------------------- MODULE Preparation -----------------------------
(***************************************************************************)
(* What a command does before it has a machine to work on: it validates    *)
(* its configuration, launches an instance, puts the HDK on it.  The three *)
(* share no state, so a behaviour is one of them, chosen at the start,     *)
(* while the others rest.                                                  *)
(***************************************************************************)
EXTENDS Ec2Launch, PlatformHdk, Configuration

VARIABLE part   \* which of the three

LaunchRests ==
  order = CHOOSE o \in Order : o.request = [root |-> Unset, data |-> Unset,
                                           type |-> Unset]
PlatformRests ==
  kind = "external" /\ disk = ami /\ cfg = CHOOSE c \in Config : TRUE

PreparationInit ==
  /\ Init /\ PlatformInit /\ ConfigurationInit
  /\ part \in {"launch", "platform", "configuration"}
  /\ part # "launch" => LaunchRests
  /\ part # "platform" => PlatformRests

PreparationNext ==
  \/ /\ part = "launch" /\ Next
     /\ UNCHANGED <<part, platformVars, configurationVars>>
  \/ /\ part = "platform" /\ PlatformNext
     /\ UNCHANGED <<part, vars, configurationVars>>
  \/ /\ part = "configuration" /\ ConfigurationNext
     /\ UNCHANGED <<part, vars, platformVars>>

preparationVars == <<part, vars, platformVars, configurationVars>>

PreparationSpec == PreparationInit /\ [][PreparationNext]_preparationVars

PreparationTypeOK == TypeOK /\ PlatformTypeOK /\ ConfigurationTypeOK
=============================================================================
