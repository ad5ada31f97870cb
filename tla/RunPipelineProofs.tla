-------------------------- MODULE RunPipelineProofs --------------------------
(***************************************************************************)
(* What holds of RunPipeline for any number of runs and hosts.  With any   *)
(* number of processes: type correctness, that a cleanup_done can be       *)
(* trusted, that a driver on a launched machine runs on its own image, and *)
(* that such a machine serves one run.  Of one command at a time: that the *)
(* stamp of a machine is kept until it is released, and the refinement of  *)
(* HostLease.                                                              *)
(***************************************************************************)
EXTENDS RunPipeline, TLAPS

-----------------------------------------------------------------------------
\* Types

LEMMA NoStampType == NoStamp \in Stamp
  BY DEF NoStamp, Stamp, NoResult, Result

LEMMA RememberType ==
  ASSUME TypeOK, NEW c \in Cli, NEW h \in Host, NEW action \in Action,
         Remember(c, h, action)
  PROVE  mem' \in [Cli -> Stamp]
<1>1. [NoStamp EXCEPT !.host = h, !.action = action] \in Stamp
  BY DEF NoStamp, Stamp, NoResult, Result
<1> QED BY <1>1 DEF Remember, TypeOK

LEMMA CleanupType ==
  ASSUME TypeOK, NEW action, NEW h, CleanupRemote(action, h)
  PROVE  /\ inst' \in [Host -> InstState]
         /\ job' \in [Job -> JobState]
<1> USE DEF TypeOK, InstState, JobState
<1>1. CASE action = "launched" BY <1>1 DEF CleanupRemote, KillJobsOn
<1>2. CASE action = "started" /\ Up(h) BY <1>2 DEF CleanupRemote, KillJobsOn
<1>3. CASE action # "launched" /\ ~(action = "started" /\ Up(h))
  BY <1>3 DEF CleanupRemote
<1> QED BY <1>1, <1>2, <1>3

LEMMA TypeInit == Init => TypeOK
  BY DEF Init, HostsInit, TypeOK, NoStamp, Stamp, NoResult, Result, EmptyDir,
     RemoteDir, RunStatus, InstState, JobState, Host, Stage, Slot, Cleared, SlotState

LEMMA TypeStep == TypeOK /\ [Next]_vars => TypeOK'
<1> SUFFICES ASSUME TypeOK, [Next]_vars PROVE TypeOK'
  OBVIOUS
<1> USE DEF TypeOK, Goto, fpga, commands
<1>1. ASSUME NEW c \in Cli, Start(c) PROVE TypeOK'
  <2>1. CASE StartSim(c) BY <2>1 DEF StartSim, LaunchPc
  <2>2. CASE StartMonitor(c) BY <2>2 DEF StartMonitor, MonitorPc
  <2>3. CASE StartAbandon(c) BY <2>3 DEF StartAbandon, AbandonPc
  <2> QED BY <1>1, <2>1, <2>2, <2>3 DEF Start
<1>2. ASSUME NEW c \in Cli, LaunchStep(c) PROVE TypeOK'
  <2> USE DEF LaunchPc
  <2>1. CASE Heal(c) BY <2>1, NoStampType DEF Heal
  <2>2. CASE RequestEphemeral(c)
    <3> PICK h \in Ephemeral : LaunchInstance(h) /\ Remember(c, h, "launched")
      BY <2>2 DEF RequestEphemeral
    <3>1. mem' \in [Cli -> Stamp] BY RememberType DEF Host, Action
    <3> QED BY <2>2, <3>1 DEF RequestEphemeral, LaunchInstance, InstState
  <2>3. CASE RequestManaged(c)
    <3> PICK h \in Managed, action \in {"started", "connected"} :
          StartOrConnect(h, action) /\ Remember(c, h, action)
      BY <2>3 DEF RequestManaged
    <3>1. mem' \in [Cli -> Stamp] BY RememberType DEF Host, Action
    <3>2. inst' \in [Host -> InstState] BY DEF StartOrConnect, InstState
    <3> QED BY <2>3, <3>1, <3>2 DEF RequestManaged
  <2>4. CASE RequestExternal(c)
    <3> PICK h \in External : Remember(c, h, "connected")
      BY <2>4 DEF RequestExternal
    <3>1. mem' \in [Cli -> Stamp] BY RememberType DEF Host, Action
    <3> QED BY <2>4, <3>1 DEF RequestExternal
  <2>5. CASE Acquired(c) BY <2>5 DEF Acquired
  <2>6. CASE Setup(c)
    <3>1. EmptyDir \in RemoteDir BY DEF EmptyDir, RemoteDir, NoResult, Result
    <3>2. remote' \in [Host -> RemoteDir] BY <2>6, <3>1 DEF Setup
    <3> QED BY <2>6, <3>2 DEF Setup
  <2>7. CASE SetupFails(c)
    BY <2>7, CleanupType, NoStampType DEF SetupFails, Done
  <2>8. CASE WriteStamp(c)
    <3> PICK b \in Job :
          /\ job' = [job EXCEPT ![b] = "drawn"]
          /\ home' = [home EXCEPT ![b] = mem[c].host]
          /\ stamp' = [mem[c] EXCEPT !.id = b, !.status = "launching"]
      BY <2>8 DEF WriteStamp
    <3>1. stamp' \in Stamp BY DEF Stamp, RunStatus
    <3>2. home' \in [Job -> Host \cup {None}] BY DEF Stamp
    <3> QED BY <2>8, <3>1, <3>2 DEF WriteStamp, JobState
  <2>9. CASE LaunchRemoteWrapper(c)
    BY <2>9 DEF LaunchRemoteWrapper, JobState
  <2>10. CASE VerifyWrapperStarted(c) BY <2>10 DEF VerifyWrapperStarted
  <2>11. CASE MarkRunning(c)
    <3>1. stamp' \in Stamp BY <2>11 DEF MarkRunning, Stamp, RunStatus
    <3> QED BY <2>11, <3>1, NoStampType DEF MarkRunning, Done
  <2>12. CASE LaunchFails(c)
    <3>1. stamp' \in Stamp
      BY <2>12, NoStampType DEF LaunchFails, Stamp, RunStatus, Terminal
    <3> QED BY <2>12, <3>1, NoStampType DEF LaunchFails, Done
  <2> QED BY <1>2, <2>1, <2>2, <2>3, <2>4, <2>5, <2>6, <2>7, <2>8, <2>9, <2>10,
             <2>11, <2>12 DEF LaunchStep
<1>3. ASSUME NEW c \in Cli, MonitorStep(c) PROVE TypeOK'
  <2> USE DEF MonitorPc
  <2>1. CASE Attach(c)
    <3>1. [mem[c] EXCEPT !.status = "running"] \in Stamp BY DEF Stamp, RunStatus
    <3> QED BY <2>1, <3>1 DEF Attach
  <2>2. CASE AttachRefused(c) BY NoStampType, <2>2 DEF AttachRefused, Done
  <2>3. CASE Tail(c) BY <2>3 DEF Tail
  <2>4. CASE ConnectionLost(c) BY NoStampType, <2>4 DEF ConnectionLost, Done
  <2>5. CASE Pull(c)
    <3> DEFINE found  == remote[mem[c].host].result
               result == IF found = NoResult THEN [id |-> mem[c].id, ok |-> FALSE]
                         ELSE found
               status == IF result.ok THEN "succeeded" ELSE "failed"
    <3>1. mem' = [mem EXCEPT ![c] = [mem[c] EXCEPT !.result = result,
                                                   !.status = status]]
      BY <2>5 DEF Pull
    <3>2. remote[mem[c].host] \in RemoteDir BY <2>5 DEF Pull, Up
    <3>3. result \in Result BY <3>2 DEF RemoteDir, Result, Stamp
    <3>4. [mem[c] EXCEPT !.result = result, !.status = status] \in Stamp
      BY <3>3 DEF Stamp, RunStatus, Terminal
    <3> QED BY <2>5, <3>1, <3>4 DEF Pull
  <2>6. CASE Teardown(c)
    <3>1. [mem[c] EXCEPT !.cleanup_done = TRUE] \in Stamp BY DEF Stamp
    <3> QED BY <2>6, <3>1, CleanupType DEF Teardown
  <2>7. CASE TeardownFails(c) BY <2>7, CleanupType DEF TeardownFails
  <2>8. CASE Persist(c) BY <2>8 DEF Persist
  <2>9. CASE Reread(c) BY NoStampType, <2>9 DEF Reread, Done
  <2>10. CASE Discard(c) BY NoStampType, <2>10 DEF Discard, Done
  <2> QED BY <1>3, <2>1, <2>2, <2>3, <2>4, <2>5, <2>6, <2>7, <2>8, <2>9, <2>10
          DEF MonitorStep
<1>4. ASSUME NEW c \in Cli, AbandonStep(c) PROVE TypeOK'
  <2> USE DEF AbandonPc
  <2>1. CASE AbandonRelease(c) BY <2>1, CleanupType DEF AbandonRelease
  <2>2. CASE AbandonMark(c)
    <3>1. stamp' \in Stamp BY <2>2 DEF AbandonMark, Stamp, RunStatus, Terminal
    <3> QED BY <2>2, <3>1 DEF AbandonMark
  <2>3. CASE AbandonWipe(c) BY NoStampType, <2>3 DEF AbandonWipe, Done
  <2> QED BY <1>4, <2>1, <2>2, <2>3 DEF AbandonStep
<1>5. ASSUME NEW c \in Cli, Interrupt(c) PROVE TypeOK'
  BY <1>5, NoStampType DEF Interrupt, Done
<1>6. ASSUME NEW b \in Job, WrapperStep(b) PROVE TypeOK'
  <2> USE DEF Proceed, At, Stage
  <2>1. CASE WrapperStamps(b)
    <3>1. remote' \in [Host -> RemoteDir] BY <2>1 DEF WrapperStamps, RemoteDir
    <3> QED BY <2>1, <3>1 DEF WrapperStamps, JobState
  <2>2. CASE WrapperClears(b)
    <3>1. slot' \in [Host -> Slot] BY <2>2 DEF WrapperClears, Slot, SlotState
    <3> QED BY <2>2, <3>1 DEF WrapperClears
  <2>3. CASE WrapperLoads(b)
    <3>1. slot' \in [Host -> Slot] BY <2>3 DEF WrapperLoads, Slot, SlotState
    <3> QED BY <2>3, <3>1 DEF WrapperLoads
  <2>4. CASE WrapperDrives(b) BY <2>4 DEF WrapperDrives
  <2>5. ASSUME NEW ok \in BOOLEAN, WrapperExits(b, ok) PROVE TypeOK'
    <3>1. remote' \in [Host -> RemoteDir]
      BY <2>5 DEF WrapperExits, RemoteDir, Result
    <3>2. slot' \in [Host -> Slot] BY <2>5 DEF WrapperExits, Slot, SlotState
    <3> QED BY <2>5, <3>1, <3>2 DEF WrapperExits, JobState
  <2>6. CASE WrapperDies(b) BY <2>6 DEF WrapperDies, JobState
  <2> QED BY <1>6, <2>1, <2>2, <2>3, <2>4, <2>5, <2>6 DEF WrapperStep
<1>7. ASSUME NEW h \in Host, HostStep(h) PROVE TypeOK'
  <2>1. CASE SlotSettles(h)
    <3>1. slot' \in [Host -> Slot]
      BY <2>1 DEF SlotSettles, Slot, SlotState, Cleared
    <3> QED BY <2>1, <3>1 DEF SlotSettles
  <2>2. CASE HostGoesDown(h) \/ OwnerStarts(h)
    BY <2>2 DEF HostGoesDown, GoesDown, OwnerStarts, OwnerStartsIt, KillJobsOn,
       InstState, JobState
  <2> QED BY <1>7, <2>1, <2>2 DEF HostStep
<1>8. CASE UNCHANGED vars BY <1>8 DEF vars
<1> QED BY <1>1, <1>2, <1>3, <1>4, <1>5, <1>6, <1>7, <1>8 DEF Next

\* The state keeps its types: however the commands interleave, no step leaves
\* a stamp, a process, a slot or a machine in a state the code does not have.
THEOREM TypeCorrect == Spec => []TypeOK
  BY TypeInit, TypeStep, PTL DEF Spec
-----------------------------------------------------------------------------
\* Steps

CliStep(c) ==
  Start(c) \/ LaunchStep(c) \/ MonitorStep(c) \/ AbandonStep(c) \/ Interrupt(c)

\* The wrappers, the FPGAs and the machines.
Outside ==
  \/ \E b \in Job : WrapperStep(b)
  \/ \E h \in Host : HostStep(h)
  \/ UNCHANGED vars

LEMMA WhoSteps ==
  ASSUME [Next]_vars
  PROVE  (\E c \in Cli : CliStep(c)) \/ Outside
  BY DEF Next, CliStep, Outside

\* A command touches no other command's memory.
LEMMA OthersKept ==
  ASSUME TypeOK, NEW c \in Cli, CliStep(c), NEW d \in Cli, d # c
  PROVE  mem'[d] = mem[d] /\ pc'[d] = pc[d]
<1> USE DEF TypeOK, Goto, Done
<1>1. CASE Start(c)
  BY <1>1 DEF Start, StartSim, StartMonitor, StartAbandon
<1>2. CASE LaunchStep(c)
  BY <1>2 DEF LaunchStep, Heal, RequestEphemeral, RequestManaged,
     RequestExternal, Remember, Acquired, Setup, SetupFails, WriteStamp,
     LaunchRemoteWrapper, VerifyWrapperStarted, MarkRunning, LaunchFails
<1>3. CASE MonitorStep(c)
  BY <1>3 DEF MonitorStep, Attach, AttachRefused, Tail, ConnectionLost, Pull,
     Teardown, TeardownFails, Persist, Reread, Discard
<1>4. CASE AbandonStep(c)
  BY <1>4 DEF AbandonStep, AbandonRelease, AbandonMark, AbandonWipe
<1>5. CASE Interrupt(c)
  BY <1>5 DEF Interrupt
<1> QED BY <1>1, <1>2, <1>3, <1>4, <1>5 DEF CliStep

\* What is outside touches neither stamp nor commands.
LEMMA OutsideKept ==
  ASSUME Outside
  PROVE  UNCHANGED <<stamp, pc, mem, home>>
  BY DEF Outside, WrapperStep, WrapperStamps, WrapperClears, WrapperLoads,
     WrapperDrives, WrapperExits, WrapperDies, HostStep, HostGoesDown,
     OwnerStarts, SlotSettles, commands, vars

\* What a clean-up may do to a machine: stop it or terminate it for good.
LEMMA CleanupDowns ==
  ASSUME TypeOK, NEW action, NEW g, CleanupRemote(action, g), NEW h \in Host
  PROVE  /\ inst[h] = "terminated" => inst'[h] = "terminated"
         /\ inst'[h] = "absent" => inst[h] = "absent"
<1> USE DEF TypeOK
<1>1. CASE action = "launched" BY <1>1 DEF CleanupRemote
<1>2. CASE action = "started" /\ Up(g) BY <1>2 DEF CleanupRemote, Up
<1>3. CASE action # "launched" /\ ~(action = "started" /\ Up(g))
  BY <1>3 DEF CleanupRemote
<1> QED BY <1>1, <1>2, <1>3

\* A machine is launched once: a terminated one never comes back, and one that
\* exists never becomes absent.
LEMMA LaunchedOnce ==
  ASSUME TypeOK, [Next]_vars, NEW h \in Host
  PROVE  /\ inst[h] = "terminated" => inst'[h] = "terminated"
         /\ inst'[h] = "absent" => inst[h] = "absent"
<1> DEFINE Once == /\ inst[h] = "terminated" => inst'[h] = "terminated"
                   /\ inst'[h] = "absent" => inst[h] = "absent"
<1> USE CleanupDowns DEF TypeOK
<1>1. ASSUME NEW c \in Cli, Start(c) PROVE inst' = inst
  BY <1>1 DEF Start, StartSim, StartMonitor, StartAbandon
<1>2. ASSUME NEW c \in Cli, LaunchStep(c) PROVE Once
  <2>1. CASE RequestEphemeral(c) BY <2>1 DEF RequestEphemeral, LaunchInstance
  <2>2. CASE RequestManaged(c) BY <2>2 DEF RequestManaged, StartOrConnect
  <2>3. CASE SetupFails(c) BY <2>3 DEF SetupFails
  <2> QED
    BY <1>2, <2>1, <2>2, <2>3 DEF LaunchStep, Heal, RequestExternal, Acquired,
       Setup, WriteStamp, LaunchRemoteWrapper, VerifyWrapperStarted,
       MarkRunning, LaunchFails
<1>3. ASSUME NEW c \in Cli, MonitorStep(c) PROVE Once
  <2>1. CASE Teardown(c) BY <2>1 DEF Teardown
  <2>2. CASE TeardownFails(c) BY <2>2 DEF TeardownFails
  <2> QED
    BY <1>3, <2>1, <2>2 DEF MonitorStep, Attach, AttachRefused, Tail,
       ConnectionLost, Pull, Persist, Reread, Discard
<1>4. ASSUME NEW c \in Cli, AbandonStep(c) PROVE Once
  BY <1>4 DEF AbandonStep, AbandonRelease, AbandonMark, AbandonWipe
<1>5. ASSUME NEW c \in Cli, Interrupt(c) PROVE inst' = inst
  BY <1>5 DEF Interrupt
<1>6. ASSUME NEW b \in Job, WrapperStep(b) PROVE inst' = inst
  BY <1>6 DEF WrapperStep, WrapperStamps, WrapperClears, WrapperLoads,
     WrapperDrives, WrapperExits, WrapperDies
<1>7. ASSUME NEW g \in Host, HostStep(g) PROVE Once
  BY <1>7 DEF HostStep, HostGoesDown, GoesDown, OwnerStarts, OwnerStartsIt,
     SlotSettles, Up
<1>8. CASE UNCHANGED vars BY <1>8 DEF vars
<1> QED BY <1>1, <1>2, <1>3, <1>4, <1>5, <1>6, <1>7, <1>8 DEF Next

-----------------------------------------------------------------------------
\* cleanup_done can be trusted

TrustedNext(s) ==
  /\ HostKnown(s)
  /\ s.cleanup_done /\ s.action = "launched" => inst'[s.host] = "terminated"

MarkedNext(c, s) ==
  pc'[c] = "mark" /\ s.action = "launched" => inst'[s.host] = "terminated"

LEMMA TrustedKept ==
  ASSUME TypeOK, [Next]_vars, NEW s, Trusted(s)
  PROVE  TrustedNext(s)
<1>1. s.action = "launched" => s.host \in Host BY DEF Trusted, HostKnown, Host
<1> QED BY <1>1, LaunchedOnce DEF Trusted, TrustedNext

LEMMA NoStampTrusted ==
  Trusted(NoStamp) /\ TrustedNext(NoStamp) /\ NoStamp.action # "launched"
  BY NoneIsNew DEF Trusted, TrustedNext, HostKnown, NoStamp, Host

\* It is enough to look at the stamp and at the process that moved.
LEMMA CleanupOneStep ==
  ASSUME CleanupInv, NEW c \in Cli, CliStep(c),
         TrustedNext(stamp'), TrustedNext(mem'[c]), MarkedNext(c, mem'[c])
  PROVE  CleanupInv'
<1>1. [Next]_vars BY DEF CliStep, Next
<1>2. TypeOK' BY <1>1, TypeStep DEF CleanupInv
<1>3. ASSUME NEW d \in Cli PROVE TrustedNext(mem'[d]) /\ MarkedNext(d, mem'[d])
  <2>1. CASE d = c BY <2>1
  <2>2. CASE d # c
    <3>1. mem'[d] = mem[d] /\ pc'[d] = pc[d]
      BY <2>2, OthersKept DEF CleanupInv
    <3>2. TrustedNext(mem[d]) BY <1>1, TrustedKept DEF CleanupInv
    <3>3. mem[d].action = "launched" => mem[d].host \in Host
      BY <3>2 DEF TrustedNext, HostKnown, Host
    <3> QED BY <1>1, <3>1, <3>2, <3>3, LaunchedOnce DEF CleanupInv, MarkedNext
  <2> QED BY <2>1, <2>2
<1> QED BY <1>2, <1>3 DEF CleanupInv, Trusted, TrustedNext, HostKnown, MarkedNext
LEMMA CleanupStep == CleanupInv /\ [Next]_vars => CleanupInv'
<1> SUFFICES ASSUME CleanupInv, [Next]_vars PROVE CleanupInv'
  OBVIOUS
<1>0. /\ TypeOK
      /\ TrustedNext(stamp)
      /\ \A c \in Cli : TrustedNext(mem[c]) /\ mem[c] \in Stamp
  BY TrustedKept DEF CleanupInv, TypeOK
<1> USE DEF Goto, Done
<1>1. ASSUME NEW c \in Cli, Start(c) PROVE CleanupInv'
  <2> SUFFICES TrustedNext(stamp') /\ TrustedNext(mem'[c]) /\ MarkedNext(c, mem'[c])
    BY <1>1, CleanupOneStep DEF CliStep
  <2> USE <1>0 DEF TypeOK, MarkedNext
  <2>1. CASE StartSim(c) BY <2>1 DEF StartSim
  <2>2. CASE StartMonitor(c) BY <2>2 DEF StartMonitor
  <2>3. CASE StartAbandon(c) BY <2>3 DEF StartAbandon
  <2> QED BY <1>1, <2>1, <2>2, <2>3 DEF Start
<1>2. ASSUME NEW c \in Cli, LaunchStep(c) PROVE CleanupInv'
  <2> SUFFICES TrustedNext(stamp') /\ TrustedNext(mem'[c]) /\ MarkedNext(c, mem'[c])
    BY <1>2, CleanupOneStep DEF CliStep
  <2> USE <1>0 DEF TypeOK, MarkedNext
  <2>1. CASE Heal(c) BY <2>1, NoStampTrusted DEF Heal
  <2>2. CASE RequestEphemeral(c)
    <3> PICK h \in Ephemeral : Remember(c, h, "launched")
      BY <2>2 DEF RequestEphemeral
    <3>1. mem'[c] = [NoStamp EXCEPT !.host = h, !.action = "launched"]
      BY DEF Remember
    <3>2. TrustedNext(mem'[c])
      BY <3>1 DEF NoStamp, TrustedNext, HostKnown
    <3> QED BY <2>2, <3>2 DEF RequestEphemeral
  <2>3. CASE RequestManaged(c)
    <3> PICK h \in Managed, action \in {"started", "connected"} :
          Remember(c, h, action)
      BY <2>3 DEF RequestManaged
    <3>1. mem'[c] = [NoStamp EXCEPT !.host = h, !.action = action]
      BY DEF Remember
    <3>2. TrustedNext(mem'[c])
      BY <3>1, HostKindsDisjoint DEF NoStamp, TrustedNext, HostKnown
    <3> QED BY <2>3, <3>2 DEF RequestManaged
  <2>4. CASE RequestExternal(c)
    <3> PICK h \in External : Remember(c, h, "connected")
      BY <2>4 DEF RequestExternal
    <3>1. mem'[c] = [NoStamp EXCEPT !.host = h, !.action = "connected"]
      BY DEF Remember
    <3>2. TrustedNext(mem'[c])
      BY <3>1, HostKindsDisjoint DEF NoStamp, TrustedNext, HostKnown
    <3> QED BY <2>4, <3>2 DEF RequestExternal
  <2>5. CASE Acquired(c) BY <2>5 DEF Acquired
  <2>6. CASE Setup(c) BY <2>6 DEF Setup
  <2>7. CASE SetupFails(c) BY <2>7, NoStampTrusted DEF SetupFails
  <2>8. CASE WriteStamp(c)
    <3> PICK b \in Job : stamp' = [mem[c] EXCEPT !.id = b, !.status = "launching"]
      BY <2>8 DEF WriteStamp
    <3>1. TrustedNext(stamp') BY DEF TrustedNext, HostKnown, Stamp
    <3> QED BY <2>8, <3>1 DEF WriteStamp
  <2>9. CASE LaunchRemoteWrapper(c) BY <2>9 DEF LaunchRemoteWrapper
  <2>10. CASE VerifyWrapperStarted(c) BY <2>10 DEF VerifyWrapperStarted
  <2>11. CASE MarkRunning(c)
    <3>1. TrustedNext([mem[c] EXCEPT !.status = "running"])
      BY DEF TrustedNext, HostKnown, Stamp
    <3> QED BY <2>11, <3>1, NoStampTrusted DEF MarkRunning
  <2>12. CASE LaunchFails(c)
    <3>1. TrustedNext([stamp EXCEPT !.status = "failed"])
      BY DEF TrustedNext, HostKnown, Stamp
    <3> QED BY <2>12, <3>1, NoStampTrusted DEF LaunchFails
  <2> QED BY <1>2, <2>1, <2>2, <2>3, <2>4, <2>5, <2>6, <2>7, <2>8, <2>9, <2>10,
             <2>11, <2>12 DEF LaunchStep
<1>3. ASSUME NEW c \in Cli, MonitorStep(c) PROVE CleanupInv'
  <2> SUFFICES TrustedNext(stamp') /\ TrustedNext(mem'[c]) /\ MarkedNext(c, mem'[c])
    BY <1>3, CleanupOneStep DEF CliStep
  <2> USE <1>0 DEF TypeOK, MarkedNext
  <2>1. CASE Attach(c)
    <3>1. TrustedNext([mem[c] EXCEPT !.status = "running"])
      BY DEF TrustedNext, HostKnown, Stamp
    <3> QED BY <2>1, <3>1 DEF Attach
  <2>2. CASE AttachRefused(c) BY <2>2, NoStampTrusted DEF AttachRefused
  <2>3. CASE Tail(c) BY <2>3 DEF Tail
  <2>4. CASE ConnectionLost(c) BY <2>4, NoStampTrusted DEF ConnectionLost
  <2>5. CASE Pull(c)
    <3> PICK result, status :
          mem' = [mem EXCEPT ![c] = [mem[c] EXCEPT !.result = result,
                                                   !.status = status]]
      BY <2>5 DEF Pull
    <3>1. TrustedNext(mem'[c]) BY DEF TrustedNext, HostKnown, Stamp
    <3> QED BY <2>5, <3>1 DEF Pull
  <2>6. CASE Teardown(c)
    <3>1. mem'[c] = [mem[c] EXCEPT !.cleanup_done = TRUE]
      BY <2>6 DEF Teardown
    <3>2. CASE mem[c].cleanup_done \/ mem[c].action # "launched"
      <4>1. TrustedNext(mem'[c]) BY <3>1, <3>2 DEF TrustedNext, HostKnown, Stamp
      <4> QED BY <2>6, <4>1 DEF Teardown
    <3>3. CASE ~mem[c].cleanup_done /\ mem[c].action = "launched"
      <4>1. mem[c].host \in Host BY <3>3 DEF TrustedNext, HostKnown, Host
      <4>2. CleanupRemote("launched", mem[c].host)
        BY <2>6, <3>3 DEF Teardown
      <4>3. inst'[mem[c].host] = "terminated"
        BY <4>1, <4>2 DEF CleanupRemote
      <4>4. TrustedNext(mem'[c])
        BY <3>1, <4>3 DEF TrustedNext, HostKnown, Stamp
      <4> QED BY <2>6, <4>4 DEF Teardown
    <3> QED BY <3>2, <3>3
  <2>7. CASE TeardownFails(c) BY <2>7 DEF TeardownFails
  <2>8. CASE Persist(c) BY <2>8 DEF Persist
  <2>9. CASE Reread(c) BY <2>9, NoStampTrusted DEF Reread
  <2>10. CASE Discard(c) BY <2>10, NoStampTrusted DEF Discard
  <2> QED BY <1>3, <2>1, <2>2, <2>3, <2>4, <2>5, <2>6, <2>7, <2>8, <2>9, <2>10
          DEF MonitorStep
<1>4. ASSUME NEW c \in Cli, AbandonStep(c) PROVE CleanupInv'
  <2> SUFFICES TrustedNext(stamp') /\ TrustedNext(mem'[c]) /\ MarkedNext(c, mem'[c])
    BY <1>4, CleanupOneStep DEF CliStep
  <2> USE <1>0 DEF TypeOK, MarkedNext
  <2>1. CASE AbandonRelease(c)
    <3>1. ASSUME mem[c].action = "launched"
          PROVE  inst'[mem[c].host] = "terminated"
      <4>1. mem[c].host \in Host BY <3>1 DEF TrustedNext, HostKnown, Host
      <4> QED BY <2>1, <3>1, <4>1 DEF AbandonRelease, CleanupRemote
    <3> QED BY <2>1, <3>1 DEF AbandonRelease
  <2>2. CASE AbandonMark(c)
    <3>1. mem[c].action = "launched" => inst'[mem[c].host] = "terminated"
      BY <2>2 DEF AbandonMark, CleanupInv
    <3>2. TrustedNext([mem[c] EXCEPT !.status = "abandoned", !.cleanup_done = TRUE])
      BY <3>1 DEF TrustedNext, HostKnown, Stamp
    <3> QED BY <2>2, <3>2 DEF AbandonMark
  <2>3. CASE AbandonWipe(c) BY <2>3, NoStampTrusted DEF AbandonWipe
  <2> QED BY <1>4, <2>1, <2>2, <2>3 DEF AbandonStep
<1>5. ASSUME NEW c \in Cli, Interrupt(c) PROVE CleanupInv'
  <2>1. TrustedNext(stamp') /\ TrustedNext(mem'[c]) /\ MarkedNext(c, mem'[c])
    BY <1>0, <1>5, NoStampTrusted DEF Interrupt, MarkedNext, TypeOK
  <2> QED BY <1>5, <2>1, CleanupOneStep DEF CliStep
<1>6. CASE Outside
  <2>1. UNCHANGED <<stamp, pc, mem>> BY <1>6, OutsideKept
  <2>2. TypeOK' BY <1>0, TypeStep
  <2>3. Trusted(stamp)' /\ \A c \in Cli : Trusted(mem[c])'
    BY <1>0, <2>1 DEF Trusted, TrustedNext, HostKnown
  <2>4. ASSUME NEW c \in Cli, pc[c] = "mark", mem[c].action = "launched"
        PROVE  inst'[mem[c].host] = "terminated"
    <3>1. mem[c].host \in Host BY <1>0, <2>4 DEF TrustedNext, HostKnown, Host
    <3> QED BY <1>0, <2>4, <3>1, LaunchedOnce DEF CleanupInv
  <2> QED BY <2>1, <2>2, <2>3, <2>4 DEF CleanupInv
<1> QED BY <1>1, <1>2, <1>3, <1>4, <1>5, <1>6, WhoSteps DEF CliStep

LEMMA CleanupInit == Init => CleanupInv
<1> SUFFICES ASSUME Init PROVE CleanupInv
  OBVIOUS
<1>1. stamp = NoStamp /\ \A c \in Cli : mem[c] = NoStamp /\ pc[c] = "idle"
  BY DEF Init
<1> QED BY <1>1, TypeInit, NoStampTrusted DEF CleanupInv

\* Once a copy of the stamp on disk says that the machine it launched has been
\* released, the machine is gone, whatever number of commands run, are
\* interrupted, fail to release or overwrite each other's stamp: the guard and
\* the monitor may delete the stamp on the strength of it.
THEOREM CleanupTrustedAlways == Spec => []CleanupTrusted
<1>1. CleanupInv => CleanupTrusted BY DEF CleanupInv, Trusted, CleanupTrusted
<1> QED BY <1>1, CleanupInit, CleanupStep, PTL DEF Spec
-----------------------------------------------------------------------------
\* A launched machine belongs to one launcher, then to one run

\* Only two steps give a launched machine to anyone: the launch itself, and
\* the draw of the run's id.
LEMMA NoNewClaim ==
  ASSUME TypeOK, [Next]_vars,
         \A c \in Cli : ~RequestEphemeral(c) /\ ~WriteStamp(c)
  PROVE  /\ home' = home
         /\ \A h \in Ephemeral, c \in Cli : Claims(c, h)' => Claims(c, h)
<1> DEFINE NoNew(c) == \A h \in Ephemeral : Claims(c, h)' => Claims(c, h)
<1> USE DEF TypeOK, Goto, Done, Claims
<1>1. ASSUME NEW c \in Cli, CliStep(c) PROVE home' = home /\ NoNew(c)
  <2>1. CASE Start(c)
    BY <2>1 DEF Start, StartSim, StartMonitor, StartAbandon
  <2>2. CASE LaunchStep(c)
    <3>1. CASE RequestManaged(c)
      <4> PICK h \in Managed, action \in {"started", "connected"} :
            Remember(c, h, action)
        BY <3>1 DEF RequestManaged
      <4>1. mem'[c].host = h BY DEF Remember, NoStamp
      <4> QED BY <3>1, <4>1, HostKindsDisjoint DEF RequestManaged
    <3>2. CASE RequestExternal(c)
      <4> PICK h \in External : Remember(c, h, "connected")
        BY <3>2 DEF RequestExternal
      <4>1. mem'[c].host = h BY DEF Remember, NoStamp
      <4> QED BY <3>2, <4>1, HostKindsDisjoint DEF RequestExternal
    <3> QED
      BY <2>2, <3>1, <3>2 DEF LaunchStep, Heal, Acquired, Setup, SetupFails,
         LaunchRemoteWrapper, VerifyWrapperStarted, MarkRunning, LaunchFails
  <2>3. CASE MonitorStep(c)
    BY <2>3 DEF MonitorStep, Attach, AttachRefused, Tail, ConnectionLost, Pull,
       Teardown, TeardownFails, Persist, Reread, Discard
  <2>4. CASE AbandonStep(c)
    BY <2>4 DEF AbandonStep, AbandonRelease, AbandonMark, AbandonWipe
  <2>5. CASE Interrupt(c) BY <2>5 DEF Interrupt
  <2> QED BY <1>1, <2>1, <2>2, <2>3, <2>4, <2>5 DEF CliStep
<1>2. CASE \E c \in Cli : CliStep(c)
  <2> PICK c \in Cli : CliStep(c) BY <1>2
  <2>1. \A d \in Cli : d # c => mem'[d] = mem[d] /\ pc'[d] = pc[d]
    BY OthersKept
  <2> QED BY <1>1, <2>1
<1>3. CASE Outside BY <1>3, OutsideKept
<1> QED BY <1>2, <1>3, WhoSteps

LEMMA HostsStep == TypeOK /\ HostsAreOwn /\ [Next]_vars => HostsAreOwn'
<1> SUFFICES ASSUME TypeOK, HostsAreOwn, [Next]_vars PROVE HostsAreOwn'
  OBVIOUS
<1>0. \A h \in Ephemeral : inst'[h] = "absent" => inst[h] = "absent"
  BY LaunchedOnce DEF Host
<1>1. ASSUME NEW c \in Cli, RequestEphemeral(c) PROVE HostsAreOwn'
  <2> PICK h \in Ephemeral : LaunchInstance(h) /\ Remember(c, h, "launched")
    BY <1>1 DEF RequestEphemeral
  <2>1. mem'[c].host = h BY DEF Remember, NoStamp, TypeOK
  <2>2. \A d \in Cli : d # c => mem'[d] = mem[d] /\ pc'[d] = pc[d]
    BY <1>1, OthersKept DEF CliStep, LaunchStep
  <2>3. Free(h) BY DEF HostsAreOwn, LaunchInstance
  <2>4. inst'[h] = "held" BY DEF LaunchInstance, TypeOK, Host
  <2>5. home' = home BY <1>1 DEF RequestEphemeral
  <2>6. \A g \in Ephemeral, d \in Cli :
          Claims(d, g)' => Claims(d, g) \/ (d = c /\ g = h)
    BY <2>1, <2>2 DEF Claims
  <2> QED BY <1>0, <2>3, <2>4, <2>5, <2>6 DEF HostsAreOwn, Free
<1>2. ASSUME NEW c \in Cli, WriteStamp(c) PROVE HostsAreOwn'
  <2> DEFINE h == mem[c].host
  <2> PICK b \in Job : home' = [home EXCEPT ![b] = h]
    BY <1>2 DEF WriteStamp
  <2>1. Claims(c, h) BY <1>2 DEF WriteStamp, Claims
  <2>2. \A d \in Cli : d # c => mem'[d] = mem[d] /\ pc'[d] = pc[d]
    BY <1>2, OthersKept DEF CliStep, LaunchStep
  <2>3. pc'[c] = "launch" BY <1>2 DEF WriteStamp, Goto, TypeOK
  <2>4. \A g \in Ephemeral, d \in Cli : Claims(d, g)' => Claims(d, g) /\ d # c
    BY <2>2, <2>3 DEF Claims
  <2>5. \A a \in Job : home'[a] = IF a = b THEN h ELSE home[a]
    BY DEF TypeOK
  <2>6. \A g \in Ephemeral, d \in Cli, a \in Job : Claims(d, g)' => home'[a] # g
    BY <2>1, <2>4, <2>5 DEF HostsAreOwn
  <2>7. \A a, e \in Job : home'[a] = home'[e] /\ home'[a] \in Ephemeral => a = e
    BY <2>1, <2>5 DEF HostsAreOwn
  <2>8. \A g \in Ephemeral : inst'[g] = "absent" => Free(g)'
    BY <1>0, <2>1, <2>4, <2>5 DEF HostsAreOwn, Free
  <2> QED BY <2>4, <2>6, <2>7, <2>8 DEF HostsAreOwn
<1>3. CASE \A c \in Cli : ~RequestEphemeral(c) /\ ~WriteStamp(c)
  BY <1>0, <1>3, NoNewClaim DEF HostsAreOwn, Free
<1> QED BY <1>1, <1>2, <1>3
\* A clean-up starts no wrapper.
LEMMA CleanupKills ==
  ASSUME TypeOK, NEW action, NEW g, CleanupRemote(action, g), NEW b \in Job
  PROVE  job'[b] = "running" => job[b] = "running"
<1>1. CASE action = "launched" BY <1>1 DEF CleanupRemote, KillJobsOn
<1>2. CASE action = "started" /\ Up(g) BY <1>2 DEF CleanupRemote, KillJobsOn
<1>3. CASE action # "launched" /\ ~(action = "started" /\ Up(g))
  BY <1>3 DEF CleanupRemote
<1> QED BY <1>1, <1>2, <1>3

\* No command touches an FPGA, or moves a wrapper that runs.
LEMMA CommandsKeepLoad ==
  ASSUME TypeOK, NEW c \in Cli, CliStep(c)
  PROVE  /\ UNCHANGED <<stage, slot>>
         /\ \A b \in Job : job'[b] = "running" =>
              job[b] = "running" /\ home'[b] = home[b]
<1> USE CleanupKills DEF TypeOK, fpga
<1>1. CASE Start(c)
  BY <1>1 DEF Start, StartSim, StartMonitor, StartAbandon
<1>2. CASE LaunchStep(c)
  <2>1. CASE SetupFails(c) BY <2>1 DEF SetupFails
  <2>2. CASE WriteStamp(c) BY <2>2 DEF WriteStamp
  <2>3. CASE LaunchRemoteWrapper(c) BY <2>3 DEF LaunchRemoteWrapper
  <2> QED
    BY <1>2, <2>1, <2>2, <2>3 DEF LaunchStep, Heal, RequestEphemeral,
       RequestManaged, RequestExternal, Acquired, Setup, VerifyWrapperStarted,
       MarkRunning, LaunchFails
<1>3. CASE MonitorStep(c)
  <2>1. CASE Teardown(c) BY <2>1 DEF Teardown
  <2>2. CASE TeardownFails(c) BY <2>2 DEF TeardownFails
  <2> QED
    BY <1>3, <2>1, <2>2 DEF MonitorStep, Attach, AttachRefused, Tail,
       ConnectionLost, Pull, Persist, Reread, Discard
<1>4. CASE AbandonStep(c)
  BY <1>4 DEF AbandonStep, AbandonRelease, AbandonMark, AbandonWipe
<1>5. CASE Interrupt(c) BY <1>5 DEF Interrupt
<1> QED BY <1>1, <1>2, <1>3, <1>4, <1>5 DEF CliStep

\* A wrapper changes its own slot and its own stage, and what it waits for is
\* what it asked for.
LEMMA WrapperLoad ==
  ASSUME TypeOK, HostsAreOwn, LoadIsOwn, NEW b \in Job, WrapperStep(b)
  PROVE  LoadIsOwn'
<1> USE DEF TypeOK, Proceed, At
<1>0. \A a \in Job : home[a] = home[b] /\ home[a] \in Ephemeral => a = b
  BY DEF HostsAreOwn
<1>1. CASE WrapperStamps(b) BY <1>1 DEF WrapperStamps, LoadIsOwn
<1>2. CASE WrapperClears(b) BY <1>0, <1>2 DEF WrapperClears, LoadIsOwn
<1>3. CASE WrapperLoads(b)
  BY <1>0, <1>3 DEF WrapperLoads, LoadIsOwn, Host
<1>4. CASE WrapperDrives(b)
  <2>1. home[b] \in Ephemeral => slot[home[b]] = [state |-> "loaded", image |-> b]
    BY <1>4 DEF WrapperDrives, LoadIsOwn, Slot, Host
  <2> QED BY <1>4, <2>1 DEF WrapperDrives, LoadIsOwn
<1>5. ASSUME NEW ok \in BOOLEAN, WrapperExits(b, ok) PROVE LoadIsOwn'
  BY <1>0, <1>5 DEF WrapperExits, LoadIsOwn
<1>6. CASE WrapperDies(b) BY <1>6 DEF WrapperDies, LoadIsOwn, fpga
<1> QED BY <1>1, <1>2, <1>3, <1>4, <1>5, <1>6 DEF WrapperStep

LEMMA SlotStep == SlotInv /\ [Next]_vars => SlotInv'
<1> SUFFICES ASSUME SlotInv, [Next]_vars PROVE SlotInv'
  OBVIOUS
<1>0. TypeOK /\ HostsAreOwn /\ LoadIsOwn BY DEF SlotInv
<1> SUFFICES LoadIsOwn' BY <1>0, TypeStep, HostsStep DEF SlotInv
<1>1. ASSUME NEW c \in Cli, CliStep(c) PROVE LoadIsOwn'
  BY <1>0, <1>1, CommandsKeepLoad DEF LoadIsOwn, At
<1>2. ASSUME NEW b \in Job, WrapperStep(b) PROVE LoadIsOwn'
  BY <1>0, <1>2, WrapperLoad
<1>3. ASSUME NEW h \in Host, HostStep(h) PROVE LoadIsOwn'
  <2> USE <1>0 DEF TypeOK
  <2>1. CASE HostGoesDown(h)
    BY <2>1 DEF HostGoesDown, GoesDown, KillJobsOn, LoadIsOwn, At, fpga
  <2>2. CASE OwnerStarts(h) BY <2>2 DEF OwnerStarts, LoadIsOwn, At, fpga
  <2>3. CASE SlotSettles(h)
    <3>1. \A b \in Job : At(b, "agfi_load")' => At(b, "agfi_load")
      BY <2>3 DEF SlotSettles, At
    <3>2. \A b \in Job : At(b, "driver")' => At(b, "driver")
      BY <2>3 DEF SlotSettles, At
    <3>3. home' = home BY <2>3 DEF SlotSettles
    <3>4. \A g \in Host : slot[g].state \in {"loading", "loaded"} =>
            slot'[g].state \in {"loading", "loaded"} /\ slot'[g].image = slot[g].image
      BY <2>3 DEF SlotSettles, Slot
    <3>5. \A g \in Host : slot[g].state = "loaded" => slot'[g] = slot[g]
      BY <2>3 DEF SlotSettles
    <3> QED BY <3>1, <3>2, <3>3, <3>4, <3>5 DEF LoadIsOwn, Host
  <2> QED BY <1>3, <2>1, <2>2, <2>3 DEF HostStep
<1>4. CASE UNCHANGED vars BY <1>0, <1>4 DEF vars, LoadIsOwn, At
<1> QED BY <1>1, <1>2, <1>3, <1>4, WhoSteps DEF Outside

LEMMA SlotInit == Init => SlotInv
<1> SUFFICES ASSUME Init PROVE SlotInv
  OBVIOUS
<1>1. \A h \in Host, c \in Cli : ~Claims(c, h) BY DEF Init, Claims
<1>2. \A b \in Job : home[b] \notin Host /\ job[b] = "unused"
  BY NoneIsNew DEF Init, HostsInit
<1>3. HostsAreOwn BY <1>1, <1>2 DEF HostsAreOwn, Free, Host
<1>4. LoadIsOwn BY <1>2 DEF LoadIsOwn, At
<1> QED BY <1>3, <1>4, TypeInit DEF SlotInv

\* As long as a driver runs on a launched machine, the FPGA holds the image
\* that its own wrapper loaded, to the end: no other command, run or machine
\* comes between the load and the driver.
THEOREM SlotIsOwnAlways == Spec => []SlotIsOwn
<1>1. SlotInv => SlotIsOwn BY DEF SlotInv, LoadIsOwn, SlotIsOwn
<1> QED BY <1>1, SlotInit, SlotStep, PTL DEF Spec

-----------------------------------------------------------------------------
(***************************************************************************)
(* A machine that fslab launched serves one run.  So the result that a     *)
(* monitor finds there is its own run's, for any number of processes, runs *)
(* and hosts: success is never reported for another run's driver, and no   *)
(* machine is released under a driver that still runs on it.               *)
(***************************************************************************)

\* Which step changes what

CleanupOnly ==
  \A b \in Job : job'[b] # job[b] => Live(b) /\ job'[b] = "killed"

LEMMA CleanupKillsOnly ==
  ASSUME TypeOK, NEW action, NEW h, CleanupRemote(action, h)
  PROVE  CleanupOnly
<1> USE DEF TypeOK, CleanupOnly, Live
<1>1. CASE action = "launched" BY <1>1 DEF CleanupRemote, KillJobsOn
<1>2. CASE action = "started" /\ Up(h) BY <1>2 DEF CleanupRemote, KillJobsOn
<1>3. CASE action # "launched" /\ ~(action = "started" /\ Up(h))
  BY <1>3 DEF CleanupRemote
<1> QED BY <1>1, <1>2, <1>3

\* An id is drawn by one step and launched by another; a wrapper starts and
\* exits by steps of its own; everything else only kills.
LEMMA JobsChange ==
  ASSUME TypeOK, [Next]_vars
  PROVE  \/ CleanupOnly
         \/ \E c \in Cli : WriteStamp(c) \/ LaunchRemoteWrapper(c)
         \/ \E b \in Job : \/ WrapperStamps(b)
                           \/ \E ok \in BOOLEAN : WrapperExits(b, ok)
<1>0. job' = job => CleanupOnly BY DEF CleanupOnly
<1> USE <1>0, CleanupKillsOnly
<1>1. ASSUME NEW c \in Cli, CliStep(c), ~WriteStamp(c), ~LaunchRemoteWrapper(c)
      PROVE  CleanupOnly
  <2>1. CASE Start(c)
    BY <2>1 DEF Start, StartSim, StartMonitor, StartAbandon
  <2>2. CASE LaunchStep(c)
    BY <1>1, <2>2 DEF LaunchStep, Heal, RequestEphemeral, RequestManaged,
       RequestExternal, Acquired, Setup, SetupFails, VerifyWrapperStarted,
       MarkRunning, LaunchFails
  <2>3. CASE MonitorStep(c)
    <3>1. CASE Teardown(c) BY <3>1 DEF Teardown
    <3>2. CASE TeardownFails(c) BY <3>2 DEF TeardownFails
    <3> QED
      BY <2>3, <3>1, <3>2 DEF MonitorStep, Attach, AttachRefused, Tail,
         ConnectionLost, Pull, Persist, Reread, Discard
  <2>4. CASE AbandonStep(c)
    BY <2>4 DEF AbandonStep, AbandonRelease, AbandonMark, AbandonWipe
  <2>5. CASE Interrupt(c) BY <2>5 DEF Interrupt
  <2> QED BY <1>1, <2>1, <2>2, <2>3, <2>4, <2>5 DEF CliStep
<1>2. ASSUME NEW b \in Job, WrapperStep(b)
      PROVE  \/ CleanupOnly \/ WrapperStamps(b)
             \/ \E ok \in BOOLEAN : WrapperExits(b, ok)
  <2>1. WrapperDies(b) => CleanupOnly
    BY DEF WrapperDies, CleanupOnly, TypeOK
  <2> QED BY <1>2, <2>1 DEF WrapperStep, WrapperClears, WrapperLoads, WrapperDrives
<1>3. ASSUME NEW h \in Host, HostStep(h) PROVE CleanupOnly
  BY <1>3 DEF HostStep, HostGoesDown, GoesDown, OwnerStarts, OwnerStartsIt,
     SlotSettles, KillJobsOn, CleanupOnly, TypeOK
<1>4. CASE UNCHANGED vars BY <1>4 DEF vars
<1> QED BY <1>1, <1>2, <1>3, <1>4, WhoSteps DEF Outside

LEMMA HomesChange ==
  ASSUME [Next]_vars
  PROVE  home' = home \/ \E c \in Cli : WriteStamp(c)
<1>1. ASSUME NEW c \in Cli, CliStep(c), ~WriteStamp(c) PROVE home' = home
  BY <1>1 DEF CliStep, Start, StartSim, StartMonitor, StartAbandon, LaunchStep,
     Heal, RequestEphemeral, RequestManaged, RequestExternal, Acquired, Setup,
     SetupFails, LaunchRemoteWrapper, VerifyWrapperStarted, MarkRunning,
     LaunchFails, MonitorStep, Attach, AttachRefused, Tail, ConnectionLost, Pull,
     Teardown, TeardownFails, Persist, Reread, Discard, AbandonStep,
     AbandonRelease, AbandonMark, AbandonWipe, Interrupt
<1>2. CASE Outside BY <1>2, OutsideKept
<1> QED BY <1>1, <1>2, WhoSteps

LEMMA RemotesChange ==
  ASSUME [Next]_vars
  PROVE  \/ remote' = remote
         \/ \E c \in Cli : Setup(c)
         \/ \E b \in Job : \/ WrapperStamps(b)
                           \/ \E ok \in BOOLEAN : WrapperExits(b, ok)
<1>1. ASSUME NEW c \in Cli, CliStep(c), ~Setup(c) PROVE remote' = remote
  BY <1>1 DEF CliStep, Start, StartSim, StartMonitor, StartAbandon, LaunchStep,
     Heal, RequestEphemeral, RequestManaged, RequestExternal, Acquired,
     SetupFails, WriteStamp, LaunchRemoteWrapper, VerifyWrapperStarted,
     MarkRunning, LaunchFails, MonitorStep, Attach, AttachRefused, Tail,
     ConnectionLost, Pull, Teardown, TeardownFails, Persist, Reread, Discard,
     AbandonStep, AbandonRelease, AbandonMark, AbandonWipe, Interrupt
<1>2. ASSUME NEW b \in Job, WrapperStep(b)
      PROVE  \/ remote' = remote \/ WrapperStamps(b)
             \/ \E ok \in BOOLEAN : WrapperExits(b, ok)
  BY <1>2 DEF WrapperStep, WrapperClears, WrapperLoads, WrapperDrives, WrapperDies
<1>3. ASSUME NEW h \in Host, HostStep(h) PROVE remote' = remote
  BY <1>3 DEF HostStep, HostGoesDown, OwnerStarts, SlotSettles
<1>4. CASE UNCHANGED vars BY <1>4 DEF vars
<1> QED BY <1>1, <1>2, <1>3, <1>4, WhoSteps DEF Outside

-----------------------------------------------------------------------------
\* What never changes back

LEMMA Copies ==
  ASSUME OwnInv
  PROVE  /\ TypeOK /\ stamp \in Stamp
         /\ \A c \in Cli : mem[c] \in Stamp
         /\ Trusted(stamp) /\ \A c \in Cli : Trusted(mem[c])
  BY DEF OwnInv, CleanupInv, TypeOK

\* A wrapper that has exited stays so, an id once drawn is never free again,
\* and only its own launcher launches it.
LEMMA JobsOneWay ==
  ASSUME OwnInv, [Next]_vars, NEW b \in Job
  PROVE  /\ job[b] = "exited" => job'[b] = "exited"
         /\ job'[b] = "unused" => job[b] = "unused"
         /\ job[b] = "drawn" /\ job'[b] # "drawn" =>
              \E c \in Cli : LaunchRemoteWrapper(c) /\ mem[c].id = b
<1> USE Copies DEF TypeOK
<1>1. CASE CleanupOnly BY <1>1 DEF CleanupOnly, Live
<1>2. ASSUME NEW c \in Cli, WriteStamp(c)
      PROVE  job'[b] = job[b] \/ (job[b] = "unused" /\ job'[b] = "drawn")
  BY <1>2 DEF WriteStamp
<1>3. ASSUME NEW c \in Cli, LaunchRemoteWrapper(c)
      PROVE  IF mem[c].id = b THEN job[b] = "drawn" /\ job'[b] = "starting"
             ELSE job'[b] = job[b]
  <2>1. job[mem[c].id] = "drawn"
    BY <1>3 DEF LaunchRemoteWrapper, OwnInv, IdsAreOwn
  <2> QED BY <1>3, <2>1 DEF LaunchRemoteWrapper
<1>4. ASSUME NEW a \in Job, WrapperStamps(a)
      PROVE  job'[b] = job[b] \/ (job[b] = "starting" /\ job'[b] = "running")
  BY <1>4 DEF WrapperStamps
<1>5. ASSUME NEW a \in Job, NEW ok \in BOOLEAN, WrapperExits(a, ok)
      PROVE  job'[b] = job[b] \/ (job[b] = "running" /\ job'[b] = "exited")
  BY <1>5 DEF WrapperExits
<1> QED BY <1>1, <1>2, <1>3, <1>4, <1>5, JobsChange

\* A run is sent to one machine and never to another.
LEMMA HomeStays ==
  ASSUME OwnInv, [Next]_vars, NEW b \in Job, home[b] # None
  PROVE  home'[b] = home[b]
<1>1. ASSUME NEW c \in Cli, WriteStamp(c) PROVE home'[b] = home[b]
  <2> PICK a \in Job : /\ job[a] = "unused"
                       /\ home' = [home EXCEPT ![a] = mem[c].host]
    BY <1>1 DEF WriteStamp
  <2>1. home[a] = None BY DEF OwnInv, IdsAreOwn
  <2> QED BY <2>1, Copies DEF TypeOK
<1> QED BY <1>1, HomesChange

-----------------------------------------------------------------------------
\* What a copy of the stamp says of its run stays right

AtHomeNext(s) == s.id # None /\ s.action = "launched" => home'[s.id] = s.host

ReportedNext(s) ==
  s.action = "launched" /\ s.status = "succeeded" =>
    /\ s.result = [id |-> s.id, ok |-> TRUE]
    /\ s.id # None /\ job'[s.id] = "exited"

OwnNext(s) == AtHomeNext(s) /\ ReportedNext(s)

SettledNext(c, s) ==
  s.action = "launched" =>
    /\ pc'[c] = "pull" => remote'[s.host].result # NoResult
    /\ pc'[c] = "teardown" => job'[s.id] = "exited"

LEMMA OwnKept ==
  ASSUME OwnInv, [Next]_vars, NEW s \in Stamp, HostKnown(s), AtHome(s), Reported(s)
  PROVE  OwnNext(s)
<1>1. s.id # None => s.id \in Job BY DEF Stamp
<1>2. AtHomeNext(s)
  <2> SUFFICES ASSUME s.id # None, s.action = "launched"
               PROVE  home'[s.id] = s.host
    BY DEF AtHomeNext
  <2>1. home[s.id] = s.host /\ s.host # None
    BY NoneIsNew DEF AtHome, HostKnown, Host
  <2> QED BY <1>1, <2>1, HomeStays
<1>3. ReportedNext(s) BY <1>1, JobsOneWay DEF Reported, ReportedNext
<1> QED BY <1>2, <1>3 DEF OwnNext

\* A result on a launched machine is there until the machine is gone.
LEMMA ResultStays ==
  ASSUME OwnInv, [Next]_vars, NEW h \in Ephemeral, NEW b \in Job, home[b] = h,
         remote[h].result # NoResult
  PROVE  remote'[h].result # NoResult
<1> USE Copies DEF TypeOK, RemoteDir, Host
<1>1. ASSUME NEW c \in Cli, Setup(c) PROVE remote'[h] = remote[h]
  <2>1. mem[c].host # h
    BY <1>1 DEF Setup, OwnInv, HostsAreOwn, Claims
  <2> QED BY <1>1, <2>1 DEF Setup
<1>2. ASSUME NEW a \in Job, WrapperStamps(a)
      PROVE  remote'[h].result = remote[h].result
  BY <1>2 DEF WrapperStamps
<1>3. ASSUME NEW a \in Job, NEW ok \in BOOLEAN, WrapperExits(a, ok)
      PROVE  remote'[h].result # NoResult
  <2>1. [id |-> a, ok |-> ok] # NoResult BY NoneIsNew DEF NoResult
  <2> QED BY <1>3, <2>1 DEF WrapperExits
<1> QED BY <1>1, <1>2, <1>3, RemotesChange

LEMMA WrittenStays ==
  ASSUME OwnInv, [Next]_vars, NEW h \in Ephemeral
  PROVE  WrittenAt(h)'
<1> SUFFICES ASSUME remote'[h].result # NoResult
             PROVE  LET b == remote'[h].result.id
                    IN  b # None /\ home'[b] = h /\ job'[b] = "exited"
  BY DEF WrittenAt
<1> USE Copies DEF TypeOK, RemoteDir, Host
<1>0. h # None BY NoneIsNew
<1>1. CASE remote'[h].result = remote[h].result
  <2> DEFINE b == remote[h].result.id
  <2>1. b # None /\ home[b] = h /\ job[b] = "exited"
    BY <1>1 DEF OwnInv, ResultsAreOwn, WrittenAt
  <2>2. b \in Job BY <2>1 DEF Result
  <2> QED BY <1>0, <1>1, <2>1, <2>2, HomeStays, JobsOneWay
<1>2. ASSUME NEW c \in Cli, Setup(c) PROVE remote'[h] = remote[h]
  <2>1. CASE remote' = remote BY <2>1
  <2>2. CASE remote' = [remote EXCEPT ![mem[c].host] = EmptyDir]
    <3>1. mem[c].host # h BY <2>2 DEF EmptyDir
    <3> QED BY <2>2, <3>1
  <2> QED BY <1>2, <2>1, <2>2 DEF Setup
<1>3. ASSUME NEW a \in Job, WrapperStamps(a)
      PROVE  remote'[h].result = remote[h].result
  BY <1>3 DEF WrapperStamps
<1>4. ASSUME NEW a \in Job, NEW ok \in BOOLEAN, WrapperExits(a, ok)
      PROVE  \/ remote'[h].result = remote[h].result
             \/ /\ remote'[h].result.id = a /\ a # None
                /\ home'[a] = h /\ job'[a] = "exited"
  BY <1>4, NoneIsNew DEF WrapperExits
<1> QED BY <1>1, <1>2, <1>3, <1>4, RemotesChange

LEMMA SettledKept ==
  ASSUME OwnInv, [Next]_vars, NEW d \in Cli, pc'[d] = pc[d]
  PROVE  SettledNext(d, mem[d])
<1> SUFFICES ASSUME mem[d].action = "launched" PROVE SettledNext(d, mem[d])
  BY DEF SettledNext
<1>1. /\ mem[d] \in Stamp /\ mem[d].host \in Ephemeral /\ Settled(d)
      /\ AtHome(mem[d])
      /\ pc[d] \in WithId => mem[d].id # None
  BY Copies DEF Trusted, HostKnown, OwnInv, IdsAreOwn, ResultsAreOwn
<1>2. pc[d] \in MonitorPc => mem[d].id \in Job /\ home[mem[d].id] = mem[d].host
  BY <1>1 DEF WithId, AtHome, Stamp
<1>3. pc[d] = "pull" => remote'[mem[d].host].result # NoResult
  BY <1>1, <1>2, ResultStays DEF MonitorPc, Settled
<1>4. pc[d] = "teardown" => job'[mem[d].id] = "exited"
  BY <1>1, <1>2, JobsOneWay DEF MonitorPc, Settled
<1> QED BY <1>1, <1>3, <1>4 DEF Settled, SettledNext
-----------------------------------------------------------------------------
\* One step, looked at where it acts

LEMMA FreeIds ==
  ASSUME OwnInv, [Next]_vars, NEW b \in Job, job'[b] = "unused"
  PROVE  home'[b] = None
<1> USE Copies DEF TypeOK
<1>1. job[b] = "unused" /\ home[b] = None
  BY JobsOneWay DEF OwnInv, IdsAreOwn
<1>2. ASSUME NEW c \in Cli, WriteStamp(c) PROVE home'[b] = None
  <2> PICK a \in Job : /\ job' = [job EXCEPT ![a] = "drawn"]
                       /\ home' = [home EXCEPT ![a] = mem[c].host]
    BY <1>2 DEF WriteStamp
  <2> QED BY <1>1
<1> QED BY <1>1, <1>2, HomesChange

\* Only WriteStamp leads to the launch of a wrapper.
LEMMA LaunchEntered ==
  ASSUME TypeOK, NEW c \in Cli, CliStep(c), pc'[c] = "launch"
  PROVE  WriteStamp(c)
<1> USE DEF TypeOK, Goto, Done
<1>1. CASE Start(c)
  BY <1>1 DEF Start, StartSim, StartMonitor, StartAbandon
<1>2. CASE LaunchStep(c)
  BY <1>2 DEF LaunchStep, Heal, RequestEphemeral, RequestManaged,
     RequestExternal, Acquired, Setup, SetupFails, LaunchRemoteWrapper,
     VerifyWrapperStarted, MarkRunning, LaunchFails
<1>3. CASE MonitorStep(c)
  BY <1>3 DEF MonitorStep, Attach, AttachRefused, Tail, ConnectionLost, Pull,
     Teardown, TeardownFails, Persist, Reread, Discard
<1>4. CASE AbandonStep(c)
  BY <1>4 DEF AbandonStep, AbandonRelease, AbandonMark, AbandonWipe
<1>5. CASE Interrupt(c) BY <1>5 DEF Interrupt
<1> QED BY <1>1, <1>2, <1>3, <1>4, <1>5 DEF CliStep

\* Ids stay distinct while their wrappers wait to be launched.
LEMMA LaunchersKept ==
  ASSUME OwnInv, [Next]_vars
  PROVE  /\ \A c \in Cli : pc'[c] = "launch" => job'[mem'[c].id] = "drawn"
         /\ \A c, d \in Cli : pc'[c] = "launch" /\ pc'[d] = "launch"
                                /\ mem'[c].id = mem'[d].id => c = d
<1> USE Copies DEF TypeOK
<1>0. /\ \A c \in Cli : pc[c] = "launch" => /\ job[mem[c].id] = "drawn"
                                            /\ mem[c].id \in Job
      /\ \A c, d \in Cli : pc[c] = "launch" /\ pc[d] = "launch"
                             /\ mem[c].id = mem[d].id => c = d
  BY DEF OwnInv, IdsAreOwn, WithId, Stamp
<1>1. ASSUME NEW d \in Cli, pc[d] = "launch", pc'[d] = "launch", mem'[d] = mem[d]
      PROVE  job'[mem'[d].id] = "drawn"
  <2>1. ASSUME NEW c \in Cli, LaunchRemoteWrapper(c) PROVE mem[c].id # mem[d].id
    <3>1. pc[c] = "launch" /\ pc'[c] = "verify"
      BY <2>1 DEF LaunchRemoteWrapper, Goto
    <3> QED BY <1>0, <1>1, <3>1
  <2> QED BY <1>0, <1>1, <2>1, JobsOneWay
<1>2. CASE UNCHANGED <<pc, mem>> BY <1>0, <1>1, <1>2
<1>3. ASSUME NEW c \in Cli, CliStep(c)
      PROVE  /\ \A d \in Cli : pc'[d] = "launch" => job'[mem'[d].id] = "drawn"
             /\ \A d, e \in Cli : pc'[d] = "launch" /\ pc'[e] = "launch"
                                    /\ mem'[d].id = mem'[e].id => d = e
  <2>1. \A d \in Cli : d # c => pc'[d] = pc[d] /\ mem'[d] = mem[d]
    BY <1>3, OthersKept
  <2>2. CASE pc'[c] # "launch" BY <1>0, <1>1, <2>1, <2>2
  <2>3. CASE pc'[c] = "launch"
    <3> PICK b \in Job : /\ job[b] = "unused"
                         /\ job' = [job EXCEPT ![b] = "drawn"]
                         /\ stamp' = [mem[c] EXCEPT !.id = b, !.status = "launching"]
                         /\ mem' = [mem EXCEPT ![c] = stamp']
      BY <1>3, <2>3, LaunchEntered DEF WriteStamp
    <3>1. mem'[c].id = b BY DEF Stamp
    <3>2. job'[b] = "drawn" OBVIOUS
    <3>3. \A d \in Cli : d # c /\ pc[d] = "launch" => mem[d].id # b BY <1>0
    <3> QED BY <1>0, <1>1, <2>1, <3>1, <3>2, <3>3
  <2> QED BY <2>2, <2>3
<1> QED BY <1>2, <1>3, WhoSteps, OutsideKept

\* It is enough to look at the stamp and at the process that moved.
LEMMA OwnOneStep ==
  ASSUME OwnInv, NEW c \in Cli, CliStep(c),
         OwnNext(stamp'), OwnNext(mem'[c]), SettledNext(c, mem'[c]),
         stamp' # NoStamp => stamp'.id # None,
         pc'[c] \in WithId => mem'[c].id # None
  PROVE  OwnInv'
<1>1. [Next]_vars BY DEF CliStep, Next
<1>2. CleanupInv' /\ HostsAreOwn' BY <1>1, Copies, CleanupStep, HostsStep DEF OwnInv
<1>3. ASSUME NEW d \in Cli
      PROVE  /\ OwnNext(mem'[d]) /\ SettledNext(d, mem'[d])
             /\ pc'[d] \in WithId => mem'[d].id # None
  <2>1. CASE d = c BY <2>1
  <2>2. CASE d # c
    <3>1. mem'[d] = mem[d] /\ pc'[d] = pc[d] BY <2>2, Copies, OthersKept
    <3>2. /\ mem[d] \in Stamp /\ HostKnown(mem[d]) /\ AtHome(mem[d])
          /\ Reported(mem[d])
          /\ pc[d] \in WithId => mem[d].id # None
      BY Copies DEF OwnInv, IdsAreOwn, ResultsAreOwn, Trusted
    <3> QED BY <1>1, <3>1, <3>2, OwnKept, SettledKept
  <2> QED BY <2>1, <2>2
<1>4. IdsAreOwn'
  BY <1>1, <1>3, FreeIds, LaunchersKept DEF IdsAreOwn, OwnNext, AtHome, AtHomeNext
<1>5. ResultsAreOwn'
  <2>1. \A h \in Ephemeral : WrittenAt(h)' BY <1>1, WrittenStays
  <2>2. Reported(stamp)' /\ \A d \in Cli : Reported(mem[d])'
    BY <1>3 DEF OwnNext, Reported, ReportedNext
  <2>3. \A d \in Cli : Settled(d)' BY <1>3 DEF Settled, SettledNext
  <2> QED BY <2>1, <2>2, <2>3 DEF ResultsAreOwn
<1> QED BY <1>2, <1>4, <1>5 DEF OwnInv

LEMMA NoStampOwn == OwnNext(NoStamp) /\ \A c : SettledNext(c, NoStamp)
  BY NoneIsNew DEF OwnNext, AtHomeNext, ReportedNext, SettledNext, NoStamp

\* A copy with another status says no more of its run than the copy did, but
\* for success.
LEMMA OtherStatus ==
  ASSUME NEW s \in Stamp, OwnNext(s), NEW status \in RunStatus \ {"succeeded"},
         NEW done \in BOOLEAN
  PROVE  /\ OwnNext([s EXCEPT !.status = status])
         /\ OwnNext([s EXCEPT !.status = status, !.cleanup_done = done])
         /\ OwnNext([s EXCEPT !.cleanup_done = done])
  BY DEF OwnNext, AtHomeNext, ReportedNext, Stamp

LEMMA OwnStep == OwnInv /\ [Next]_vars => OwnInv'
<1> SUFFICES ASSUME OwnInv, [Next]_vars PROVE OwnInv'
  OBVIOUS
<1>0. /\ TypeOK /\ OwnNext(stamp) /\ stamp \in Stamp
      /\ stamp # NoStamp => stamp.id # None
      /\ \A c \in Cli : /\ mem[c] \in Stamp /\ HostKnown(mem[c])
                        /\ OwnNext(mem[c]) /\ AtHome(mem[c])
                        /\ Reported(mem[c]) /\ Settled(c)
                        /\ pc[c] \in WithId => mem[c].id # None
  <2>1. /\ AtHome(stamp) /\ Reported(stamp)
        /\ \A c \in Cli : AtHome(mem[c]) /\ Reported(mem[c]) /\ Settled(c)
    BY DEF OwnInv, IdsAreOwn, ResultsAreOwn
  <2> QED BY <2>1, OwnKept, Copies DEF OwnInv, IdsAreOwn, Trusted
<1> DEFINE Good(c) == /\ OwnNext(stamp') /\ OwnNext(mem'[c])
                      /\ SettledNext(c, mem'[c])
                      /\ stamp' # NoStamp => stamp'.id # None
                      /\ pc'[c] \in WithId => mem'[c].id # None
<1> USE DEF Goto, Done
<1>1. ASSUME NEW c \in Cli, Start(c) PROVE Good(c)
  <2> USE <1>0, NoStampOwn DEF TypeOK, WithId, MonitorPc
  <2>1. CASE StartSim(c) BY <2>1 DEF StartSim, SettledNext
  <2>2. CASE StartMonitor(c) BY <2>2 DEF StartMonitor, SettledNext
  <2>3. CASE StartAbandon(c) BY <2>3 DEF StartAbandon, SettledNext
  <2> QED BY <1>1, <2>1, <2>2, <2>3 DEF Start
<1>2. ASSUME NEW c \in Cli, LaunchStep(c) PROVE Good(c)
  <2> USE <1>0, NoStampOwn DEF TypeOK, WithId, MonitorPc
  <2>0. ASSUME NEW h, NEW action, Remember(c, h, action), stamp' = stamp,
               pc'[c] \in {"acquire", "setup"}
        PROVE  Good(c)
    <3>1. mem'[c] = [NoStamp EXCEPT !.host = h, !.action = action]
      BY <2>0 DEF Remember
    <3>2. mem'[c].id = None /\ mem'[c].status = "absent"
      BY <3>1 DEF NoStamp
    <3> QED BY <2>0, <3>2 DEF OwnNext, AtHomeNext, ReportedNext, SettledNext
  <2>1. CASE Heal(c) BY <2>1 DEF Heal, SettledNext
  <2>2. CASE RequestEphemeral(c) BY <2>0, <2>2 DEF RequestEphemeral
  <2>3. CASE RequestManaged(c) BY <2>0, <2>3 DEF RequestManaged
  <2>4. CASE RequestExternal(c) BY <2>0, <2>4 DEF RequestExternal
  <2>5. CASE Acquired(c) BY <2>5 DEF Acquired, SettledNext
  <2>6. CASE Setup(c) BY <2>6 DEF Setup, SettledNext
  <2>7. CASE SetupFails(c) BY <2>7 DEF SetupFails
  <2>8. CASE WriteStamp(c)
    <3> PICK b \in Job : /\ home' = [home EXCEPT ![b] = mem[c].host]
                         /\ stamp' = [mem[c] EXCEPT !.id = b, !.status = "launching"]
      BY <2>8 DEF WriteStamp
    <3>1. /\ stamp'.id = b /\ stamp'.status = "launching" /\ stamp'.host = mem[c].host
          /\ stamp'.action = mem[c].action
      BY DEF Stamp
    <3>2. mem'[c] = stamp' /\ pc'[c] = "launch" BY <2>8 DEF WriteStamp
    <3>3. home'[b] = mem[c].host /\ b # None BY NoneIsNew
    <3>4. OwnNext(stamp')
      BY <3>1, <3>3 DEF OwnNext, AtHomeNext, ReportedNext
    <3> QED BY <3>1, <3>2, <3>3, <3>4 DEF SettledNext
  <2>9. CASE LaunchRemoteWrapper(c)
    BY <2>9 DEF LaunchRemoteWrapper, SettledNext
  <2>10. CASE VerifyWrapperStarted(c)
    BY <2>10 DEF VerifyWrapperStarted, SettledNext
  <2>11. CASE MarkRunning(c)
    <3>1. stamp' = [mem[c] EXCEPT !.status = "running"] BY <2>11 DEF MarkRunning
    <3>2. OwnNext(stamp') /\ stamp'.id = mem[c].id
      BY <3>1, OtherStatus DEF Stamp, RunStatus
    <3> QED BY <2>11, <3>2 DEF MarkRunning
  <2>12. CASE LaunchFails(c)
    <3>1. OwnNext([stamp EXCEPT !.status = "failed"])
          /\ [stamp EXCEPT !.status = "failed"].id = stamp.id
      BY OtherStatus DEF Stamp, RunStatus, Terminal
    <3> QED BY <2>12, <3>1 DEF LaunchFails
  <2> QED BY <1>2, <2>1, <2>2, <2>3, <2>4, <2>5, <2>6, <2>7, <2>8, <2>9, <2>10,
             <2>11, <2>12 DEF LaunchStep
<1>3. ASSUME NEW c \in Cli, MonitorStep(c) PROVE Good(c)
  <2> USE <1>0, NoStampOwn DEF TypeOK, WithId, MonitorPc
  <2>1. CASE Attach(c)
    <3> DEFINE s == [mem[c] EXCEPT !.status = "running"]
    <3>1. s.id = mem[c].id BY DEF Stamp
    <3>2. OwnNext(s) BY OtherStatus DEF RunStatus
    <3>3. pc[c] = "attach" /\ pc'[c] = "tail" BY <2>1 DEF Attach
    <3>4. CASE mem[c].status = "launching"
      <4>1. stamp' = s /\ mem'[c] = s BY <2>1, <3>4 DEF Attach
      <4> HIDE DEF s
      <4> QED BY <3>1, <3>2, <3>3, <4>1 DEF SettledNext
    <3>5. CASE mem[c].status # "launching"
      BY <2>1, <3>3, <3>5 DEF Attach, SettledNext
    <3> QED BY <3>4, <3>5
  <2>2. CASE AttachRefused(c) BY <2>2 DEF AttachRefused
  <2>3. CASE Tail(c) BY <2>3 DEF Tail, SettledNext
  <2>4. CASE ConnectionLost(c) BY <2>4 DEF ConnectionLost
  <2>5. CASE Pull(c)
    <3> DEFINE found  == remote[mem[c].host].result
               result == IF found = NoResult THEN [id |-> mem[c].id, ok |-> FALSE]
                         ELSE found
               status == IF result.ok THEN "succeeded" ELSE "failed"
    <3>1. mem'[c] = [mem[c] EXCEPT !.result = result, !.status = status]
      BY <2>5 DEF Pull
    <3>2. /\ mem'[c].id = mem[c].id /\ mem'[c].action = mem[c].action
          /\ mem'[c].host = mem[c].host /\ mem'[c].result = result
          /\ mem'[c].status = status
      BY <3>1 DEF Stamp
    <3>3. /\ pc[c] = "pull" /\ pc'[c] = "teardown" /\ stamp' = stamp
          /\ job' = job /\ home' = home
      BY <2>5 DEF Pull
    <3>4. ASSUME mem[c].action = "launched"
          PROVE  /\ found \in Result /\ found # NoResult
                 /\ found.id = mem[c].id /\ job[mem[c].id] = "exited"
      <4>1. mem[c].host \in Ephemeral BY <3>4 DEF HostKnown
      <4>2. found # NoResult BY <3>3, <3>4 DEF Settled
      <4>3. found.id # None /\ home[found.id] = mem[c].host /\ job[found.id] = "exited"
        BY <4>1, <4>2 DEF OwnInv, ResultsAreOwn, WrittenAt
      <4>4. mem[c].id # None /\ home[mem[c].id] = mem[c].host
        BY <3>3, <3>4 DEF AtHome
      <4>5. found \in Result BY <4>1 DEF RemoteDir, Host
      <4>6. found.id \in Job /\ mem[c].id \in Job
        BY <4>3, <4>4, <4>5 DEF Stamp, Result
      <4> QED BY <4>1, <4>2, <4>3, <4>4, <4>5, <4>6 DEF OwnInv, HostsAreOwn
    <3>5. ReportedNext(mem'[c])
      <4> SUFFICES ASSUME mem[c].action = "launched", result.ok
                   PROVE  /\ result = [id |-> mem[c].id, ok |-> TRUE]
                          /\ mem[c].id # None /\ job[mem[c].id] = "exited"
        BY <3>2, <3>3 DEF ReportedNext
      <4>1. result = found BY <3>4
      <4>2. found.ok = TRUE BY <3>4, <4>1 DEF Result
      <4> QED BY <3>3, <3>4, <4>1, <4>2 DEF Result
    <3>6. AtHomeNext(mem'[c])
      BY <3>2 DEF OwnNext, AtHomeNext
    <3>7. SettledNext(c, mem'[c])
      BY <3>2, <3>3, <3>4 DEF SettledNext
    <3> QED BY <3>2, <3>3, <3>5, <3>6, <3>7 DEF OwnNext
  <2>6. CASE Teardown(c)
    <3>1. mem'[c] = [mem[c] EXCEPT !.cleanup_done = TRUE] BY <2>6 DEF Teardown
    <3>2. OwnNext(mem'[c]) /\ mem'[c].id = mem[c].id
      BY <3>1 DEF Stamp, OwnNext, AtHomeNext, ReportedNext
    <3> QED BY <2>6, <3>2 DEF Teardown, SettledNext
  <2>7. CASE TeardownFails(c) BY <2>7 DEF TeardownFails, SettledNext
  <2>8. CASE Persist(c) BY <2>8 DEF Persist, SettledNext
  <2>9. CASE Reread(c)
    <3>1. Finished(stamp) => stamp # NoStamp BY DEF Finished, NoStamp
    <3> QED BY <2>9, <3>1 DEF Reread, SettledNext
  <2>10. CASE Discard(c) BY <2>10 DEF Discard
  <2> QED BY <1>3, <2>1, <2>2, <2>3, <2>4, <2>5, <2>6, <2>7, <2>8, <2>9, <2>10
          DEF MonitorStep
<1>4. ASSUME NEW c \in Cli, AbandonStep(c) PROVE Good(c)
  <2> USE <1>0, NoStampOwn DEF TypeOK, WithId, MonitorPc
  <2>1. CASE AbandonRelease(c) BY <2>1 DEF AbandonRelease, SettledNext
  <2>2. CASE AbandonMark(c)
    <3>1. stamp' = [mem[c] EXCEPT !.status = "abandoned", !.cleanup_done = TRUE]
      BY <2>2 DEF AbandonMark
    <3>2. OwnNext(stamp') /\ stamp'.id = mem[c].id
      BY <3>1 DEF Stamp, OwnNext, AtHomeNext, ReportedNext
    <3> QED BY <2>2, <3>2 DEF AbandonMark, SettledNext
  <2>3. CASE AbandonWipe(c) BY <2>3 DEF AbandonWipe
  <2> QED BY <1>4, <2>1, <2>2, <2>3 DEF AbandonStep
<1>5. ASSUME NEW c \in Cli, Interrupt(c) PROVE Good(c)
  BY <1>0, <1>5, NoStampOwn DEF Interrupt, TypeOK, WithId, MonitorPc
<1>6. ASSUME NEW c \in Cli, CliStep(c) PROVE OwnInv'
  BY <1>1, <1>2, <1>3, <1>4, <1>5, <1>6, OwnOneStep DEF CliStep
<1>7. CASE Outside
  <2>0. UNCHANGED <<stamp, pc, mem>> BY <1>7, OutsideKept
  <2>1. CleanupInv' /\ HostsAreOwn' BY <1>0, CleanupStep, HostsStep DEF OwnInv
  <2>2. \A c \in Cli : SettledNext(c, mem[c]) BY <2>0, SettledKept
  <2>3. IdsAreOwn'
    BY <1>0, <2>0, FreeIds, LaunchersKept
       DEF IdsAreOwn, OwnNext, AtHome, AtHomeNext
  <2>4. ResultsAreOwn'
    <3>1. \A h \in Ephemeral : WrittenAt(h)' BY WrittenStays
    <3>2. Reported(stamp)' /\ \A c \in Cli : Reported(mem[c])'
      BY <1>0, <2>0 DEF OwnNext, Reported, ReportedNext
    <3>3. \A c \in Cli : Settled(c)'
      BY <2>0, <2>2 DEF Settled, SettledNext
    <3> QED BY <3>1, <3>2, <3>3 DEF ResultsAreOwn
  <2> QED BY <2>1, <2>3, <2>4 DEF OwnInv
<1> QED BY <1>6, <1>7, WhoSteps
-----------------------------------------------------------------------------
\* The theorems

LEMMA OwnInit == Init => OwnInv
<1> SUFFICES ASSUME Init PROVE OwnInv
  OBVIOUS
<1>1. CleanupInv /\ HostsAreOwn BY CleanupInit, SlotInit DEF SlotInv
<1> USE DEF Init, HostsInit
<1>2. /\ stamp = NoStamp /\ \A c \in Cli : mem[c] = NoStamp /\ pc[c] = "idle"
      /\ NoStamp.id = None /\ NoStamp.action = None
  BY DEF NoStamp
<1>3. IdsAreOwn
  BY <1>2, NoneIsNew DEF IdsAreOwn, AtHome, WithId, MonitorPc
<1>4. ResultsAreOwn
  <2>1. \A h \in Ephemeral : WrittenAt(h) BY DEF WrittenAt, EmptyDir, Host
  <2> QED BY <1>2, <2>1, NoneIsNew DEF ResultsAreOwn, Reported, Settled
<1> QED BY <1>1, <1>3, <1>4 DEF OwnInv

\* When the stamp of a run on a launched machine says succeeded
\* (_on_wrapper_exit), this run's own driver has ended well, although the
\* result.yaml it was read from is taken without a look at its run_id:
\* whatever other runs, monitors, abandons and interruptions there were.
THEOREM SuccessIsOwnAlways == Spec => []SuccessIsOwn
<1>1. OwnInv => SuccessIsOwn
  BY DEF OwnInv, ResultsAreOwn, Reported, SuccessIsOwn
<1> QED BY <1>1, OwnInit, OwnStep, PTL DEF Spec

\* A monitor that is about to release a launched machine does not take it from
\* under a driver that still runs on it.
THEOREM TeardownAfterExitAlways == Spec => []TeardownAfterExit
<1>1. OwnInv => TeardownAfterExit
  BY DEF OwnInv, ResultsAreOwn, Settled, TeardownAfterExit, Live
<1> QED BY <1>1, OwnInit, OwnStep, PTL DEF Spec

-----------------------------------------------------------------------------
(***************************************************************************)
(* One command at a time: the copy of the stamp that a command has in      *)
(* memory is the one on disk, except while it holds an outcome that it has *)
(* not written down yet; and a stamp that says released is right.          *)
(***************************************************************************)

Requests(c) == RequestEphemeral(c) \/ RequestManaged(c) \/ RequestExternal(c)

\* What a command that takes no machine does to the machines is a clean-up.
LEMMA CliHosts ==
  ASSUME NEW c \in Cli, CliStep(c), ~Requests(c)
  PROVE  inst' = inst \/ CleanupRemote(mem[c].action, mem[c].host)
<1>1. CASE Start(c)
  BY <1>1 DEF Start, StartSim, StartMonitor, StartAbandon
<1>2. CASE LaunchStep(c)
  BY <1>2 DEF LaunchStep, Requests, Heal, Acquired, Setup, SetupFails, WriteStamp,
     LaunchRemoteWrapper, VerifyWrapperStarted, MarkRunning, LaunchFails
<1>3. CASE MonitorStep(c)
  BY <1>3 DEF MonitorStep, Attach, AttachRefused, Tail, ConnectionLost, Pull,
     Teardown, TeardownFails, Persist, Reread, Discard
<1>4. CASE AbandonStep(c)
  BY <1>4 DEF AbandonStep, AbandonRelease, AbandonMark, AbandonWipe
<1>5. CASE Interrupt(c)
  BY <1>5 DEF Interrupt
<1> QED BY <1>1, <1>2, <1>3, <1>4, <1>5 DEF CliStep

LEMMA NoStampBlank ==
  /\ NoStamp.id = None /\ NoStamp.host = None /\ NoStamp.action = None
  /\ NoStamp.status = "absent" /\ NoStamp.cleanup_done = FALSE
  BY DEF NoStamp

\* A machine that is not held is only taken by a request.
LEMMA HeldOnly ==
  ASSUME TypeOK, NEW c \in Cli, CliStep(c),
         ~RequestEphemeral(c), ~RequestManaged(c),
         NEW h \in Host, inst[h] # "held"
  PROVE  inst'[h] # "held"
<1> USE DEF TypeOK
<1>1. CASE RequestExternal(c)
  BY <1>1 DEF RequestExternal
<1>2. CASE ~RequestExternal(c) /\ inst' # inst
  <2>1. CleanupRemote(mem[c].action, mem[c].host)
    BY <1>2, CliHosts DEF Requests
  <2>2. CASE mem[c].action = "launched"
    BY <2>1, <2>2 DEF CleanupRemote
  <2>3. CASE mem[c].action = "started" /\ Up(mem[c].host)
    BY <2>1, <2>3 DEF CleanupRemote
  <2>4. CASE mem[c].action # "launched"
             /\ ~(mem[c].action = "started" /\ Up(mem[c].host))
    BY <2>1, <2>4 DEF CleanupRemote
  <2> QED BY <2>2, <2>3, <2>4
<1> QED BY <1>1, <1>2

LEMMA HeldByRequest ==
  ASSUME TypeOK, [Next]_vars, NEW h \in Host, inst[h] # "held", inst'[h] = "held"
  PROVE  \E c \in Cli : RequestEphemeral(c) \/ RequestManaged(c)
<1>1. ASSUME Outside PROVE FALSE
  BY <1>1 DEF Outside, WrapperStep, WrapperStamps, WrapperClears, WrapperLoads,
     WrapperDrives, WrapperExits, WrapperDies, HostStep, HostGoesDown, GoesDown,
     OwnerStarts, OwnerStartsIt, SlotSettles, vars, TypeOK
<1> QED BY <1>1, HeldOnly, WhoSteps

LEMMA FreedStays ==
  ASSUME TypeOK, [Next]_vars, NEW s, KnowsHost(s), Freed(s),
         \A c \in Cli : ~RequestEphemeral(c) /\ ~RequestManaged(c)
  PROVE  s.action = "connected" \/ inst'[s.host] # "held"
  BY HeldByRequest DEF Freed, KnowsHost

\* cleanup_remote frees the machine, whatever it does.
LEMMA CleanupReleases ==
  ASSUME TypeOK, NEW s, KnowsHost(s), CleanupRemote(s.action, s.host)
  PROVE  s.action = "connected" \/ inst'[s.host] # "held"
<1> USE DEF TypeOK, KnowsHost
<1>1. CASE s.action = "launched"
  BY <1>1 DEF CleanupRemote
<1>2. CASE s.action = "started" /\ Up(s.host)
  BY <1>2 DEF CleanupRemote
<1>3. CASE s.action = "started" /\ ~Up(s.host)
  BY <1>3 DEF CleanupRemote, Up
<1> QED BY <1>1, <1>2, <1>3 DEF Action

\* It is enough to look at the stamp and at the command that moved.
LEMMA AloneCli ==
  ASSUME AloneInv, NEW c \in Cli, CliStep(c)
  PROVE  /\ Whole(stamp)' /\ InStep(c)'
         /\ stamp'.cleanup_done => Freed(stamp)'
<1>0. /\ TypeOK /\ [Next]_vars /\ stamp \in Stamp /\ mem[c] \in Stamp
      /\ Whole(stamp) /\ InStep(c)
      /\ stamp.cleanup_done => Freed(stamp)
  BY DEF AloneInv, TypeOK, CliStep, Next
<1> DEFINE Good == Whole(stamp)' /\ (stamp'.cleanup_done => Freed(stamp)')
<1>1. ASSUME stamp' = NoStamp PROVE Good
  BY <1>1, NoStampBlank DEF Whole
<1>2. ASSUME pc'[c] = "idle" PROVE InStep(c)'
  BY <1>2 DEF InStep, Launching
<1> USE <1>0 DEF TypeOK, Goto, Done, Stamp, Launching, RunStatus, Terminal
<1>3. ASSUME SameRun(stamp', stamp), stamp # NoStamp, stamp'.status \in RunStatus,
             stamp'.cleanup_done => Freed(stamp)'
      PROVE  Good
  BY <1>3 DEF Whole, KnowsHost, SameRun
<1>4. ASSUME stamp' = stamp PROVE Good
  <2>1. Whole(stamp)'
    BY <1>4 DEF Whole, KnowsHost
  <2>2. ASSUME stamp.cleanup_done PROVE Freed(stamp)'
    <3>1. stamp # NoStamp /\ KnowsHost(stamp) /\ Freed(stamp)
      BY <2>2, NoStampBlank DEF Whole
    <3>2. ~RequestEphemeral(c) /\ ~RequestManaged(c)
      BY <3>1 DEF RequestEphemeral, RequestManaged, InStep
    <3>3. \A h \in Host : inst[h] # "held" => inst'[h] # "held"
      BY <3>2, HeldOnly
    <3> QED BY <1>4, <3>1, <3>3 DEF Freed, KnowsHost
  <2> QED BY <1>4, <2>1, <2>2
<1>5. CASE Start(c)
  <2>1. CASE StartSim(c)
    BY <1>4, <2>1, NoStampBlank DEF StartSim, InStep, Finished
  <2>2. CASE StartMonitor(c)
    BY <1>4, <2>2 DEF StartMonitor, InStep, Whole, Finished
  <2>3. CASE StartAbandon(c)
    BY <1>4, <2>3 DEF StartAbandon, InStep
  <2> QED BY <1>5, <2>1, <2>2, <2>3 DEF Start
<1>6. CASE LaunchStep(c)
  <2>1. CASE Heal(c)
    BY <1>1, <2>1 DEF Heal, InStep
  <2>2. CASE RequestEphemeral(c)
    <3> PICK h \in Ephemeral : Remember(c, h, "launched")
      BY <2>2 DEF RequestEphemeral
    <3>1. mem'[c] = [NoStamp EXCEPT !.host = h, !.action = "launched"]
      BY DEF Remember
    <3>2. KnowsHost(mem'[c]) /\ ~mem'[c].cleanup_done
      BY <3>1 DEF NoStamp, KnowsHost, Host, Action
    <3>3. stamp = NoStamp /\ pc'[c] = "acquire" /\ stamp' = stamp
      BY <2>2 DEF RequestEphemeral, InStep
    <3> QED BY <1>4, <3>2, <3>3 DEF InStep, KnowsHost
  <2>3. CASE RequestManaged(c)
    <3> PICK h \in Managed, action \in {"started", "connected"} :
          Remember(c, h, action)
      BY <2>3 DEF RequestManaged
    <3>1. mem'[c] = [NoStamp EXCEPT !.host = h, !.action = action]
      BY DEF Remember
    <3>2. KnowsHost(mem'[c]) /\ ~mem'[c].cleanup_done
      BY <3>1 DEF NoStamp, KnowsHost, Host, Action
    <3>3. stamp = NoStamp /\ pc'[c] = "acquire" /\ stamp' = stamp
      BY <2>3 DEF RequestManaged, InStep
    <3> QED BY <1>4, <3>2, <3>3 DEF InStep, KnowsHost
  <2>4. CASE RequestExternal(c)
    <3> PICK h \in External : Remember(c, h, "connected")
      BY <2>4 DEF RequestExternal
    <3>1. mem'[c] = [NoStamp EXCEPT !.host = h, !.action = "connected"]
      BY DEF Remember
    <3>2. KnowsHost(mem'[c]) /\ ~mem'[c].cleanup_done
      BY <3>1 DEF NoStamp, KnowsHost, Host, Action
    <3>3. stamp = NoStamp /\ pc'[c] = "setup" /\ stamp' = stamp
      BY <2>4 DEF RequestExternal, InStep
    <3> QED BY <1>4, <3>2, <3>3 DEF InStep, KnowsHost
  <2>5. CASE Acquired(c)
    BY <1>4, <2>5 DEF Acquired, InStep, KnowsHost
  <2>6. CASE Setup(c)
    BY <1>4, <2>6 DEF Setup, InStep, KnowsHost
  <2>7. CASE SetupFails(c)
    BY <1>2, <1>4, <2>7 DEF SetupFails
  <2>8. CASE WriteStamp(c)
    <3> PICK b \in Job : stamp' = [mem[c] EXCEPT !.id = b, !.status = "launching"]
      BY <2>8 DEF WriteStamp
    <3>1. KnowsHost(mem[c]) /\ ~mem[c].cleanup_done
      BY <2>8 DEF WriteStamp, InStep
    <3>2. /\ stamp'.host = mem[c].host /\ stamp'.action = mem[c].action
          /\ stamp'.status = "launching"
          /\ stamp'.cleanup_done = mem[c].cleanup_done
      OBVIOUS
    <3>3. Good
      BY <3>1, <3>2 DEF Whole, KnowsHost
    <3>4. stamp' # NoStamp
      BY <3>2, NoStampBlank
    <3>5. mem'[c] = stamp' /\ pc'[c] = "launch"
      BY <2>8 DEF WriteStamp
    <3> QED BY <3>2, <3>3, <3>4, <3>5 DEF InStep
  <2>9. CASE LaunchRemoteWrapper(c)
    BY <1>4, <2>9 DEF LaunchRemoteWrapper, InStep
  <2>10. CASE VerifyWrapperStarted(c)
    BY <1>4, <2>10 DEF VerifyWrapperStarted, InStep
  <2>11. CASE MarkRunning(c) \/ LaunchFails(c)
    <3>1. PICK status \in {"running", "failed"} :
            stamp' = [stamp EXCEPT !.status = status]
      BY <2>11 DEF MarkRunning, LaunchFails, InStep
    <3>2. /\ SameRun(stamp', stamp) /\ stamp # NoStamp /\ inst' = inst
          /\ stamp'.status = status /\ stamp'.cleanup_done = stamp.cleanup_done
      BY <2>11, <3>1 DEF MarkRunning, LaunchFails, InStep, SameRun
    <3>3. stamp'.cleanup_done => Freed(stamp)'
      BY <3>2 DEF Freed, SameRun
    <3> QED BY <1>2, <1>3, <2>11, <3>2, <3>3 DEF MarkRunning, LaunchFails
  <2> QED BY <1>6, <2>1, <2>2, <2>3, <2>4, <2>5, <2>6, <2>7, <2>8, <2>9, <2>10,
             <2>11 DEF LaunchStep
<1>7. CASE MonitorStep(c)
  <2>1. CASE Attach(c)
    <3>1. stamp = mem[c] /\ stamp # NoStamp /\ stamp.status \in {"launching", "running"}
      BY <2>1 DEF Attach, InStep
    <3>2. CASE mem[c].status = "launching"
      <4>1. /\ stamp' = [mem[c] EXCEPT !.status = "running"]
            /\ mem'[c] = [mem[c] EXCEPT !.status = "running"]
            /\ pc'[c] = "tail" /\ inst' = inst
        BY <2>1, <3>2 DEF Attach
      <4>2. /\ SameRun(stamp', stamp) /\ stamp'.status = "running"
            /\ stamp' = mem'[c] /\ stamp'.cleanup_done = stamp.cleanup_done
        BY <3>1, <4>1 DEF SameRun
      <4>3. stamp' # NoStamp
        BY <4>2, NoStampBlank
      <4>4. stamp'.cleanup_done => Freed(stamp)'
        BY <4>1, <4>2 DEF Freed, SameRun
      <4> QED BY <1>3, <3>1, <4>1, <4>2, <4>3, <4>4 DEF InStep
    <3>3. CASE mem[c].status # "launching"
      BY <1>4, <2>1, <3>1, <3>3 DEF Attach, InStep
    <3> QED BY <3>2, <3>3
  <2>2. CASE AttachRefused(c)
    BY <1>2, <1>4, <2>2 DEF AttachRefused
  <2>3. CASE Tail(c)
    BY <1>4, <2>3 DEF Tail, InStep
  <2>4. CASE ConnectionLost(c)
    BY <1>2, <1>4, <2>4 DEF ConnectionLost
  <2>5. CASE Pull(c)
    <3> PICK result, status :
          /\ status \in {"succeeded", "failed"}
          /\ mem'[c] = [mem[c] EXCEPT !.result = result, !.status = status]
      BY <2>5 DEF Pull
    <3>1. /\ SameRun(mem'[c], mem[c]) /\ mem'[c].status = status
          /\ mem'[c].cleanup_done = mem[c].cleanup_done
      BY DEF SameRun
    <3>2. /\ pc[c] = "pull" /\ pc'[c] = "teardown" /\ stamp' = stamp
      BY <2>5 DEF Pull
    <3> QED BY <1>4, <3>1, <3>2 DEF InStep, SameRun
  <2>6. CASE Teardown(c)
    <3>1. /\ stamp # NoStamp /\ stamp.status = "running" /\ SameRun(stamp, mem[c])
          /\ mem[c].status \in {"succeeded", "failed"}
          /\ mem[c].cleanup_done = stamp.cleanup_done
      BY <2>6 DEF Teardown, InStep
    <3>2. /\ pc'[c] = "persist" /\ stamp' = stamp
          /\ mem'[c] = [mem[c] EXCEPT !.cleanup_done = TRUE]
      BY <2>6 DEF Teardown
    <3>3. SameRun(stamp, mem'[c]) /\ mem'[c].status = mem[c].status
          /\ mem'[c].cleanup_done
      BY <3>1, <3>2 DEF SameRun
    <3>4. CASE mem[c].cleanup_done
      BY <1>4, <3>1, <3>2, <3>3, <3>4 DEF InStep, SameRun
    <3>5. CASE ~mem[c].cleanup_done
      <4>1. CleanupRemote(stamp.action, stamp.host)
        BY <2>6, <3>1, <3>5 DEF Teardown, SameRun
      <4>2. stamp.action = "connected" \/ inst'[stamp.host] # "held"
        BY <3>1, <4>1, CleanupReleases DEF Whole
      <4> QED BY <1>4, <3>1, <3>2, <3>3, <4>2 DEF InStep, SameRun, Freed
    <3> QED BY <3>4, <3>5
  <2>7. CASE TeardownFails(c)
    BY <1>4, <2>7 DEF TeardownFails, InStep, SameRun
  <2>8. CASE Persist(c)
    <3>1. /\ SameRun(stamp', stamp) /\ stamp # NoStamp /\ inst' = inst
          /\ stamp'.status \in RunStatus
          /\ stamp'.cleanup_done = stamp.cleanup_done \/ Freed(stamp)
      BY <2>8 DEF Persist, InStep, SameRun
    <3>2. stamp'.cleanup_done => Freed(stamp)'
      BY <3>1 DEF Freed, SameRun
    <3> QED BY <1>3, <2>8, <3>1, <3>2 DEF Persist, InStep
  <2>9. CASE Reread(c)
    BY <1>2, <1>4, <2>9 DEF Reread, InStep, Finished
  <2>10. CASE Discard(c)
    BY <1>1, <1>2, <2>10 DEF Discard
  <2> QED BY <1>7, <2>1, <2>2, <2>3, <2>4, <2>5, <2>6, <2>7, <2>8, <2>9, <2>10
          DEF MonitorStep
<1>8. CASE AbandonStep(c)
  <2>1. CASE AbandonRelease(c)
    <3>1. stamp = mem[c] /\ stamp # NoStamp
      BY <2>1 DEF AbandonRelease, InStep
    <3>2. stamp.action = "connected" \/ inst'[stamp.host] # "held"
      BY <2>1, <3>1, CleanupReleases DEF Whole, AbandonRelease
    <3> QED BY <1>4, <2>1, <3>1, <3>2 DEF AbandonRelease, InStep, Freed
  <2>2. CASE AbandonMark(c)
    <3>1. /\ SameRun(stamp', stamp) /\ stamp # NoStamp /\ stamp'.cleanup_done
          /\ stamp'.status \in RunStatus /\ Freed(stamp) /\ inst' = inst
      BY <2>2 DEF AbandonMark, InStep, SameRun
    <3>2. Freed(stamp)'
      BY <3>1 DEF Freed, SameRun
    <3> QED BY <1>3, <2>2, <3>1, <3>2 DEF AbandonMark, InStep
  <2>3. CASE AbandonWipe(c)
    BY <1>1, <1>2, <2>3 DEF AbandonWipe
  <2> QED BY <1>8, <2>1, <2>2, <2>3 DEF AbandonStep
<1>9. CASE Interrupt(c)
  BY <1>2, <1>4, <1>9 DEF Interrupt
<1> QED BY <1>5, <1>6, <1>7, <1>8, <1>9 DEF CliStep

LEMMA AloneStep == OneAtATime /\ AloneInv /\ [Next]_vars => AloneInv'
<1> SUFFICES ASSUME OneAtATime, AloneInv, [Next]_vars PROVE AloneInv'
  OBVIOUS
<1>1. TypeOK' /\ TypeOK
  BY TypeStep DEF AloneInv
<1>2. ASSUME NEW c \in Cli, CliStep(c) PROVE AloneInv'
  <2>1. \A d \in Cli : d = c
    BY DEF OneAtATime
  <2>2. /\ Whole(stamp)' /\ InStep(c)'
        /\ stamp'.cleanup_done => Freed(stamp)'
    BY <1>2, AloneCli
  <2>3. \A d \in Cli : InStep(d)'
    BY <2>1, <2>2
  <2> QED BY <1>1, <2>2, <2>3 DEF AloneInv
<1>3. ASSUME Outside PROVE AloneInv'
  <2>1. UNCHANGED <<stamp, pc, mem>>
    BY <1>3, OutsideKept
  <2>2. \A c \in Cli : ~RequestEphemeral(c) /\ ~RequestManaged(c)
    BY <1>1, <2>1 DEF RequestEphemeral, RequestManaged, Goto, TypeOK
  <2>3. Whole(stamp)'
    BY <2>1 DEF AloneInv, Whole, KnowsHost
  <2>4. stamp # NoStamp /\ Freed(stamp) => Freed(stamp)'
    BY <1>1, <2>1, <2>2, FreedStays DEF AloneInv, Whole, Freed
  <2>5. stamp'.cleanup_done => Freed(stamp)'
    BY <2>1, <2>4, NoStampBlank DEF AloneInv
  <2>6. ASSUME NEW c \in Cli PROVE InStep(c)'
    BY <2>1, <2>4 DEF AloneInv, InStep, KnowsHost, Launching
  <2> QED BY <1>1, <2>3, <2>5, <2>6 DEF AloneInv
<1> QED BY <1>2, <1>3, WhoSteps

LEMMA AloneInit == Init => AloneInv
<1> SUFFICES ASSUME Init PROVE AloneInv
  OBVIOUS
<1>1. TypeOK
  BY TypeInit
<1>2. stamp = NoStamp /\ \A c \in Cli : pc[c] = "idle"
  BY DEF Init
<1> QED BY <1>1, <1>2, NoStampBlank DEF AloneInv, Whole, InStep, Launching

\* What gives up the stamp of a run.
LEMMA HandleStep ==
  ASSUME AloneInv, NEW c \in Cli, CliStep(c), stamp # NoStamp, stamp'.id # stamp.id
  PROVE  Freed(stamp)
<1>0. /\ stamp \in Stamp /\ mem[c] \in Stamp /\ InStep(c)
      /\ stamp.cleanup_done => Freed(stamp)
  BY DEF AloneInv, TypeOK
<1> USE <1>0 DEF Stamp, InStep, SameRun, Launching
<1>1. CASE Start(c)
  BY <1>1 DEF Start, StartSim, StartMonitor, StartAbandon
<1>2. CASE LaunchStep(c)
  <2>1. CASE Heal(c) BY <2>1 DEF Heal
  <2>2. CASE WriteStamp(c) BY <2>2 DEF WriteStamp
  <2>3. CASE MarkRunning(c) BY <2>3 DEF MarkRunning
  <2>4. CASE LaunchFails(c) BY <2>4 DEF LaunchFails
  <2> QED
    BY <1>2, <2>1, <2>2, <2>3, <2>4 DEF LaunchStep, RequestEphemeral, RequestManaged,
       RequestExternal, Acquired, Setup, SetupFails, LaunchRemoteWrapper,
       VerifyWrapperStarted
<1>3. CASE MonitorStep(c)
  <2>1. CASE Attach(c) BY <2>1 DEF Attach
  <2>2. CASE Persist(c) BY <2>2 DEF Persist
  <2>3. CASE Discard(c) BY <2>3 DEF Discard
  <2> QED
    BY <1>3, <2>1, <2>2, <2>3 DEF MonitorStep, AttachRefused, Tail, ConnectionLost,
       Pull, Teardown, TeardownFails, Reread
<1>4. CASE AbandonStep(c)
  <2>1. CASE AbandonMark(c) BY <2>1 DEF AbandonMark
  <2>2. CASE AbandonWipe(c) BY <2>2 DEF AbandonWipe
  <2> QED
    BY <1>4, <2>1, <2>2 DEF AbandonStep, AbandonRelease
<1>5. CASE Interrupt(c)
  BY <1>5 DEF Interrupt
<1> QED BY <1>1, <1>2, <1>3, <1>4, <1>5 DEF CliStep

\* Of one command at a time, none gives up the stamp of a machine that fslab
\* still has to release: neither the guard, nor the monitor, nor an abandon
\* deletes it before (check_no_existing_run, _maybe_wipe_terminal_stamp), and
\* no launch writes over it.
THEOREM HandleKeptAlways == OneAtATime /\ Spec => HandleKept
<1>1. ASSUME OneAtATime PROVE Spec => HandleKept
  <2>1. AloneInv /\ [Next]_vars => AloneInv'
    BY <1>1, AloneStep
  <2>2. ASSUME AloneInv, [Next]_vars
        PROVE  [stamp # NoStamp /\ stamp'.id # stamp.id =>
                  stamp.action = "connected" \/ inst[stamp.host] # "held"]_vars
    BY <2>2, OutsideKept, HandleStep, WhoSteps DEF Freed
  <2> QED BY <2>1, <2>2, AloneInit, PTL DEF Spec, HandleKept
<1> QED BY <1>1

-----------------------------------------------------------------------------
\* The leases: what each is read off, and what a step does to them

\* What the lease on a machine is read off.
Named(h) == stamp.host = h /\ stamp.action # "connected" /\ ~stamp.cleanup_done

Taken(h) ==
  \E c \in Cli : /\ pc[c] \in Launching
                 /\ mem[c].host = h /\ mem[c].action # "connected"

LEMMA LeaseCases ==
  ASSUME NEW h
  PROVE  /\ inst[h] # "held" => LeaseOf(h) = "free"
         /\ inst[h] = "held" /\ Named(h) /\ stamp.status = "launching" =>
              LeaseOf(h) = "recorded"
         /\ inst[h] = "held" /\ Named(h) /\ stamp.status # "launching" =>
              LeaseOf(h) = "committed"
         /\ inst[h] = "held" /\ ~Named(h) /\ Taken(h) => LeaseOf(h) = "acquired"
         /\ inst[h] = "held" /\ ~Named(h) /\ ~Taken(h) => LeaseOf(h) = "lost"
  BY DEF LeaseOf, Named, Taken, Launching

LEMMA LeaseCasesNext ==
  ASSUME NEW h
  PROVE  /\ inst'[h] = "held" /\ Named(h)' /\ stamp'.status = "launching" =>
              LeaseOf(h)' = "recorded"
         /\ inst'[h] = "held" /\ Named(h)' /\ stamp'.status # "launching" =>
              LeaseOf(h)' = "committed"
         /\ inst'[h] = "held" /\ ~Named(h)' /\ Taken(h)' => LeaseOf(h)' = "acquired"
         /\ inst'[h] = "held" /\ ~Named(h)' /\ ~Taken(h)' => LeaseOf(h)' = "lost"
  BY DEF LeaseOf, Named, Taken, Launching

\* What a step of HostLease does to one machine.
Moves(old, new) ==
  \/ old = "free" /\ new = "acquired"
  \/ old = "acquired" /\ new = "recorded"
  \/ old = "recorded" /\ new = "committed"
  \/ old \in {"acquired", "recorded"} /\ new = "lost"
  \/ old # "free" /\ new = "free"

Leases == [h \in Host |-> LeaseOf(h)]

LEMMA LeaseMoves ==
  ASSUME NEW h \in Host, Moves(LeaseOf(h), LeaseOf(h)'),
         \A g \in Host : g # h => LeaseOf(g)' = LeaseOf(g)
  PROVE  HL!Next
<1>1. Leases' = [Leases EXCEPT ![h] = LeaseOf(h)']
  BY DEF Leases
<1>2. Leases[h] = LeaseOf(h)
  BY DEF Leases
<1>3. CASE LeaseOf(h) = "free" /\ LeaseOf(h)' = "acquired"
  BY <1>1, <1>2, <1>3 DEF HL!Next, HL!Acquire, HL!Become, Leases
<1>4. CASE LeaseOf(h) = "acquired" /\ LeaseOf(h)' = "recorded"
  BY <1>1, <1>2, <1>4 DEF HL!Next, HL!Record, HL!Become, Leases
<1>5. CASE LeaseOf(h) = "recorded" /\ LeaseOf(h)' = "committed"
  BY <1>1, <1>2, <1>5 DEF HL!Next, HL!Commit, HL!Become, Leases
<1>6. CASE LeaseOf(h) \in {"acquired", "recorded"} /\ LeaseOf(h)' = "lost"
  BY <1>1, <1>2, <1>6 DEF HL!Next, HL!Lose, HL!Become, Leases
<1>7. CASE LeaseOf(h) # "free" /\ LeaseOf(h)' = "free"
  BY <1>1, <1>2, <1>7 DEF HL!Next, HL!Release, HL!Become, Leases
<1> QED BY <1>3, <1>4, <1>5, <1>6, <1>7 DEF Moves

LEMMA LeasesKept ==
  ASSUME \A g \in Host : LeaseOf(g)' = LeaseOf(g)
  PROVE  Leases' = Leases
  BY DEF Leases

\* It is enough to look at one machine.
LEMMA OneLease ==
  ASSUME NEW h \in Host,
         LeaseOf(h)' = LeaseOf(h) \/ Moves(LeaseOf(h), LeaseOf(h)'),
         \A g \in Host : g # h => LeaseOf(g)' = LeaseOf(g)
  PROVE  HL!Next \/ Leases' = Leases
  BY LeaseMoves, LeasesKept

LEMMA SameLease ==
  ASSUME NEW g, inst'[g] = inst[g] \/ (inst[g] # "held" /\ inst'[g] # "held"),
         Named(g)' <=> Named(g),
         Named(g) => (stamp'.status = "launching" <=> stamp.status = "launching"),
         Taken(g)' <=> Taken(g)
  PROVE  LeaseOf(g)' = LeaseOf(g)
  BY DEF LeaseOf, Named, Taken, Launching

LEMMA FreeNext ==
  ASSUME NEW h, inst'[h] # "held"
  PROVE  LeaseOf(h)' = "free"
  BY DEF LeaseOf

LEMMA CleanupElsewhere ==
  ASSUME TypeOK, NEW action, NEW h, CleanupRemote(action, h)
  PROVE  /\ \A g \in Host : g # h => inst'[g] = inst[g]
         /\ action = "connected" => inst' = inst
<1> USE DEF TypeOK
<1>1. CASE action = "launched"
  BY <1>1 DEF CleanupRemote
<1>2. CASE action = "started" /\ Up(h)
  BY <1>2 DEF CleanupRemote
<1>3. CASE action # "launched" /\ ~(action = "started" /\ Up(h))
  BY <1>3 DEF CleanupRemote
<1> QED BY <1>1, <1>2, <1>3

Takes(c, h) ==
  pc[c] \in Launching /\ mem[c].host = h /\ mem[c].action # "connected"

\* Steps after which no machine is less, or more, released than before.
LEMMA QuietStep ==
  ASSUME NEW c \in Cli, \A d \in Cli : d = c, inst' = inst,
         stamp'.host = stamp.host, stamp'.action = stamp.action,
         stamp'.cleanup_done = stamp.cleanup_done,
         stamp'.status = "launching" <=> stamp.status = "launching",
         \A g \in Host : Takes(c, g)' <=> Takes(c, g)
  PROVE  Leases' = Leases
<1>1. ASSUME NEW g \in Host PROVE LeaseOf(g)' = LeaseOf(g)
  <2>1. Taken(g)' <=> Taken(g)
    BY DEF Taken, Takes
  <2>2. Named(g)' <=> Named(g)
    BY DEF Named
  <2> QED BY <2>1, <2>2, SameLease
<1> QED BY <1>1, LeasesKept

\* A release in the middle of a command changes one machine's lease at most.
LEMMA CleanupLease ==
  ASSUME TypeOK, NEW s, KnowsHost(s), CleanupRemote(s.action, s.host),
         NEW c \in Cli, \A d \in Cli : d = c, stamp' = stamp,
         s.action # "connected" =>
           \A g \in Host : g # s.host => (Takes(c, g)' <=> Takes(c, g)),
         s.action = "connected" => \A g \in Host : Takes(c, g)' <=> Takes(c, g)
  PROVE  HL!Next \/ Leases' = Leases
<1>1. CASE s.action = "connected"
  BY <1>1, QuietStep, CleanupElsewhere
<1>2. CASE s.action # "connected"
  <2>1. LeaseOf(s.host)' = "free"
    BY <1>2, CleanupReleases, FreeNext
  <2>2. ASSUME NEW g \in Host, g # s.host PROVE LeaseOf(g)' = LeaseOf(g)
    <3>1. Taken(g)' <=> Taken(g)
      BY <1>2, <2>2 DEF Taken, Takes
    <3>2. Named(g)' <=> Named(g)
      BY DEF Named
    <3>3. inst'[g] = inst[g]
      BY <2>2, CleanupElsewhere
    <3> QED BY <3>1, <3>2, <3>3, SameLease
  <2> QED BY <2>1, <2>2, OneLease DEF KnowsHost, Moves
<1> QED BY <1>1, <1>2

\* The machine a launcher gives up stays up, and nothing names it.
LEMMA LoseStep ==
  ASSUME NEW c \in Cli, \A d \in Cli : d = c, InStep(c), NEW h \in Host,
         pc[c] \in Launching, mem[c].host = h, pc'[c] \notin Launching,
         stamp' = stamp, inst' = inst
  PROVE  HL!Next \/ Leases' = Leases
<1>1. ASSUME NEW g \in Host PROVE ~Named(g) /\ ~Named(g)' /\ ~Taken(g)'
  BY NoStampBlank, NoneIsNew DEF InStep, Named, Taken
<1>2. ASSUME NEW g \in Host, g # h PROVE LeaseOf(g)' = LeaseOf(g)
  <2>1. ~Taken(g)
    BY <1>2 DEF Taken
  <2> QED BY <1>1, <2>1, SameLease
<1>3. LeaseOf(h)' = LeaseOf(h) \/ Moves(LeaseOf(h), LeaseOf(h)')
  <2>1. CASE inst[h] # "held"
    BY <2>1, LeaseCases, FreeNext
  <2>2. CASE inst[h] = "held" /\ Taken(h)
    <3>1. LeaseOf(h) = "acquired"
      BY <1>1, <2>2, LeaseCases
    <3>2. LeaseOf(h)' = "lost"
      BY <1>1, <2>2, LeaseCasesNext
    <3> QED BY <3>1, <3>2 DEF Moves
  <2>3. CASE ~Taken(h)
    BY <1>1, <2>3, SameLease
  <2> QED BY <2>1, <2>2, <2>3
<1> QED BY <1>2, <1>3, OneLease

LEMMA TakeStep ==
  ASSUME NEW c \in Cli, \A d \in Cli : d = c, stamp = NoStamp, stamp' = stamp,
         pc[c] = "request", pc'[c] \in Launching, NEW h \in Host,
         mem'[c].host = h, mem'[c].action # "connected", inst[h] # "held",
         inst' = [inst EXCEPT ![h] = "held"], TypeOK
  PROVE  HL!Next \/ Leases' = Leases
<1>1. ASSUME NEW g \in Host PROVE ~Named(g) /\ ~Named(g)' /\ ~Taken(g)
  BY NoStampBlank, NoneIsNew DEF Named, Taken, Launching
<1>2. ASSUME NEW g \in Host, g # h PROVE LeaseOf(g)' = LeaseOf(g)
  <2>1. ~Taken(g)' /\ inst'[g] = inst[g]
    BY <1>2 DEF Taken, TypeOK
  <2> QED BY <1>1, <2>1, SameLease
<1>3. LeaseOf(h) = "free"
  BY LeaseCases
<1>4. Taken(h)' /\ inst'[h] = "held"
  BY DEF Taken, TypeOK
<1>5. LeaseOf(h)' = "acquired"
  BY <1>1, <1>4, LeaseCasesNext
<1> QED BY <1>2, <1>3, <1>5, OneLease DEF Moves

LEMMA RecordStep ==
  ASSUME NEW c \in Cli, \A d \in Cli : d = c, TypeOK, InStep(c), WriteStamp(c)
  PROVE  HL!Next \/ Leases' = Leases
<1>1. /\ stamp = NoStamp /\ KnowsHost(mem[c]) /\ ~mem[c].cleanup_done
      /\ pc[c] \in Launching /\ pc'[c] = "launch" /\ inst' = inst
  BY DEF InStep, WriteStamp, Launching, Goto, TypeOK
<1>2. PICK b : stamp' = [mem[c] EXCEPT !.id = b, !.status = "launching"]
  BY DEF WriteStamp
<1>3. /\ stamp'.host = mem[c].host /\ stamp'.action = mem[c].action
      /\ stamp'.status = "launching" /\ ~stamp'.cleanup_done
  BY <1>1, <1>2 DEF TypeOK, Stamp
<1>4. ASSUME NEW g \in Host
      PROVE  /\ ~Named(g) /\ ~Taken(g)'
             /\ Taken(g) <=> mem[c].host = g /\ mem[c].action # "connected"
             /\ Named(g)' <=> mem[c].host = g /\ mem[c].action # "connected"
  BY <1>1, <1>3, NoStampBlank, NoneIsNew DEF Named, Taken, Launching
<1>5. ASSUME NEW g \in Host, g # mem[c].host \/ mem[c].action = "connected"
      PROVE  LeaseOf(g)' = LeaseOf(g)
  BY <1>1, <1>4, <1>5, SameLease
<1>6. ASSUME NEW h \in Host, h = mem[c].host, mem[c].action # "connected"
      PROVE  LeaseOf(h)' = LeaseOf(h) \/ Moves(LeaseOf(h), LeaseOf(h)')
  <2>1. CASE inst[h] # "held"
    BY <1>1, <2>1, LeaseCases, FreeNext
  <2>2. CASE inst[h] = "held"
    <3>1. LeaseOf(h) = "acquired"
      BY <1>4, <1>6, <2>2, LeaseCases
    <3>2. LeaseOf(h)' = "recorded"
      BY <1>1, <1>3, <1>4, <1>6, <2>2, LeaseCasesNext
    <3> QED BY <3>1, <3>2 DEF Moves
  <2> QED BY <2>1, <2>2
<1>7. CASE mem[c].action = "connected"
  BY <1>5, <1>7, LeasesKept
<1>8. CASE mem[c].action # "connected"
  BY <1>1, <1>5, <1>6, <1>8, OneLease DEF KnowsHost
<1> QED BY <1>7, <1>8

\* The stamp of a launch says that it is confirmed, or has failed.
LEMMA ConfirmStep ==
  ASSUME NEW c \in Cli, \A d \in Cli : d = c, inst' = inst,
         stamp # NoStamp, Whole(stamp), stamp.status = "launching",
         stamp'.status # "launching",
         stamp'.host = stamp.host, stamp'.action = stamp.action,
         stamp'.cleanup_done = stamp.cleanup_done \/ stamp'.cleanup_done,
         pc[c] \notin Launching, pc'[c] \notin Launching
  PROVE  HL!Next \/ Leases' = Leases
<1>1. ASSUME NEW g \in Host PROVE ~Taken(g) /\ ~Taken(g)'
  BY DEF Taken
<1>2. ASSUME NEW g \in Host, g # stamp.host \/ ~Named(g)
      PROVE  LeaseOf(g)' = LeaseOf(g)
  <2>1. ~Named(g) /\ ~Named(g)'
    BY <1>2 DEF Named
  <2> QED BY <1>1, <2>1, SameLease
<1>3. ASSUME NEW h \in Host, Named(h)
      PROVE  LeaseOf(h)' = LeaseOf(h) \/ Moves(LeaseOf(h), LeaseOf(h)')
  <2>1. CASE inst[h] # "held"
    BY <2>1, LeaseCases, FreeNext
  <2>2. CASE inst[h] = "held"
    <3>1. LeaseOf(h) = "recorded"
      BY <1>3, <2>2, LeaseCases
    <3>2. LeaseOf(h)' \in {"committed", "lost"}
      BY <1>1, <2>2, LeaseCasesNext
    <3> QED BY <3>1, <3>2 DEF Moves
  <2> QED BY <2>1, <2>2
<1> QED BY <1>2, <1>3, OneLease DEF Whole, KnowsHost

\* A stamp may say released of a machine that is.
LEMMA UnnameStep ==
  ASSUME NEW c \in Cli, \A d \in Cli : d = c, inst' = inst, Freed(stamp),
         stamp'.host = stamp.host, stamp'.action = stamp.action,
         pc[c] \notin Launching, pc'[c] \notin Launching
  PROVE  Leases' = Leases
<1>1. ASSUME NEW g \in Host PROVE LeaseOf(g)' = LeaseOf(g)
  <2>1. ~Taken(g) /\ ~Taken(g)'
    BY DEF Taken
  <2>2. CASE stamp.host # g \/ stamp.action = "connected"
    <3>1. ~Named(g) /\ ~Named(g)'
      BY <2>2 DEF Named
    <3> QED BY <2>1, <3>1, SameLease
  <2>3. CASE stamp.host = g /\ stamp.action # "connected"
    BY <2>3, LeaseCases, FreeNext DEF Freed
  <2> QED BY <2>2, <2>3
<1> QED BY <1>1, LeasesKept

\* A stamp goes that names no machine, or one that is released.
LEMMA WipeStep ==
  ASSUME NEW c \in Cli, \A d \in Cli : d = c, inst' = inst,
         stamp = NoStamp \/ stamp.cleanup_done, stamp' = NoStamp,
         pc[c] \notin Launching, pc'[c] \notin Launching
  PROVE  Leases' = Leases
<1>1. ASSUME NEW g \in Host PROVE LeaseOf(g)' = LeaseOf(g)
  <2>1. ~Taken(g) /\ ~Taken(g)'
    BY DEF Taken
  <2>2. ~Named(g) /\ ~Named(g)'
    BY NoStampBlank, NoneIsNew DEF Named
  <2> QED BY <2>1, <2>2, SameLease
<1> QED BY <1>1, LeasesKept

LEMMA CliLease ==
  ASSUME OneAtATime, AloneInv, NEW c \in Cli, CliStep(c)
  PROVE  HL!Next \/ Leases' = Leases
<1>0. /\ TypeOK /\ stamp \in Stamp /\ mem[c] \in Stamp
      /\ InStep(c) /\ Whole(stamp)
      /\ \A d \in Cli : d = c
  BY DEF AloneInv, TypeOK, OneAtATime
<1> USE <1>0
<1>1. ASSUME inst' = inst, stamp' = stamp,
             pc[c] \notin Launching, pc'[c] \notin Launching
      PROVE  Leases' = Leases
  BY <1>1, QuietStep DEF Takes
<1>2. CASE Start(c)
  <2>1. inst' = inst /\ stamp' = stamp
        /\ pc[c] \notin Launching /\ pc'[c] \notin Launching
    BY <1>2 DEF Start, StartSim, StartMonitor, StartAbandon, Goto, TypeOK, Launching
  <2> QED BY <1>1, <2>1
<1>3. CASE LaunchStep(c)
  <2>1. CASE Heal(c)
    BY <2>1, WipeStep DEF Heal, InStep, Goto, TypeOK, Launching
  <2>2. CASE RequestEphemeral(c)
    <3> PICK h \in Ephemeral : LaunchInstance(h) /\ Remember(c, h, "launched")
      BY <2>2 DEF RequestEphemeral
    <3>1. mem'[c].host = h /\ mem'[c].action = "launched"
      BY DEF Remember, NoStamp, TypeOK
    <3>2. h \in Host /\ inst[h] # "held" /\ inst' = [inst EXCEPT ![h] = "held"]
      BY DEF LaunchInstance, Host
    <3>3. /\ stamp = NoStamp /\ stamp' = stamp /\ pc[c] = "request"
          /\ pc'[c] \in Launching
      BY <2>2 DEF RequestEphemeral, InStep, Goto, TypeOK, Launching
    <3> QED BY <3>1, <3>2, <3>3, TakeStep
  <2>3. CASE RequestManaged(c)
    <3> PICK h \in Managed, action \in {"started", "connected"} :
          StartOrConnect(h, action) /\ Remember(c, h, action)
      BY <2>3 DEF RequestManaged
    <3>1. mem'[c].host = h /\ mem'[c].action = action
      BY DEF Remember, NoStamp, TypeOK
    <3>2. /\ stamp = NoStamp /\ stamp' = stamp /\ pc[c] = "request"
          /\ pc'[c] \in Launching /\ h \in Host
      BY <2>3 DEF RequestManaged, InStep, Goto, TypeOK, Launching, Host
    <3>3. CASE action = "started"
      <4>1. inst[h] # "held" /\ inst' = [inst EXCEPT ![h] = "held"]
        BY <3>3 DEF StartOrConnect
      <4> QED BY <3>1, <3>2, <3>3, <4>1, TakeStep
    <3>4. CASE action = "connected"
      <4>1. inst' = inst
        BY <3>4 DEF StartOrConnect
      <4>2. \A g \in Host : ~Takes(c, g) /\ ~Takes(c, g)'
        BY <3>1, <3>2, <3>4 DEF Takes, Launching
      <4> QED BY <3>2, <4>1, <4>2, QuietStep
    <3> QED BY <3>3, <3>4
  <2>4. CASE RequestExternal(c)
    <3> PICK h \in External : Remember(c, h, "connected")
      BY <2>4 DEF RequestExternal
    <3>1. mem'[c].action = "connected"
      BY DEF Remember, NoStamp, TypeOK
    <3>2. /\ stamp' = stamp /\ inst' = inst /\ pc[c] = "request"
      BY <2>4 DEF RequestExternal
    <3>3. \A g \in Host : ~Takes(c, g) /\ ~Takes(c, g)'
      BY <3>1, <3>2 DEF Takes, Launching
    <3> QED BY <3>2, <3>3, QuietStep
  <2>5. CASE Acquired(c)
    <3>1. /\ stamp' = stamp /\ inst' = inst /\ mem' = mem
          /\ pc[c] \in Launching /\ pc'[c] \in Launching
      BY <2>5 DEF Acquired, Goto, TypeOK, Launching
    <3>2. \A g \in Host : Takes(c, g)' <=> Takes(c, g)
      BY <3>1 DEF Takes
    <3> QED BY <3>1, <3>2, QuietStep
  <2>6. CASE Setup(c)
    <3>1. /\ stamp' = stamp /\ inst' = inst /\ mem' = mem
          /\ pc[c] \in Launching /\ pc'[c] \in Launching
      BY <2>6 DEF Setup, Goto, TypeOK, Launching
    <3>2. \A g \in Host : Takes(c, g)' <=> Takes(c, g)
      BY <3>1 DEF Takes
    <3> QED BY <3>1, <3>2, QuietStep
  <2>7. CASE SetupFails(c)
    <3>1. /\ stamp' = stamp /\ KnowsHost(mem[c])
          /\ pc[c] \in Launching /\ pc'[c] \notin Launching
      BY <2>7 DEF SetupFails, Done, Goto, TypeOK, Launching, InStep
    <3>2. CASE CleanupRemote(mem[c].action, mem[c].host)
      <4>1. /\ mem[c].action # "connected" =>
                 \A g \in Host : g # mem[c].host => (Takes(c, g)' <=> Takes(c, g))
            /\ mem[c].action = "connected" =>
                 \A g \in Host : Takes(c, g)' <=> Takes(c, g)
        BY <3>1 DEF Takes
      <4> QED BY <3>1, <3>2, <4>1, CleanupLease
    <3>3. CASE inst' = inst
      BY <3>1, <3>3, LoseStep DEF KnowsHost
    <3> QED BY <2>7, <3>2, <3>3 DEF SetupFails
  <2>8. CASE WriteStamp(c)
    BY <2>8, RecordStep
  <2>9. CASE LaunchRemoteWrapper(c)
    BY <1>1, <2>9 DEF LaunchRemoteWrapper, Goto, TypeOK, Launching
  <2>10. CASE VerifyWrapperStarted(c)
    BY <1>1, <2>10 DEF VerifyWrapperStarted, Goto, TypeOK, Launching
  <2>11. CASE MarkRunning(c)
    <3>1. /\ stamp # NoStamp /\ stamp.status = "launching" /\ stamp = mem[c]
          /\ stamp' = [mem[c] EXCEPT !.status = "running"] /\ inst' = inst
          /\ pc[c] \notin Launching /\ pc'[c] \notin Launching
      BY <2>11 DEF MarkRunning, InStep, Done, Goto, TypeOK, Launching
    <3>2. /\ stamp'.status # "launching" /\ stamp'.host = stamp.host
          /\ stamp'.action = stamp.action /\ stamp'.cleanup_done = stamp.cleanup_done
      BY <3>1 DEF Stamp
    <3> QED BY <3>1, <3>2, ConfirmStep
  <2>12. CASE LaunchFails(c)
    <3>1. /\ stamp # NoStamp /\ stamp.status = "launching" /\ inst' = inst
          /\ pc[c] \notin Launching /\ pc'[c] \notin Launching
      BY <2>12 DEF LaunchFails, InStep, Done, Goto, TypeOK, Launching
    <3>2. stamp' = [stamp EXCEPT !.status = "failed"]
      BY <2>12, <3>1 DEF LaunchFails
    <3>3. /\ stamp'.status # "launching" /\ stamp'.host = stamp.host
          /\ stamp'.action = stamp.action /\ stamp'.cleanup_done = stamp.cleanup_done
      BY <3>2 DEF Stamp
    <3> QED BY <3>1, <3>3, ConfirmStep
  <2> QED BY <1>3, <2>1, <2>2, <2>3, <2>4, <2>5, <2>6, <2>7, <2>8, <2>9, <2>10,
             <2>11, <2>12 DEF LaunchStep
<1>4. CASE MonitorStep(c)
  <2>0. pc[c] \notin Launching /\ pc'[c] \notin Launching
    BY <1>4 DEF MonitorStep, Attach, AttachRefused, Tail, ConnectionLost, Pull,
       Teardown, TeardownFails, Persist, Reread, Discard, Done, Goto, TypeOK,
       Launching
  <2>1. CASE Attach(c)
    <3>1. CASE mem[c].status = "launching"
      <4>1. /\ stamp # NoStamp /\ stamp.status = "launching" /\ stamp = mem[c]
            /\ stamp' = [mem[c] EXCEPT !.status = "running"] /\ inst' = inst
        BY <2>1, <3>1 DEF Attach, InStep
      <4>2. /\ stamp'.status # "launching" /\ stamp'.host = stamp.host
            /\ stamp'.action = stamp.action
            /\ stamp'.cleanup_done = stamp.cleanup_done
        BY <4>1 DEF Stamp
      <4> QED BY <2>0, <4>1, <4>2, ConfirmStep
    <3>2. CASE mem[c].status # "launching"
      BY <1>1, <2>0, <2>1, <3>2 DEF Attach
    <3> QED BY <3>1, <3>2
  <2>2. CASE Teardown(c) \/ TeardownFails(c)
    <3>1. stamp' = stamp /\ KnowsHost(mem[c])
      BY <2>2 DEF Teardown, TeardownFails, InStep, SameRun, Whole, KnowsHost
    <3>2. CASE inst' = inst
      BY <1>1, <2>0, <3>1, <3>2
    <3>3. CASE CleanupRemote(mem[c].action, mem[c].host)
      <4>1. \A g \in Host : Takes(c, g)' <=> Takes(c, g)
        BY <2>0 DEF Takes
      <4> QED BY <3>1, <3>3, <4>1, CleanupLease
    <3> QED BY <2>2, <3>2, <3>3 DEF Teardown, TeardownFails
  <2>3. CASE Persist(c)
    <3>1. /\ stamp' = mem[c] /\ inst' = inst /\ SameRun(stamp, mem[c])
          /\ stamp.status = "running"
          /\ mem[c].status \in {"succeeded", "failed"}
          /\ mem[c].cleanup_done = stamp.cleanup_done \/ Freed(stamp)
      BY <2>3 DEF Persist, InStep
    <3>2. stamp'.host = stamp.host /\ stamp'.action = stamp.action
      BY <3>1 DEF SameRun
    <3>3. CASE mem[c].cleanup_done = stamp.cleanup_done
      BY <2>0, <3>1, <3>2, <3>3, QuietStep DEF Takes
    <3>4. CASE Freed(stamp)
      BY <2>0, <3>1, <3>2, <3>4, UnnameStep
    <3> QED BY <3>1, <3>3, <3>4
  <2>4. CASE Discard(c)
    BY <2>0, <2>4, WipeStep DEF Discard, InStep
  <2>5. CASE AttachRefused(c) \/ Tail(c) \/ ConnectionLost(c) \/ Pull(c) \/ Reread(c)
    BY <1>1, <2>0, <2>5 DEF AttachRefused, Tail, ConnectionLost, Pull, Reread
  <2> QED BY <1>4, <2>1, <2>2, <2>3, <2>4, <2>5 DEF MonitorStep
<1>5. CASE AbandonStep(c)
  <2>0. pc[c] \notin Launching /\ pc'[c] \notin Launching
    BY <1>5 DEF AbandonStep, AbandonRelease, AbandonMark, AbandonWipe, Done, Goto, TypeOK, Launching
  <2>1. CASE AbandonRelease(c)
    <3>1. /\ stamp' = stamp /\ KnowsHost(mem[c])
          /\ CleanupRemote(mem[c].action, mem[c].host)
      BY <2>1 DEF AbandonRelease, InStep, Whole
    <3>2. \A g \in Host : Takes(c, g)' <=> Takes(c, g)
      BY <2>0 DEF Takes
    <3> QED BY <3>1, <3>2, CleanupLease
  <2>2. CASE AbandonMark(c)
    <3>1. /\ stamp = mem[c] /\ Freed(stamp) /\ inst' = inst
          /\ stamp' = [mem[c] EXCEPT !.status = "abandoned", !.cleanup_done = TRUE]
      BY <2>2 DEF AbandonMark, InStep
    <3>2. stamp'.host = stamp.host /\ stamp'.action = stamp.action
      BY <3>1 DEF Stamp
    <3> QED BY <2>0, <3>1, <3>2, UnnameStep
  <2>3. CASE AbandonWipe(c)
    BY <2>0, <2>3, WipeStep DEF AbandonWipe, InStep
  <2> QED BY <1>5, <2>1, <2>2, <2>3 DEF AbandonStep
<1>6. CASE Interrupt(c)
  <2>1. stamp' = stamp /\ inst' = inst /\ pc'[c] \notin Launching
    BY <1>6 DEF Interrupt, Done, Goto, TypeOK, Launching
  <2>2. CASE pc[c] \in Launching
    BY <2>1, <2>2, LoseStep DEF InStep, KnowsHost
  <2>3. CASE pc[c] \notin Launching
    BY <1>1, <2>1, <2>3
  <2> QED BY <2>2, <2>3
<1> QED BY <1>2, <1>3, <1>4, <1>5, <1>6 DEF CliStep

LEMMA OutsideLease ==
  ASSUME TypeOK, Outside
  PROVE  HL!Next \/ Leases' = Leases
<1>1. UNCHANGED <<stamp, pc, mem>>
  BY OutsideKept
<1>2. ASSUME NEW g \in Host,
             inst'[g] = inst[g] \/ (inst[g] # "held" /\ inst'[g] # "held")
      PROVE  LeaseOf(g)' = LeaseOf(g)
  BY <1>1, <1>2, SameLease DEF Named, Taken
<1>3. CASE inst' = inst
  BY <1>2, <1>3, LeasesKept
<1>4. ASSUME NEW h \in Host, HostGoesDown(h) PROVE HL!Next \/ Leases' = Leases
  <2>1. inst'[h] # "held" /\ \A g \in Host : g # h => inst'[g] = inst[g]
    BY <1>4 DEF HostGoesDown, GoesDown, TypeOK
  <2>2. LeaseOf(h)' = "free"
    BY <2>1, FreeNext
  <2> QED BY <1>2, <2>1, <2>2, OneLease DEF Moves
<1>5. ASSUME NEW h \in Host, OwnerStarts(h) PROVE Leases' = Leases
  <2>1. \A g \in Host :
          inst'[g] = inst[g] \/ (inst[g] # "held" /\ inst'[g] # "held")
    BY <1>5 DEF OwnerStarts, OwnerStartsIt, TypeOK
  <2> QED BY <1>2, <2>1, LeasesKept
<1> QED
  BY <1>3, <1>4, <1>5 DEF Outside, HostStep, SlotSettles, WrapperStep, WrapperStamps,
     WrapperClears, WrapperLoads, WrapperDrives, WrapperExits, WrapperDies, vars

\* A machine that a run pays for is under a lease (HostLease): of one command at
\* a time, none loses a lease once the launch is confirmed or has failed,
\* whatever is interrupted, lost or fails.
THEOREM LeaseSpecAlways == OneAtATime /\ Spec => LeaseSpec
<1>1. Init => HL!Init
  <2> SUFFICES ASSUME Init PROVE \A h \in Host : LeaseOf(h) = "free"
    BY DEF HL!Init
  <2> QED BY LeaseCases DEF Init, HostsInit, Host
<1>2. ASSUME OneAtATime PROVE Spec => LeaseSpec
  <2>1. AloneInv /\ [Next]_vars => AloneInv'
    BY <1>2, AloneStep
  <2>2. AloneInv /\ [Next]_vars => [HL!Next]_Leases
    <3> SUFFICES ASSUME AloneInv, [Next]_vars PROVE [HL!Next]_Leases
      OBVIOUS
    <3>1. TypeOK
      BY DEF AloneInv
    <3> QED
      BY <1>2, <3>1, CliLease, OutsideLease, WhoSteps
  <2> QED BY <1>1, <2>1, <2>2, AloneInit, PTL DEF Spec, LeaseSpec, HL!Spec, Leases
<1> QED BY <1>2
=============================================================================
