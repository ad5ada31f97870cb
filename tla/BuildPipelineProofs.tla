------------------------- MODULE BuildPipelineProofs -------------------------
(***************************************************************************)
(* What holds of BuildPipeline for any number of builds and hosts.  With   *)
(* any number of processes: type correctness, that a cleanup_done can be   *)
(* trusted, that a launched machine serves one build, and that nobody      *)
(* stops a machine that its owner runs.  Of one command at a time: that    *)
(* one build is in flight, that its status only moves forward, and the     *)
(* refinement of HostLease.                                                *)
(***************************************************************************)
EXTENDS BuildPipeline, TLAPS

-----------------------------------------------------------------------------
\* Types

LEMMA NoStampType == NoStamp \in Stamp
  BY DEF NoStamp, Stamp, NoResult, Result

LEMMA RememberType ==
  ASSUME NEW h \in Host, NEW action \in Action
  PROVE  [NoStamp EXCEPT !.host = h, !.action = action] \in Stamp
  BY DEF NoStamp, Stamp, NoResult, Result

LEMMA CleanupType ==
  ASSUME TypeOK, NEW action, NEW h, CleanupRemote(action, h)
  PROVE  /\ inst' \in [Host -> InstState]
         /\ job' \in [Job -> JobState]
  <1> USE DEF TypeOK, InstState, JobState
  <1>1. CASE action = "launched"
    BY <1>1 DEF CleanupRemote, KillJobsOn
  <1>2. CASE action = "started" /\ Up(h)
    BY <1>2 DEF CleanupRemote, KillJobsOn
  <1>3. CASE action # "launched" /\ ~(action = "started" /\ Up(h))
    BY <1>3 DEF CleanupRemote
  <1> QED BY <1>1, <1>2, <1>3

LEMMA TypeInit == Init => TypeOK
  BY DEF Init, HostsInit, TypeOK, NoStamp, Stamp, NoResult, Result, EmptyDir, RemoteDir,
         BuildStatus, InstState, JobState, AfiState, Host

LEMMA TypeStep == TypeOK /\ [Next]_vars => TypeOK'
<1> SUFFICES ASSUME TypeOK, [Next]_vars PROVE TypeOK'
  OBVIOUS
<1> USE DEF TypeOK
<1>1. ASSUME NEW c \in Cli, Start(c) PROVE TypeOK'
  <2> USE DEF Goto
  <2>1. CASE StartBuild(c) BY <2>1 DEF StartBuild, LaunchPc
  <2>2. CASE StartMonitor(c) BY <2>2 DEF StartMonitor, MonitorPc
  <2>3. CASE StartAbandon(c) BY <2>3 DEF StartAbandon, AbandonPc
  <2>4. CASE Clean(c) BY <2>4, NoStampType DEF Clean
  <2> QED BY <1>1, <2>1, <2>2, <2>3, <2>4 DEF Start
<1>2. ASSUME NEW c \in Cli, LaunchStep(c) PROVE TypeOK'
  <2> USE DEF Goto, LaunchPc
  <2>1. CASE GuardAgain(c) BY <2>1 DEF GuardAgain
  <2>2. CASE RequestEphemeral(c)
    <3> PICK h \in Ephemeral :
          /\ inst' = [inst EXCEPT ![h] = "held"]
          /\ Remember(c, h, "launched")
      BY <2>2 DEF RequestEphemeral, LaunchInstance
    <3>1. mem' \in [Cli -> Stamp]
      BY RememberType DEF Remember, Host, Action
    <3> QED BY <2>2, <3>1 DEF RequestEphemeral, LaunchInstance, InstState
  <2>3. CASE RequestManaged(c)
    <3> PICK h \in Managed, action \in Action :
          /\ inst' \in {inst, [inst EXCEPT ![h] = "held"]}
          /\ Remember(c, h, action)
      BY <2>3 DEF RequestManaged, StartOrConnect, Action
    <3>1. mem' \in [Cli -> Stamp]
      BY RememberType DEF Remember, Host
    <3>2. inst' \in [Host -> InstState] BY DEF InstState
    <3>3. /\ pc' = [pc EXCEPT ![c] = "acquire"]
          /\ UNCHANGED <<stamp, remote, job, home, afi>>
      BY <2>3 DEF RequestManaged, StartOrConnect
    <3> QED BY <3>1, <3>2, <3>3
  <2>4. CASE RequestExternal(c)
    <3> PICK h \in External : Remember(c, h, "connected")
      BY <2>4 DEF RequestExternal
    <3>1. h \in Host /\ "connected" \in Action BY DEF Host, Action
    <3>2. [NoStamp EXCEPT !.host = h, !.action = "connected"] \in Stamp
      BY <3>1, RememberType
    <3>3. mem' \in [Cli -> Stamp]
      BY <3>2 DEF Remember
    <3> QED BY <2>4, <3>3 DEF RequestExternal
  <2>5. CASE Acquired(c) BY <2>5 DEF Acquired
  <2>6. CASE Setup(c)
    BY <2>6 DEF Setup, EmptyDir, RemoteDir, NoResult, Result
  <2>7. CASE SetupFails(c)
    BY <2>7, CleanupType, NoStampType DEF SetupFails, Done
  <2>8. CASE WriteStamp(c)
    <3> PICK b \in Job :
          /\ job' = [job EXCEPT ![b] = "drawn"]
          /\ home' = [home EXCEPT ![b] = mem[c].host]
          /\ stamp' = [mem[c] EXCEPT !.id = b, !.status = "launching"]
      BY <2>8 DEF WriteStamp
    <3>1. stamp' \in Stamp BY DEF Stamp, BuildStatus
    <3>2. home' \in [Job -> Host \cup {None}] BY DEF Stamp
    <3> QED BY <2>8, <3>1, <3>2 DEF WriteStamp, JobState
  <2>9. CASE LaunchRemoteWrapper(c)
    BY <2>9 DEF LaunchRemoteWrapper, JobState
  <2>10. CASE VerifyWrapperStarted(c) BY <2>10 DEF VerifyWrapperStarted
  <2>11. CASE MarkRunning(c)
    <3>1. stamp' \in Stamp BY <2>11 DEF MarkRunning, Stamp, BuildStatus
    <3> QED BY <2>11, <3>1, NoStampType DEF MarkRunning, Done
  <2>12. CASE LaunchFails(c)
    <3>1. stamp' \in Stamp
      BY <2>12 DEF LaunchFails, Stamp, BuildStatus, Terminal, NoStamp, NoResult,
         Result
    <3> QED BY <2>12, <3>1, NoStampType DEF LaunchFails, Done
  <2> QED BY <1>2, <2>1, <2>2, <2>3, <2>4, <2>5, <2>6, <2>7, <2>8, <2>9, <2>10,
             <2>11, <2>12 DEF LaunchStep
<1>3. ASSUME NEW c \in Cli, MonitorStep(c) PROVE TypeOK'
  <2> USE DEF Goto, MonitorPc
  <2>1. CASE Attach(c)
    <3>1. [mem[c] EXCEPT !.status = "running"] \in Stamp
      BY DEF Stamp, BuildStatus
    <3> QED BY <2>1, <3>1 DEF Attach
  <2>2. CASE AttachRefused(c) BY NoStampType, <2>2 DEF AttachRefused, Done
  <2>3. CASE Tail(c) BY <2>3 DEF Tail
  <2>4. CASE ConnectionLost(c) BY NoStampType, <2>4 DEF ConnectionLost, Done
  <2>5. CASE Pull(c)
    <3> DEFINE found  == remote[mem[c].host].result
               result == IF found = NoResult THEN [id |-> mem[c].id, ok |-> FALSE]
                         ELSE found
               status == IF result.ok THEN "finalizing" ELSE "wrapper_failed"
    <3>1. mem' = [mem EXCEPT ![c] = [mem[c] EXCEPT !.result = result,
                                                   !.status = status]]
      BY <2>5 DEF Pull
    <3>2. remote[mem[c].host] \in RemoteDir
      BY <2>5 DEF Pull, Up
    <3>3. result \in Result
      BY <3>2 DEF RemoteDir, Result, Stamp
    <3>4. [mem[c] EXCEPT !.result = result, !.status = status] \in Stamp
      BY <3>3 DEF Stamp, BuildStatus, Terminal
    <3> QED BY <2>5, <3>1, <3>4 DEF Pull
  <2>6. CASE Teardown(c)
    <3>1. [mem[c] EXCEPT !.cleanup_done = TRUE] \in Stamp BY DEF Stamp
    <3> QED BY <2>6, <3>1, CleanupType DEF Teardown
  <2>7. CASE TeardownFails(c) BY <2>7, CleanupType DEF TeardownFails
  <2>8. CASE Persist(c) BY <2>8 DEF Persist
  <2>9. CASE Reread(c) BY NoStampType, <2>9 DEF Reread, Done
  <2>10. CASE PollPending(c) BY <2>10 DEF PollPending
  <2>11. CASE PollSettled(c)
    <3>1. stamp' \in Stamp
      BY <2>11 DEF PollSettled, Stamp, BuildStatus, Terminal
    <3> QED BY NoStampType, <2>11, <3>1 DEF PollSettled, Done
  <2> QED BY <1>3, <2>1, <2>2, <2>3, <2>4, <2>5, <2>6, <2>7, <2>8, <2>9, <2>10,
             <2>11 DEF MonitorStep
<1>4. ASSUME NEW c \in Cli, AbandonStep(c) PROVE TypeOK'
  <2> USE DEF Goto, AbandonPc
  <2>1. CASE AbandonRelease(c) BY <2>1, CleanupType DEF AbandonRelease
  <2>2. CASE AbandonMark(c)
    <3>1. stamp' \in Stamp
      BY <2>2 DEF AbandonMark, Stamp, BuildStatus, Terminal
    <3> QED BY <2>2, <3>1 DEF AbandonMark
  <2>3. CASE AbandonWipe(c) BY NoStampType, <2>3 DEF AbandonWipe
  <2>4. CASE AbandonRmtree(c) BY NoStampType, <2>4 DEF AbandonRmtree, Done
  <2> QED BY <1>4, <2>1, <2>2, <2>3, <2>4 DEF AbandonStep
<1>5. ASSUME NEW c \in Cli, Interrupt(c) PROVE TypeOK'
  BY <1>5, NoStampType DEF Interrupt, Done, Goto
<1>6. ASSUME NEW b \in Job, WrapperStep(b) \/ AfiSettles(b) PROVE TypeOK'
  <2>1. CASE WrapperStamps(b)
    <3>1. remote' \in [Host -> RemoteDir]
      BY <2>1 DEF WrapperStamps, RemoteDir
    <3> QED BY <2>1, <3>1 DEF WrapperStamps, JobState
  <2>2. ASSUME NEW ok \in BOOLEAN, WrapperExits(b, ok) PROVE TypeOK'
    <3>1. remote' \in [Host -> RemoteDir]
      BY <2>2 DEF WrapperExits, RemoteDir, Result
    <3> QED BY <2>2, <3>1 DEF WrapperExits, JobState, AfiState
  <2>3. CASE WrapperDies(b) BY <2>3 DEF WrapperDies, JobState
  <2>4. CASE AfiSettles(b) BY <2>4 DEF AfiSettles, AfiState
  <2> QED BY <1>6, <2>1, <2>2, <2>3, <2>4 DEF WrapperStep
<1>7. ASSUME NEW h \in Host, HostStep(h) PROVE TypeOK'
  BY <1>7 DEF HostStep, HostGoesDown, GoesDown, OwnerStarts, OwnerStartsIt,
     KillJobsOn, InstState, JobState
<1>8. CASE UNCHANGED vars BY <1>8 DEF vars
<1> QED BY <1>1, <1>2, <1>3, <1>4, <1>5, <1>6, <1>7, <1>8 DEF Next

\* The state keeps its types: no step of any command, however the commands
\* interleave, leaves a stamp, a process or a machine in a state the code
\* does not have.
THEOREM TypeCorrect == Spec => []TypeOK
  BY TypeInit, TypeStep, PTL DEF Spec

-----------------------------------------------------------------------------
\* Steps

CliStep(c) ==
  Start(c) \/ LaunchStep(c) \/ MonitorStep(c) \/ AbandonStep(c) \/ Interrupt(c)

\* A command touches no other command's memory.
LEMMA OthersKept ==
  ASSUME TypeOK, NEW c \in Cli, CliStep(c), NEW d \in Cli, d # c
  PROVE  mem'[d] = mem[d] /\ pc'[d] = pc[d]
<1> USE DEF TypeOK, Goto, Done
<1>1. CASE Start(c)
  BY <1>1 DEF Start, StartBuild, StartMonitor, StartAbandon, Clean
<1>2. CASE LaunchStep(c)
  BY <1>2 DEF LaunchStep, GuardAgain, RequestEphemeral, RequestManaged,
     RequestExternal, Remember, Acquired, Setup, SetupFails, WriteStamp,
     LaunchRemoteWrapper, VerifyWrapperStarted, MarkRunning, LaunchFails
<1>3. CASE MonitorStep(c)
  BY <1>3 DEF MonitorStep, Attach, AttachRefused, Tail, ConnectionLost, Pull,
     Teardown, TeardownFails, Persist, Reread, PollPending, PollSettled
<1>4. CASE AbandonStep(c)
  BY <1>4 DEF AbandonStep, AbandonRelease, AbandonMark, AbandonWipe, AbandonRmtree
<1>5. CASE Interrupt(c)
  BY <1>5 DEF Interrupt
<1> QED BY <1>1, <1>2, <1>3, <1>4, <1>5 DEF CliStep

\* The wrappers, AWS and the machines touch neither stamp nor commands.
LEMMA OutsideKept ==
  ASSUME \/ \E b \in Job : WrapperStep(b) \/ AfiSettles(b)
         \/ \E h \in Host : HostStep(h)
         \/ UNCHANGED vars
  PROVE  UNCHANGED <<stamp, pc, mem>>
  BY DEF WrapperStep, WrapperStamps, WrapperExits, WrapperDies, AfiSettles,
     HostStep, HostGoesDown, OwnerStarts, vars

LEMMA CleanupKeepsTerminated ==
  ASSUME TypeOK, NEW action, NEW g, CleanupRemote(action, g),
         NEW h \in Host, inst[h] = "terminated"
  PROVE  inst'[h] = "terminated"
<1> USE DEF TypeOK
<1>1. CASE action = "launched" BY <1>1 DEF CleanupRemote
<1>2. CASE action = "started" /\ Up(g) BY <1>2 DEF CleanupRemote, Up
<1>3. CASE action # "launched" /\ ~(action = "started" /\ Up(g))
  BY <1>3 DEF CleanupRemote
<1> QED BY <1>1, <1>2, <1>3

\* A terminated machine never comes back.
LEMMA TerminatedStays ==
  ASSUME TypeOK, [Next]_vars, NEW h \in Host, inst[h] = "terminated"
  PROVE  inst'[h] = "terminated"
<1> USE CleanupKeepsTerminated DEF TypeOK
<1>1. ASSUME NEW c \in Cli, Start(c) PROVE inst' = inst
  BY <1>1 DEF Start, StartBuild, StartMonitor, StartAbandon, Clean
<1>2. ASSUME NEW c \in Cli, LaunchStep(c) PROVE inst'[h] = "terminated"
  <2>1. CASE RequestEphemeral(c) BY <2>1 DEF RequestEphemeral, LaunchInstance
  <2>2. CASE RequestManaged(c) BY <2>2 DEF RequestManaged, StartOrConnect
  <2>3. CASE SetupFails(c) BY <2>3 DEF SetupFails
  <2> QED
    BY <1>2, <2>1, <2>2, <2>3 DEF LaunchStep, GuardAgain, RequestExternal,
       Acquired, Setup, WriteStamp, LaunchRemoteWrapper, VerifyWrapperStarted,
       MarkRunning, LaunchFails
<1>3. ASSUME NEW c \in Cli, MonitorStep(c) PROVE inst'[h] = "terminated"
  <2>1. CASE Teardown(c) BY <2>1 DEF Teardown
  <2>2. CASE TeardownFails(c) BY <2>2 DEF TeardownFails
  <2> QED
    BY <1>3, <2>1, <2>2 DEF MonitorStep, Attach, AttachRefused, Tail,
       ConnectionLost, Pull, Persist, Reread, PollPending, PollSettled
<1>4. ASSUME NEW c \in Cli, AbandonStep(c) PROVE inst'[h] = "terminated"
  BY <1>4 DEF AbandonStep, AbandonRelease, AbandonMark, AbandonWipe, AbandonRmtree
<1>5. ASSUME NEW c \in Cli, Interrupt(c) PROVE inst' = inst
  BY <1>5 DEF Interrupt
<1>6. ASSUME NEW b \in Job, WrapperStep(b) \/ AfiSettles(b) PROVE inst' = inst
  BY <1>6 DEF WrapperStep, WrapperStamps, WrapperExits, WrapperDies, AfiSettles
<1>7. ASSUME NEW g \in Host, HostStep(g) PROVE inst'[h] = "terminated"
  BY <1>7 DEF HostStep, HostGoesDown, GoesDown, OwnerStarts, OwnerStartsIt, Up
<1>8. CASE UNCHANGED vars BY <1>8 DEF vars
<1> QED BY <1>1, <1>2, <1>3, <1>4, <1>5, <1>6, <1>7, <1>8 DEF Next

-----------------------------------------------------------------------------
\* cleanup_done can be trusted

TrustedNext(s) ==
  /\ HostKnown(s)
  /\ s.cleanup_done /\ s.action = "launched" /\ s.status # "wrapper_failed" =>
       inst'[s.host] = "terminated"

LEMMA TrustedKept ==
  ASSUME TypeOK, [Next]_vars, NEW s \in Stamp, Trusted(s)
  PROVE  TrustedNext(s)
<1>1. CASE s.host \in Ephemeral
  BY <1>1, TerminatedStays DEF Trusted, TrustedNext, Sound, Host
<1>2. CASE s.host \notin Ephemeral
  BY <1>2 DEF Trusted, TrustedNext, HostKnown
<1> QED BY <1>1, <1>2

LEMMA NoStampTrusted == TrustedNext(NoStamp) /\ Trusted(NoStamp)
  BY NoneIsNew DEF TrustedNext, Trusted, Sound, HostKnown, NoStamp, Host

CarefulNext(c, s) ==
  /\ pc'[c] \in Working => s.status # "wrapper_failed"
  /\ pc'[c] = "mark" /\ s.action = "launched" => inst'[s.host] = "terminated"

\* It is enough to look at the stamp and at the process that moved.
LEMMA CleanupOneStep ==
  ASSUME CleanupInv, NEW c \in Cli, CliStep(c),
         TrustedNext(stamp'), TrustedNext(mem'[c]), CarefulNext(c, mem'[c])
  PROVE  CleanupInv'
<1>1. [Next]_vars BY DEF CliStep, Next
<1>2. TypeOK' BY <1>1, TypeStep DEF CleanupInv
<1>3. Trusted(stamp)' BY DEF Trusted, TrustedNext, Sound, HostKnown
<1>4. ASSUME NEW d \in Cli PROVE Trusted(mem[d])' /\ Careful(d)'
  <2>1. CASE d = c
    BY <2>1 DEF Trusted, TrustedNext, Sound, HostKnown, Careful, CarefulNext
  <2>2. CASE d # c
    <3>1. mem'[d] = mem[d] /\ pc'[d] = pc[d]
      BY <2>2, OthersKept DEF CleanupInv
    <3>2. mem[d] \in Stamp BY DEF CleanupInv, TypeOK
    <3>3. TrustedNext(mem[d]) BY <1>1, <3>2, TrustedKept DEF CleanupInv
    <3>4. Trusted(mem[d])'
      BY <3>1, <3>3 DEF Trusted, TrustedNext, Sound, HostKnown
    <3>5. Careful(d) /\ Trusted(mem[d]) BY DEF CleanupInv
    <3>6. mem[d].action = "launched" => mem[d].host \in Host
      BY <3>5 DEF Trusted, HostKnown, Host
    <3>7. mem[d].action = "launched" /\ inst[mem[d].host] = "terminated" =>
            inst'[mem[d].host] = "terminated"
      BY <1>1, <3>6, TerminatedStays DEF CleanupInv
    <3>8. Careful(d)' BY <3>1, <3>5, <3>7 DEF Careful
    <3> QED BY <3>4, <3>8
  <2> QED BY <2>1, <2>2
<1> QED BY <1>2, <1>3, <1>4 DEF CleanupInv

LEMMA CleanupStep == CleanupInv /\ [Next]_vars => CleanupInv'
<1> SUFFICES ASSUME CleanupInv, [Next]_vars PROVE CleanupInv'
  OBVIOUS
<1>0. /\ TypeOK
      /\ TrustedNext(stamp)
      /\ \A c \in Cli : TrustedNext(mem[c]) /\ Careful(c) /\ mem[c] \in Stamp
  BY TrustedKept DEF CleanupInv, TypeOK
<1> USE DEF Goto, Done
<1>1. ASSUME NEW c \in Cli, Start(c) PROVE CleanupInv'
  <2> SUFFICES TrustedNext(stamp') /\ TrustedNext(mem'[c]) /\ CarefulNext(c, mem'[c])
    BY <1>1, CleanupOneStep DEF CliStep
  <2>1. CASE StartBuild(c)
    BY <1>0, <2>1 DEF StartBuild, CarefulNext, Working, TypeOK
  <2>2. CASE StartMonitor(c)
    BY <1>0, <2>2 DEF StartMonitor, CarefulNext, Working, Terminal, TypeOK
  <2>3. CASE StartAbandon(c)
    BY <1>0, <2>3 DEF StartAbandon, CarefulNext, Working, TypeOK
  <2>4. CASE Clean(c)
    BY <1>0, <2>4, NoStampTrusted DEF Clean, CarefulNext, Careful, Working, TypeOK
  <2> QED BY <1>1, <2>1, <2>2, <2>3, <2>4 DEF Start
<1>2. ASSUME NEW c \in Cli, LaunchStep(c) PROVE CleanupInv'
  <2> SUFFICES TrustedNext(stamp') /\ TrustedNext(mem'[c]) /\ CarefulNext(c, mem'[c])
    BY <1>2, CleanupOneStep DEF CliStep
  <2> USE <1>0 DEF TypeOK, CarefulNext, Careful, Working
  <2>1. CASE GuardAgain(c) BY <2>1 DEF GuardAgain
  <2>2. CASE RequestEphemeral(c)
    <3> PICK h \in Ephemeral : Remember(c, h, "launched")
      BY <2>2 DEF RequestEphemeral
    <3>1. mem'[c] = [NoStamp EXCEPT !.host = h, !.action = "launched"]
      BY DEF Remember
    <3>2. TrustedNext(mem'[c]) /\ mem'[c].status = "absent"
      BY <3>1 DEF NoStamp, TrustedNext, HostKnown
    <3> QED BY <2>2, <3>2 DEF RequestEphemeral
  <2>3. CASE RequestManaged(c)
    <3> PICK h \in Managed, action \in {"started", "connected"} :
          Remember(c, h, action)
      BY <2>3 DEF RequestManaged
    <3>1. mem'[c] = [NoStamp EXCEPT !.host = h, !.action = action]
      BY DEF Remember
    <3>2. TrustedNext(mem'[c]) /\ mem'[c].status = "absent"
      BY <3>1, HostKindsDisjoint DEF NoStamp, TrustedNext, HostKnown
    <3> QED BY <2>3, <3>2 DEF RequestManaged
  <2>4. CASE RequestExternal(c)
    <3> PICK h \in External : Remember(c, h, "connected")
      BY <2>4 DEF RequestExternal
    <3>1. mem'[c] = [NoStamp EXCEPT !.host = h, !.action = "connected"]
      BY DEF Remember
    <3>2. TrustedNext(mem'[c]) /\ mem'[c].status = "absent"
      BY <3>1, HostKindsDisjoint DEF NoStamp, TrustedNext, HostKnown
    <3> QED BY <2>4, <3>2 DEF RequestExternal
  <2>5. CASE Acquired(c) BY <2>5 DEF Acquired
  <2>6. CASE Setup(c) BY <2>6 DEF Setup
  <2>7. CASE SetupFails(c) BY <2>7, NoStampTrusted DEF SetupFails
  <2>8. CASE WriteStamp(c)
    <3> PICK b \in Job : stamp' = [mem[c] EXCEPT !.id = b, !.status = "launching"]
      BY <2>8 DEF WriteStamp
    <3>1. mem[c].status # "wrapper_failed" BY <2>8 DEF WriteStamp
    <3>2. TrustedNext(stamp') /\ stamp'.status = "launching"
      BY <3>1 DEF TrustedNext, HostKnown, Stamp
    <3> QED BY <2>8, <3>2 DEF WriteStamp
  <2>9. CASE LaunchRemoteWrapper(c) BY <2>9 DEF LaunchRemoteWrapper
  <2>10. CASE VerifyWrapperStarted(c) BY <2>10 DEF VerifyWrapperStarted
  <2>11. CASE MarkRunning(c)
    <3>1. mem[c].status # "wrapper_failed" BY <2>11 DEF MarkRunning
    <3>2. TrustedNext([mem[c] EXCEPT !.status = "running"])
      BY <3>1 DEF TrustedNext, HostKnown, Stamp
    <3> QED BY <2>11, <3>2, NoStampTrusted DEF MarkRunning
  <2>12. CASE LaunchFails(c)
    <3>1. TrustedNext([stamp EXCEPT !.status = "wrapper_failed",
                                    !.cleanup_done = TRUE])
      BY DEF TrustedNext, HostKnown, Stamp
    <3> QED BY <2>12, <3>1, NoStampTrusted DEF LaunchFails
  <2> QED BY <1>2, <2>1, <2>2, <2>3, <2>4, <2>5, <2>6, <2>7, <2>8, <2>9, <2>10,
             <2>11, <2>12 DEF LaunchStep
<1>3. ASSUME NEW c \in Cli, MonitorStep(c) PROVE CleanupInv'
  <2> SUFFICES TrustedNext(stamp') /\ TrustedNext(mem'[c]) /\ CarefulNext(c, mem'[c])
    BY <1>3, CleanupOneStep DEF CliStep
  <2> USE <1>0 DEF TypeOK, CarefulNext, Careful, Working
  <2>1. CASE Attach(c)
    <3>1. mem[c].status # "wrapper_failed" BY <2>1 DEF Attach
    <3>2. TrustedNext([mem[c] EXCEPT !.status = "running"])
      BY <3>1 DEF TrustedNext, HostKnown, Stamp
    <3>3. [mem[c] EXCEPT !.status = "running"].status = "running" BY DEF Stamp
    <3> QED BY <2>1, <3>1, <3>2, <3>3 DEF Attach
  <2>2. CASE AttachRefused(c) BY <2>2, NoStampTrusted DEF AttachRefused
  <2>3. CASE Tail(c) BY <2>3 DEF Tail
  <2>4. CASE ConnectionLost(c) BY <2>4, NoStampTrusted DEF ConnectionLost
  <2>5. CASE Pull(c)
    <3> PICK result, status :
          mem' = [mem EXCEPT ![c] = [mem[c] EXCEPT !.result = result,
                                                   !.status = status]]
      BY <2>5 DEF Pull
    <3>1. mem[c].status # "wrapper_failed" BY <2>5 DEF Pull
    <3>2. TrustedNext(mem'[c]) BY <3>1 DEF TrustedNext, HostKnown, Stamp
    <3> QED BY <2>5, <3>2 DEF Pull
  <2>6. CASE Teardown(c)
    <3>1. mem'[c] = [mem[c] EXCEPT !.cleanup_done = TRUE]
      BY <2>6 DEF Teardown
    <3>2. CASE mem[c].cleanup_done
      <4>1. TrustedNext(mem'[c]) BY <3>1, <3>2 DEF TrustedNext, HostKnown, Stamp
      <4> QED BY <2>6, <4>1 DEF Teardown
    <3>3. CASE ~mem[c].cleanup_done /\ mem[c].action = "launched"
      <4>1. mem[c].host \in Host BY <3>3 DEF TrustedNext, HostKnown, Host
      <4>2. CleanupRemote("launched", mem[c].host)
        BY <2>6, <3>3 DEF Teardown
      <4>3. inst'[mem[c].host] = "terminated"
        BY <4>1, <4>2 DEF CleanupRemote
      <4>4. TrustedNext(mem'[c])
        BY <3>1, <4>3 DEF TrustedNext, HostKnown, Stamp
      <4> QED BY <2>6, <4>4 DEF Teardown
    <3>4. CASE mem[c].action # "launched"
      <4>1. TrustedNext(mem'[c]) BY <3>1, <3>4 DEF TrustedNext, HostKnown, Stamp
      <4> QED BY <2>6, <4>1 DEF Teardown
    <3> QED BY <3>2, <3>3, <3>4
  <2>7. CASE TeardownFails(c) BY <2>7 DEF TeardownFails
  <2>8. CASE Persist(c) BY <2>8 DEF Persist
  <2>9. CASE Reread(c) BY <2>9, NoStampTrusted DEF Reread
  <2>10. CASE PollPending(c) BY <2>10 DEF PollPending
  <2>11. CASE PollSettled(c)
    <3> PICK status \in {"succeeded", "failed"} :
          stamp' = [mem[c] EXCEPT !.status = status]
      BY <2>11 DEF PollSettled
    <3>1. mem[c].status # "wrapper_failed" BY <2>11 DEF PollSettled
    <3>2. TrustedNext(stamp') BY <3>1 DEF TrustedNext, HostKnown, Stamp
    <3> QED BY <2>11, <3>2, NoStampTrusted DEF PollSettled
  <2> QED BY <1>3, <2>1, <2>2, <2>3, <2>4, <2>5, <2>6, <2>7, <2>8, <2>9, <2>10,
             <2>11 DEF MonitorStep
<1>4. ASSUME NEW c \in Cli, AbandonStep(c) PROVE CleanupInv'
  <2> SUFFICES TrustedNext(stamp') /\ TrustedNext(mem'[c]) /\ CarefulNext(c, mem'[c])
    BY <1>4, CleanupOneStep DEF CliStep
  <2> USE <1>0 DEF TypeOK, CarefulNext, Careful, Working
  <2>1. CASE AbandonRelease(c)
    <3>1. ASSUME mem[c].action = "launched"
          PROVE  inst'[mem[c].host] = "terminated"
      <4>1. mem[c].host \in Host BY <3>1 DEF TrustedNext, HostKnown, Host
      <4> QED BY <2>1, <3>1, <4>1 DEF AbandonRelease, CleanupRemote
    <3> QED BY <2>1, <3>1 DEF AbandonRelease
  <2>2. CASE AbandonMark(c)
    <3>1. inst' = inst BY <2>2 DEF AbandonMark
    <3>2. TrustedNext([mem[c] EXCEPT !.status = "abandoned", !.cleanup_done = TRUE])
      BY <2>2, <3>1 DEF AbandonMark, TrustedNext, HostKnown, Stamp
    <3> QED BY <2>2, <3>2 DEF AbandonMark
  <2>3. CASE AbandonWipe(c) BY <2>3, NoStampTrusted DEF AbandonWipe
  <2>4. CASE AbandonRmtree(c) BY <2>4, NoStampTrusted DEF AbandonRmtree
  <2> QED BY <1>4, <2>1, <2>2, <2>3, <2>4 DEF AbandonStep
<1>5. ASSUME NEW c \in Cli, Interrupt(c) PROVE CleanupInv'
  <2>1. TrustedNext(stamp') /\ TrustedNext(mem'[c]) /\ CarefulNext(c, mem'[c])
    BY <1>0, <1>5, NoStampTrusted DEF Interrupt, CarefulNext, Working, TypeOK
  <2> QED BY <1>5, <2>1, CleanupOneStep DEF CliStep
<1>6. ASSUME \/ \E b \in Job : WrapperStep(b) \/ AfiSettles(b)
             \/ \E h \in Host : HostStep(h)
             \/ UNCHANGED vars
      PROVE  CleanupInv'
  <2>1. UNCHANGED <<stamp, pc, mem>> BY <1>6, OutsideKept
  <2>2. TypeOK' BY <1>0, TypeStep
  <2>3. Trusted(stamp)' /\ \A c \in Cli : Trusted(mem[c])'
    BY <1>0, <2>1 DEF Trusted, TrustedNext, Sound, HostKnown
  <2>4. ASSUME NEW c \in Cli PROVE Careful(c)'
    <3>1. mem[c].action = "launched" => mem[c].host \in Host
      BY <1>0 DEF TrustedNext, HostKnown, Host
    <3>2. mem[c].action = "launched" /\ inst[mem[c].host] = "terminated" =>
            inst'[mem[c].host] = "terminated"
      BY <1>0, <3>1, TerminatedStays
    <3> QED BY <1>0, <2>1, <3>2 DEF Careful
  <2> QED BY <2>2, <2>3, <2>4 DEF CleanupInv
<1> QED BY <1>1, <1>2, <1>3, <1>4, <1>5, <1>6 DEF Next

LEMMA CleanupInit == Init => CleanupInv
<1> SUFFICES ASSUME Init PROVE CleanupInv
  OBVIOUS
<1>1. TypeOK BY TypeInit
<1>2. stamp = NoStamp /\ \A c \in Cli : mem[c] = NoStamp /\ pc[c] = "idle"
  BY DEF Init, HostsInit
<1>3. \A c \in Cli : Careful(c) BY <1>2 DEF Careful, Working
<1> QED BY <1>1, <1>2, <1>3, NoStampTrusted DEF CleanupInv

\* Once a stamp says that the machine it launched has been released, the
\* machine is gone, whatever number of commands run, are interrupted, fail to
\* release or overwrite each other's stamp (a stamp marked by a failed launch
\* excepted).
THEOREM CleanupTrustedAlways == Spec => []CleanupTrusted
<1>1. CleanupInv => CleanupTrusted BY DEF CleanupInv, Trusted, CleanupTrusted
<1> QED BY <1>1, CleanupInit, CleanupStep, PTL DEF Spec

-----------------------------------------------------------------------------
(***************************************************************************)
(* A machine that fslab launched serves one build.  So what a monitor      *)
(* finds there is its own build's, for any number of processes, builds and *)
(* hosts: success is never reported for another build's image, and no      *)
(* machine is released under a wrapper that still runs on it.              *)
(***************************************************************************)

\* Which step changes what

CleanupOnly ==
  \A b \in Job : job'[b] # job[b] => Live(b) /\ job'[b] = "killed"

LEMMA CleanupKills ==
  ASSUME TypeOK, NEW action, NEW h, CleanupRemote(action, h)
  PROVE  CleanupOnly
<1> USE DEF TypeOK, CleanupOnly, Live
<1>1. CASE action = "launched" BY <1>1 DEF CleanupRemote, KillJobsOn
<1>2. CASE action = "started" /\ Up(h) BY <1>2 DEF CleanupRemote, KillJobsOn
<1>3. CASE action # "launched" /\ ~(action = "started" /\ Up(h))
  BY <1>3 DEF CleanupRemote
<1> QED BY <1>1, <1>2, <1>3

LEMMA JobsChange ==
  ASSUME TypeOK, [Next]_vars
  PROVE  \/ CleanupOnly
         \/ \E c \in Cli : WriteStamp(c) \/ LaunchRemoteWrapper(c)
         \/ \E b \in Job : \/ WrapperStamps(b)
                               \/ \E ok \in BOOLEAN : WrapperExits(b, ok)
<1>0. job' = job => CleanupOnly BY DEF CleanupOnly
<1> USE <1>0, CleanupKills
<1>1. ASSUME NEW c \in Cli, Start(c) PROVE CleanupOnly
  BY <1>1 DEF Start, StartBuild, StartMonitor, StartAbandon, Clean
<1>2. ASSUME NEW c \in Cli, LaunchStep(c), ~WriteStamp(c), ~LaunchRemoteWrapper(c)
      PROVE  CleanupOnly
  <2>1. CASE SetupFails(c) BY <2>1 DEF SetupFails
  <2> QED
    BY <1>2, <2>1 DEF LaunchStep, GuardAgain, RequestEphemeral, RequestManaged,
       RequestExternal, Acquired, Setup, VerifyWrapperStarted, MarkRunning, LaunchFails
<1>3. ASSUME NEW c \in Cli, MonitorStep(c) PROVE CleanupOnly
  <2>1. CASE Teardown(c) BY <2>1 DEF Teardown
  <2>2. CASE TeardownFails(c) BY <2>2 DEF TeardownFails
  <2> QED
    BY <1>3, <2>1, <2>2 DEF MonitorStep, Attach, AttachRefused, Tail,
       ConnectionLost, Pull, Persist, Reread, PollPending, PollSettled
<1>4. ASSUME NEW c \in Cli, AbandonStep(c) PROVE CleanupOnly
  BY <1>4 DEF AbandonStep, AbandonRelease, AbandonMark, AbandonWipe, AbandonRmtree
<1>5. ASSUME NEW c \in Cli, Interrupt(c) PROVE CleanupOnly
  BY <1>5 DEF Interrupt
<1>6. ASSUME NEW b \in Job, WrapperDies(b) \/ AfiSettles(b) PROVE CleanupOnly
  BY <1>6 DEF WrapperDies, AfiSettles, CleanupOnly, TypeOK
<1>7. ASSUME NEW h \in Host, HostStep(h) PROVE CleanupOnly
  BY <1>7 DEF HostStep, HostGoesDown, GoesDown, OwnerStarts, OwnerStartsIt,
     KillJobsOn, CleanupOnly, TypeOK
<1>8. CASE UNCHANGED vars BY <1>8 DEF vars
<1> QED
  BY <1>1, <1>2, <1>3, <1>4, <1>5, <1>6, <1>7, <1>8 DEF Next, LaunchStep, WrapperStep

LEMMA HomesChange ==
  ASSUME [Next]_vars
  PROVE  home' = home \/ \E c \in Cli : WriteStamp(c)
<1>1. ASSUME NEW c \in Cli, Start(c) PROVE home' = home
  BY <1>1 DEF Start, StartBuild, StartMonitor, StartAbandon, Clean
<1>2. ASSUME NEW c \in Cli, LaunchStep(c), ~WriteStamp(c) PROVE home' = home
  BY <1>2 DEF LaunchStep, GuardAgain, RequestEphemeral, RequestManaged,
     RequestExternal, Acquired, Setup, SetupFails, LaunchRemoteWrapper,
     VerifyWrapperStarted, MarkRunning, LaunchFails
<1>3. ASSUME NEW c \in Cli, MonitorStep(c) PROVE home' = home
  BY <1>3 DEF MonitorStep, Attach, AttachRefused, Tail, ConnectionLost, Pull,
     Teardown, TeardownFails, Persist, Reread, PollPending, PollSettled
<1>4. ASSUME NEW c \in Cli, AbandonStep(c) \/ Interrupt(c) PROVE home' = home
  BY <1>4 DEF AbandonStep, AbandonRelease, AbandonMark, AbandonWipe,
     AbandonRmtree, Interrupt
<1>5. ASSUME NEW b \in Job, WrapperStep(b) \/ AfiSettles(b) PROVE home' = home
  BY <1>5 DEF WrapperStep, WrapperStamps, WrapperExits, WrapperDies, AfiSettles
<1>6. ASSUME NEW h \in Host, HostStep(h) PROVE home' = home
  BY <1>6 DEF HostStep, HostGoesDown, OwnerStarts
<1>7. CASE UNCHANGED vars BY <1>7 DEF vars
<1> QED BY <1>1, <1>2, <1>3, <1>4, <1>5, <1>6, <1>7 DEF Next, LaunchStep

LEMMA RemotesChange ==
  ASSUME [Next]_vars
  PROVE  \/ remote' = remote
         \/ \E c \in Cli : Setup(c)
         \/ \E b \in Job : \/ WrapperStamps(b)
                               \/ \E ok \in BOOLEAN : WrapperExits(b, ok)
<1>1. ASSUME NEW c \in Cli, Start(c) PROVE remote' = remote
  BY <1>1 DEF Start, StartBuild, StartMonitor, StartAbandon, Clean
<1>2. ASSUME NEW c \in Cli, LaunchStep(c), ~Setup(c) PROVE remote' = remote
  BY <1>2 DEF LaunchStep, GuardAgain, RequestEphemeral, RequestManaged,
     RequestExternal, Acquired, WriteStamp, SetupFails, LaunchRemoteWrapper,
     VerifyWrapperStarted, MarkRunning, LaunchFails
<1>3. ASSUME NEW c \in Cli, MonitorStep(c) PROVE remote' = remote
  BY <1>3 DEF MonitorStep, Attach, AttachRefused, Tail, ConnectionLost, Pull,
     Teardown, TeardownFails, Persist, Reread, PollPending, PollSettled
<1>4. ASSUME NEW c \in Cli, AbandonStep(c) \/ Interrupt(c) PROVE remote' = remote
  BY <1>4 DEF AbandonStep, AbandonRelease, AbandonMark, AbandonWipe,
     AbandonRmtree, Interrupt
<1>5. ASSUME NEW b \in Job, WrapperDies(b) \/ AfiSettles(b)
      PROVE  remote' = remote
  BY <1>5 DEF WrapperDies, AfiSettles
<1>6. ASSUME NEW h \in Host, HostStep(h) PROVE remote' = remote
  BY <1>6 DEF HostStep, HostGoesDown, OwnerStarts
<1>7. CASE UNCHANGED vars BY <1>7 DEF vars
<1> QED
  BY <1>1, <1>2, <1>3, <1>4, <1>5, <1>6, <1>7 DEF Next, LaunchStep, WrapperStep

LEMMA ImagesChange ==
  ASSUME [Next]_vars
  PROVE  \/ afi' = afi
         \/ \E b \in Job : \/ AfiSettles(b)
                               \/ \E ok \in BOOLEAN : WrapperExits(b, ok)
<1>1. ASSUME NEW c \in Cli, Start(c) PROVE afi' = afi
  BY <1>1 DEF Start, StartBuild, StartMonitor, StartAbandon, Clean
<1>2. ASSUME NEW c \in Cli, LaunchStep(c) PROVE afi' = afi
  BY <1>2 DEF LaunchStep, GuardAgain, RequestEphemeral, RequestManaged,
     RequestExternal, Acquired, Setup, WriteStamp, SetupFails,
     LaunchRemoteWrapper, VerifyWrapperStarted, MarkRunning, LaunchFails
<1>3. ASSUME NEW c \in Cli, MonitorStep(c) PROVE afi' = afi
  BY <1>3 DEF MonitorStep, Attach, AttachRefused, Tail, ConnectionLost, Pull,
     Teardown, TeardownFails, Persist, Reread, PollPending, PollSettled
<1>4. ASSUME NEW c \in Cli, AbandonStep(c) \/ Interrupt(c) PROVE afi' = afi
  BY <1>4 DEF AbandonStep, AbandonRelease, AbandonMark, AbandonWipe,
     AbandonRmtree, Interrupt
<1>5. ASSUME NEW b \in Job, WrapperStamps(b) \/ WrapperDies(b)
      PROVE  afi' = afi
  BY <1>5 DEF WrapperStamps, WrapperDies
<1>6. ASSUME NEW h \in Host, HostStep(h) PROVE afi' = afi
  BY <1>6 DEF HostStep, HostGoesDown, OwnerStarts
<1>7. CASE UNCHANGED vars BY <1>7 DEF vars
<1> QED BY <1>1, <1>2, <1>3, <1>4, <1>5, <1>6, <1>7 DEF Next, WrapperStep

-----------------------------------------------------------------------------
\* What never changes back

LEMMA Copies ==
  ASSUME OwnInv
  PROVE  /\ TypeOK /\ stamp \in Stamp
         /\ \A c \in Cli : mem[c] \in Stamp
         /\ Trusted(stamp) /\ \A c \in Cli : Trusted(mem[c])
  BY DEF OwnInv, CleanupInv, TypeOK

\* A wrapper that is over stays over, an id once drawn is never free again,
\* and only its own launcher launches it.
LEMMA JobsOneWay ==
  ASSUME OwnInv, [Next]_vars, NEW b \in Job
  PROVE  /\ job[b] = "exited" => job'[b] = "exited"
         /\ Over(b) => job'[b] \in {"exited", "killed"}
         /\ job'[b] = "unused" => job[b] = "unused"
         /\ job[b] = "drawn" /\ job'[b] # "drawn" =>
              \E c \in Cli : LaunchRemoteWrapper(c) /\ mem[c].id = b
<1> USE Copies DEF TypeOK
<1>1. CASE CleanupOnly BY <1>1 DEF CleanupOnly, Live, Over
<1>2. ASSUME NEW c \in Cli, WriteStamp(c)
      PROVE  job'[b] = job[b] \/ (job[b] = "unused" /\ job'[b] = "drawn")
  BY <1>2 DEF WriteStamp
<1>3. ASSUME NEW c \in Cli, LaunchRemoteWrapper(c)
      PROVE  IF mem[c].id = b THEN job[b] = "drawn" /\ job'[b] = "starting"
             ELSE job'[b] = job[b]
  <2>1. job[mem[c].id] = "drawn"
    BY <1>3 DEF LaunchRemoteWrapper, OwnInv, IdsAreOwn
  <2> QED BY <1>3, <2>1 DEF LaunchRemoteWrapper
<1>4. ASSUME NEW a \in Job, WrapperStamps(a)
      PROVE  job'[b] = job[b] \/ (job[b] = "starting" /\ job'[b] = "running")
  BY <1>4 DEF WrapperStamps
<1>5. ASSUME NEW a \in Job, NEW ok \in BOOLEAN, WrapperExits(a, ok)
      PROVE  job'[b] = job[b] \/ (job[b] = "running" /\ job'[b] = "exited")
  BY <1>5 DEF WrapperExits
<1> QED BY <1>1, <1>2, <1>3, <1>4, <1>5, JobsChange DEF Over

\* A build is sent to one machine and never to another.
LEMMA HomeStays ==
  ASSUME OwnInv, [Next]_vars, NEW b \in Job, home[b] # None
  PROVE  home'[b] = home[b]
<1>1. ASSUME NEW c \in Cli, WriteStamp(c) PROVE home'[b] = home[b]
  <2> PICK a \in Job : /\ job[a] = "unused"
                           /\ home' = [home EXCEPT ![a] = mem[c].host]
    BY <1>1 DEF WriteStamp
  <2>1. home[a] = None BY DEF OwnInv, IdsAreOwn
  <2> QED BY <2>1, Copies DEF TypeOK
<1> QED BY <1>1, HomesChange

\* An image that AWS has stays there.
LEMMA ImageStays ==
  ASSUME OwnInv, [Next]_vars, NEW b \in Job
  PROVE  /\ afi[b] = "available" => afi'[b] = "available"
         /\ afi'[b] # "none" => job'[b] = "exited"
<1> USE Copies DEF TypeOK
<1>1. afi[b] # "none" => job[b] = "exited" BY DEF OwnInv, ResultsAreOwn
<1>2. ASSUME NEW a \in Job, AfiSettles(a)
      PROVE  /\ afi[b] = "available" => afi'[b] = "available"
             /\ afi'[b] # "none" => job'[b] = "exited"
  BY <1>1, <1>2 DEF AfiSettles
<1>3. ASSUME NEW a \in Job, NEW ok \in BOOLEAN, WrapperExits(a, ok)
      PROVE  /\ afi[b] = "available" => afi'[b] = "available"
             /\ afi'[b] # "none" => job'[b] = "exited"
  BY <1>1, <1>3 DEF WrapperExits
<1> QED BY <1>1, <1>2, <1>3, JobsOneWay, ImagesChange
-----------------------------------------------------------------------------
\* A launched machine belongs to one launcher, then to one build

\* No step makes a machine absent again.
LEMMA AbsentLeft ==
  ASSUME TypeOK, [Next]_vars, NEW h \in Host, inst'[h] = "absent"
  PROVE  inst[h] = "absent"
<1> USE DEF TypeOK
<1>0. ASSUME NEW action, NEW g, CleanupRemote(action, g)
      PROVE  inst[h] = "absent"
  <2>1. CASE action = "launched" BY <1>0, <2>1 DEF CleanupRemote
  <2>2. CASE action = "started" /\ Up(g) BY <1>0, <2>2 DEF CleanupRemote
  <2>3. CASE action # "launched" /\ ~(action = "started" /\ Up(g))
    BY <1>0, <2>3 DEF CleanupRemote
  <2> QED BY <2>1, <2>2, <2>3
<1>1. ASSUME NEW c \in Cli, Start(c) PROVE inst' = inst
  BY <1>1 DEF Start, StartBuild, StartMonitor, StartAbandon, Clean
<1>2. ASSUME NEW c \in Cli, LaunchStep(c) PROVE inst[h] = "absent"
  <2>1. CASE RequestEphemeral(c) BY <2>1 DEF RequestEphemeral, LaunchInstance
  <2>2. CASE RequestManaged(c) BY <2>2 DEF RequestManaged, StartOrConnect
  <2>3. CASE SetupFails(c) BY <2>3, <1>0 DEF SetupFails
  <2> QED
    BY <1>2, <2>1, <2>2, <2>3 DEF LaunchStep, GuardAgain, RequestExternal,
       Acquired, Setup, WriteStamp, LaunchRemoteWrapper, VerifyWrapperStarted,
       MarkRunning, LaunchFails
<1>3. ASSUME NEW c \in Cli, MonitorStep(c) PROVE inst[h] = "absent"
  <2>1. CASE Teardown(c) BY <2>1, <1>0 DEF Teardown
  <2>2. CASE TeardownFails(c) BY <2>2, <1>0 DEF TeardownFails
  <2> QED
    BY <1>3, <2>1, <2>2 DEF MonitorStep, Attach, AttachRefused, Tail,
       ConnectionLost, Pull, Persist, Reread, PollPending, PollSettled
<1>4. ASSUME NEW c \in Cli, AbandonStep(c) PROVE inst[h] = "absent"
  BY <1>4, <1>0 DEF AbandonStep, AbandonRelease, AbandonMark, AbandonWipe,
     AbandonRmtree
<1>5. ASSUME NEW c \in Cli, Interrupt(c) PROVE inst' = inst
  BY <1>5 DEF Interrupt
<1>6. ASSUME NEW b \in Job, WrapperStep(b) \/ AfiSettles(b) PROVE inst' = inst
  BY <1>6 DEF WrapperStep, WrapperStamps, WrapperExits, WrapperDies, AfiSettles
<1>7. ASSUME NEW g \in Host, HostStep(g) PROVE inst[h] = "absent"
  BY <1>7 DEF HostStep, HostGoesDown, GoesDown, OwnerStarts, OwnerStartsIt
<1>8. CASE UNCHANGED vars BY <1>8 DEF vars
<1> QED BY <1>1, <1>2, <1>3, <1>4, <1>5, <1>6, <1>7, <1>8 DEF Next

\* A command comes by a launched machine only by launching it.
LEMMA ClaimsChange ==
  ASSUME TypeOK, NEW c \in Cli, CliStep(c), NEW h \in Ephemeral, Claims(c, h)'
  PROVE  \/ Claims(c, h) /\ home' = home
         \/ inst[h] = "absent" /\ inst'[h] # "absent" /\ home' = home
<1> USE DEF TypeOK, Goto, Done, Claims
<1>1. CASE Start(c)
  BY <1>1 DEF Start, StartBuild, StartMonitor, StartAbandon, Clean
<1>2. CASE LaunchStep(c)
  <2>1. CASE RequestEphemeral(c)
    <3> PICK g \in Ephemeral : /\ inst[g] = "absent"
                               /\ inst' = [inst EXCEPT ![g] = "held"]
                               /\ Remember(c, g, "launched")
      BY <2>1 DEF RequestEphemeral, LaunchInstance
    <3>1. mem'[c].host = g BY DEF Remember, NoStamp
    <3> QED BY <2>1, <3>1 DEF RequestEphemeral, LaunchInstance, Host
  <2>2. CASE RequestManaged(c)
    <3> PICK g \in Managed, action \in {"started", "connected"} : Remember(c, g, action)
      BY <2>2 DEF RequestManaged
    <3>1. mem'[c].host = g BY DEF Remember, NoStamp
    <3> QED BY <3>1, HostKindsDisjoint
  <2>3. CASE RequestExternal(c)
    <3> PICK g \in External : Remember(c, g, "connected")
      BY <2>3 DEF RequestExternal
    <3>1. mem'[c].host = g BY DEF Remember, NoStamp
    <3> QED BY <3>1, HostKindsDisjoint
  <2>4. CASE Acquired(c) BY <2>4 DEF Acquired
  <2>5. CASE Setup(c) BY <2>5 DEF Setup
  <2> QED
    BY <1>2, <2>1, <2>2, <2>3, <2>4, <2>5 DEF LaunchStep, GuardAgain,
       SetupFails, WriteStamp, LaunchRemoteWrapper, VerifyWrapperStarted,
       MarkRunning, LaunchFails
<1>3. CASE MonitorStep(c)
  BY <1>3 DEF MonitorStep, Attach, AttachRefused, Tail, ConnectionLost, Pull,
     Teardown, TeardownFails, Persist, Reread, PollPending, PollSettled
<1>4. CASE AbandonStep(c)
  BY <1>4 DEF AbandonStep, AbandonRelease, AbandonMark, AbandonWipe, AbandonRmtree
<1>5. CASE Interrupt(c) BY <1>5 DEF Interrupt
<1> QED BY <1>1, <1>2, <1>3, <1>4, <1>5 DEF CliStep
\* What lies outside the commands leaves the claims as they are.
LEMMA WhoSteps ==
  ASSUME [Next]_vars
  PROVE  \/ \E c \in Cli : CliStep(c)
         \/ /\ UNCHANGED <<stamp, pc, mem, home>>
            /\ \/ \E b \in Job : WrapperStep(b) \/ AfiSettles(b)
               \/ \E h \in Host : HostStep(h)
               \/ UNCHANGED vars
<1>1. CASE \E c \in Cli : CliStep(c) BY <1>1
<1>2. CASE ~\E c \in Cli : CliStep(c)
  <2>1. \/ \E b \in Job : WrapperStep(b) \/ AfiSettles(b)
        \/ \E h \in Host : HostStep(h)
        \/ UNCHANGED vars
    BY <1>2 DEF Next, CliStep
  <2>2. home' = home
    BY <2>1 DEF WrapperStep, WrapperStamps, WrapperExits, WrapperDies, AfiSettles,
       HostStep, HostGoesDown, OwnerStarts, vars
  <2> QED BY <2>1, <2>2, OutsideKept
<1> QED BY <1>1, <1>2

LEMMA HostsStep == OwnInv /\ [Next]_vars => HostsAreOwn'
<1> SUFFICES ASSUME OwnInv, [Next]_vars PROVE HostsAreOwn'
  OBVIOUS
<1>0. TypeOK BY Copies
<1>1. /\ \A h \in Ephemeral, c, d \in Cli : Claims(c, h) /\ Claims(d, h) => c = d
      /\ \A h \in Ephemeral, c \in Cli, b \in Job : Claims(c, h) => home[b] # h
      /\ \A a, b \in Job : home[a] = home[b] /\ home[a] \in Ephemeral => a = b
      /\ \A h \in Ephemeral :
           inst[h] = "absent" =>
             (\A c \in Cli : ~Claims(c, h)) /\ (\A b \in Job : home[b] # h)
  BY DEF OwnInv, HostsAreOwn
<1>2. \A h \in Ephemeral : inst'[h] = "absent" => inst[h] = "absent"
  BY <1>0, AbsentLeft DEF Host
<1>3. CASE home' = home
  <2>1. ASSUME NEW h \in Ephemeral, NEW d \in Cli, Claims(d, h)'
        PROVE  Claims(d, h) \/ (inst[h] = "absent" /\ inst'[h] # "absent")
    <3>1. ASSUME NEW c \in Cli, CliStep(c) PROVE Claims(d, h) \/ (inst[h] = "absent" /\ inst'[h] # "absent")
      <4>1. CASE d = c BY <1>0, <2>1, <3>1, <4>1, ClaimsChange
      <4>2. CASE d # c BY <1>0, <2>1, <3>1, <4>2, OthersKept DEF Claims
      <4> QED BY <4>1, <4>2
    <3>2. CASE UNCHANGED <<pc, mem>> BY <2>1, <3>2 DEF Claims
    <3> QED BY <3>1, <3>2, WhoSteps
  <2>2. ASSUME NEW h \in Ephemeral, NEW d \in Cli, NEW e \in Cli, d # e,
               Claims(d, h)', Claims(e, h)'
        PROVE  Claims(d, h) \/ Claims(e, h)
    <3>1. ASSUME NEW c \in Cli, CliStep(c) PROVE Claims(d, h) \/ Claims(e, h)
      BY <1>0, <2>2, <3>1, OthersKept DEF Claims
    <3>2. CASE UNCHANGED <<pc, mem>> BY <2>2, <3>2 DEF Claims
    <3> QED BY <3>1, <3>2, WhoSteps
  <2>3. \A h \in Ephemeral, c, d \in Cli : Claims(c, h)' /\ Claims(d, h)' => c = d
    BY <1>1, <2>1, <2>2
  <2>4. \A h \in Ephemeral, c \in Cli, b \in Job : Claims(c, h)' => home[b] # h
    BY <1>1, <2>1
  <2>5. \A h \in Ephemeral :
          inst'[h] = "absent" =>
            (\A c \in Cli : ~Claims(c, h)') /\ (\A b \in Job : home[b] # h)
    BY <1>1, <1>2, <2>1
  <2> QED BY <1>1, <1>3, <2>3, <2>4, <2>5 DEF HostsAreOwn, Claims
<1>4. ASSUME NEW c \in Cli, WriteStamp(c) PROVE HostsAreOwn'
  <2> PICK b \in Job : home' = [home EXCEPT ![b] = mem[c].host]
    BY <1>4 DEF WriteStamp
  <2>1. /\ pc[c] = "staged" /\ pc'[c] = "launch" /\ inst' = inst
        /\ \A d \in Cli : d # c => pc'[d] = pc[d] /\ mem'[d] = mem[d]
    BY <1>0, <1>4 DEF WriteStamp, Goto, TypeOK
  <2>2. Claims(c, mem[c].host) BY <2>1 DEF Claims
  <2>3. \A h \in Ephemeral, d \in Cli : Claims(d, h)' => Claims(d, h) /\ d # c
    BY <2>1 DEF Claims
  <2>4. home'[b] = mem[c].host /\ \A a \in Job : a # b => home'[a] = home[a]
    BY <1>0 DEF TypeOK
  <2>5. \A h \in Ephemeral, d, e \in Cli : Claims(d, h)' /\ Claims(e, h)' => d = e
    BY <1>1, <2>3
  <2>6. \A h \in Ephemeral, d \in Cli, a \in Job : Claims(d, h)' => home'[a] # h
    BY <1>1, <2>2, <2>3, <2>4
  <2>7. \A a, e \in Job : home'[a] = home'[e] /\ home'[a] \in Ephemeral => a = e
    BY <1>1, <2>2, <2>4
  <2>8. \A h \in Ephemeral :
          inst'[h] = "absent" =>
            (\A d \in Cli : ~Claims(d, h)') /\ (\A a \in Job : home'[a] # h)
    BY <1>1, <2>1, <2>2, <2>3, <2>4
  <2> QED BY <2>5, <2>6, <2>7, <2>8 DEF HostsAreOwn, Claims
<1> QED BY <1>3, <1>4, HomesChange
-----------------------------------------------------------------------------
\* What a copy of the stamp says of its build stays right

AtHomeNext(s) == s.id # None /\ s.action = "launched" => home'[s.id] = s.host

ReportedNext(s) ==
  s.action = "launched" =>
    /\ s.result # NoResult => s.result.id = s.id
    /\ s.status = "finalizing" => s.result # NoResult
    /\ s.status = "succeeded" =>
         s.result.id = s.id /\ s.id # None /\ afi'[s.id] = "available"

OwnNext(s) == AtHomeNext(s) /\ ReportedNext(s)

SettledNext(c, s) ==
  s.action = "launched" =>
    /\ pc'[c] \in {"acquire", "setup", "staged"} => s.result = NoResult
    /\ pc'[c] = "pull" => remote'[s.host].result # NoResult
    /\ pc'[c] = "teardown" => job'[s.id] \in {"exited", "killed"}
    /\ pc'[c] = "poll" => s.status = "finalizing"

LEMMA OwnKept ==
  ASSUME OwnInv, [Next]_vars, NEW s \in Stamp, HostKnown(s), AtHome(s), Reported(s)
  PROVE  OwnNext(s)
<1>1. s.id # None => s.id \in Job BY DEF Stamp
<1>2. AtHomeNext(s)
  <2> SUFFICES ASSUME s.id # None, s.action = "launched"
               PROVE  home'[s.id] = s.host
    BY DEF AtHomeNext
  <2>1. home[s.id] = s.host /\ s.host # None
    BY NoneIsNew DEF AtHome, HostKnown, Host
  <2> QED BY <1>1, <2>1, HomeStays
<1>3. ReportedNext(s)
  <2>1. s.id # None /\ afi[s.id] = "available" => afi'[s.id] = "available"
    BY <1>1, ImageStays
  <2> QED BY <2>1 DEF Reported, ReportedNext
<1> QED BY <1>2, <1>3 DEF OwnNext

\* A result on a launched machine is there until the machine is gone.
LEMMA ResultStays ==
  ASSUME OwnInv, [Next]_vars, NEW h \in Ephemeral, NEW b \in Job, home[b] = h,
         remote[h].result # NoResult
  PROVE  remote'[h].result # NoResult
<1> USE Copies DEF TypeOK, RemoteDir, Host
<1>1. ASSUME NEW c \in Cli, Setup(c) PROVE remote'[h] = remote[h]
  <2>1. mem[c].host # h
    BY <1>1 DEF Setup, OwnInv, HostsAreOwn, Claims
  <2> QED BY <1>1, <2>1 DEF Setup
<1>2. ASSUME NEW a \in Job, WrapperStamps(a)
      PROVE  remote'[h].result = remote[h].result
  BY <1>2 DEF WrapperStamps
<1>3. ASSUME NEW a \in Job, NEW ok \in BOOLEAN, WrapperExits(a, ok)
      PROVE  remote'[h].result # NoResult
  <2>1. [id |-> a, ok |-> ok] # NoResult BY NoneIsNew DEF NoResult
  <2> QED BY <1>3, <2>1 DEF WrapperExits
<1> QED BY <1>1, <1>2, <1>3, RemotesChange

LEMMA WrittenStays ==
  ASSUME OwnInv, [Next]_vars, NEW h \in Ephemeral
  PROVE  WrittenAt(h)'
<1> SUFFICES ASSUME remote'[h].result # NoResult
             PROVE  LET b == remote'[h].result.id
                    IN  b # None /\ home'[b] = h /\ job'[b] \in {"exited", "killed"}
  BY DEF WrittenAt, Over
<1> USE Copies DEF TypeOK, RemoteDir, Host
<1>0. h # None BY NoneIsNew
<1>1. CASE remote'[h].result = remote[h].result
  <2> DEFINE b == remote[h].result.id
  <2>1. b # None /\ home[b] = h /\ Over(b)
    BY <1>1 DEF OwnInv, ResultsAreOwn, WrittenAt
  <2>2. b \in Job BY <2>1 DEF Result
  <2> QED BY <1>0, <1>1, <2>1, <2>2, HomeStays, JobsOneWay
<1>2. ASSUME NEW c \in Cli, Setup(c) PROVE remote'[h] = remote[h]
  <2>1. mem[c].host # h
    BY <1>2 DEF Setup, EmptyDir
  <2> QED BY <1>2, <2>1 DEF Setup
<1>3. ASSUME NEW a \in Job, WrapperStamps(a)
      PROVE  remote'[h].result = remote[h].result
  BY <1>3 DEF WrapperStamps
<1>4. ASSUME NEW a \in Job, NEW ok \in BOOLEAN, WrapperExits(a, ok)
      PROVE  \/ remote'[h].result = remote[h].result
             \/ /\ remote'[h].result.id = a /\ a # None
                /\ home'[a] = h /\ job'[a] = "exited"
  BY <1>4, NoneIsNew DEF WrapperExits
<1> QED BY <1>1, <1>2, <1>3, <1>4, RemotesChange

LEMMA SettledKept ==
  ASSUME OwnInv, [Next]_vars, NEW d \in Cli, pc'[d] = pc[d]
  PROVE  SettledNext(d, mem[d])
<1> SUFFICES ASSUME mem[d].action = "launched" PROVE SettledNext(d, mem[d])
  BY DEF SettledNext
<1>1. /\ mem[d] \in Stamp /\ mem[d].host \in Ephemeral /\ Settled(d)
      /\ AtHome(mem[d])
      /\ pc[d] \in WithId => mem[d].id # None
  BY Copies DEF Trusted, HostKnown, OwnInv, IdsAreOwn, ResultsAreOwn
<1>2. pc[d] \in MonitorPc => mem[d].id \in Job /\ home[mem[d].id] = mem[d].host
  BY <1>1 DEF WithId, AtHome, Stamp
<1>3. pc[d] = "pull" => remote'[mem[d].host].result # NoResult
  BY <1>1, <1>2, ResultStays DEF MonitorPc, Settled
<1>4. pc[d] = "teardown" => job'[mem[d].id] \in {"exited", "killed"}
  BY <1>1, <1>2, JobsOneWay DEF MonitorPc, Settled
<1> QED BY <1>1, <1>3, <1>4 DEF Settled, SettledNext
-----------------------------------------------------------------------------
\* One step, looked at where it acts

LEMMA FreeIds ==
  ASSUME OwnInv, [Next]_vars, NEW b \in Job, job'[b] = "unused"
  PROVE  home'[b] = None
<1> USE Copies DEF TypeOK
<1>1. job[b] = "unused" /\ home[b] = None
  BY JobsOneWay DEF OwnInv, IdsAreOwn
<1>2. ASSUME NEW c \in Cli, WriteStamp(c) PROVE home'[b] = None
  <2> PICK a \in Job : /\ job' = [job EXCEPT ![a] = "drawn"]
                           /\ home' = [home EXCEPT ![a] = mem[c].host]
    BY <1>2 DEF WriteStamp
  <2> QED BY <1>1
<1> QED BY <1>1, <1>2, HomesChange

\* Only WriteStamp leads to the launch of a wrapper.
LEMMA LaunchEntered ==
  ASSUME TypeOK, NEW c \in Cli, CliStep(c), pc'[c] = "launch"
  PROVE  WriteStamp(c)
<1> USE DEF TypeOK, Goto, Done
<1>1. CASE Start(c)
  BY <1>1 DEF Start, StartBuild, StartMonitor, StartAbandon, Clean
<1>2. CASE LaunchStep(c)
  BY <1>2 DEF LaunchStep, GuardAgain, RequestEphemeral, RequestManaged,
     RequestExternal, Acquired, Setup, SetupFails, LaunchRemoteWrapper,
     VerifyWrapperStarted, MarkRunning, LaunchFails
<1>3. CASE MonitorStep(c)
  BY <1>3 DEF MonitorStep, Attach, AttachRefused, Tail, ConnectionLost, Pull,
     Teardown, TeardownFails, Persist, Reread, PollPending, PollSettled
<1>4. CASE AbandonStep(c)
  BY <1>4 DEF AbandonStep, AbandonRelease, AbandonMark, AbandonWipe, AbandonRmtree
<1>5. CASE Interrupt(c) BY <1>5 DEF Interrupt
<1> QED BY <1>1, <1>2, <1>3, <1>4, <1>5 DEF CliStep

\* Ids stay distinct while their wrappers wait to be launched.
LEMMA LaunchersKept ==
  ASSUME OwnInv, [Next]_vars
  PROVE  /\ \A c \in Cli : pc'[c] = "launch" => job'[mem'[c].id] = "drawn"
         /\ \A c, d \in Cli : pc'[c] = "launch" /\ pc'[d] = "launch"
                                /\ mem'[c].id = mem'[d].id => c = d
<1> USE Copies DEF TypeOK
<1>0. /\ \A c \in Cli : pc[c] = "launch" => /\ job[mem[c].id] = "drawn"
                                            /\ mem[c].id \in Job
      /\ \A c, d \in Cli : pc[c] = "launch" /\ pc[d] = "launch"
                             /\ mem[c].id = mem[d].id => c = d
  BY DEF OwnInv, IdsAreOwn, WithId, Stamp
<1>1. ASSUME NEW d \in Cli, pc[d] = "launch", pc'[d] = "launch", mem'[d] = mem[d]
      PROVE  job'[mem'[d].id] = "drawn"
  <2>1. ASSUME NEW c \in Cli, LaunchRemoteWrapper(c) PROVE mem[c].id # mem[d].id
    <3>1. pc[c] = "launch" /\ pc'[c] = "verify"
      BY <2>1 DEF LaunchRemoteWrapper, Goto
    <3> QED BY <1>0, <1>1, <3>1
  <2> QED BY <1>0, <1>1, <2>1, JobsOneWay
<1>2. CASE UNCHANGED <<pc, mem>> BY <1>0, <1>1, <1>2
<1>3. ASSUME NEW c \in Cli, CliStep(c)
      PROVE  /\ \A d \in Cli : pc'[d] = "launch" => job'[mem'[d].id] = "drawn"
             /\ \A d, e \in Cli : pc'[d] = "launch" /\ pc'[e] = "launch"
                                    /\ mem'[d].id = mem'[e].id => d = e
  <2>1. \A d \in Cli : d # c => pc'[d] = pc[d] /\ mem'[d] = mem[d]
    BY <1>3, OthersKept
  <2>2. CASE pc'[c] # "launch" BY <1>0, <1>1, <2>1, <2>2
  <2>3. CASE pc'[c] = "launch"
    <3> PICK b \in Job : /\ job[b] = "unused"
                             /\ job' = [job EXCEPT ![b] = "drawn"]
                             /\ stamp' = [mem[c] EXCEPT !.id = b, !.status = "launching"]
                             /\ mem' = [mem EXCEPT ![c] = stamp']
      BY <1>3, <2>3, LaunchEntered DEF WriteStamp
    <3>1. mem'[c].id = b BY DEF Stamp
    <3>2. job'[b] = "drawn" OBVIOUS
    <3>3. \A d \in Cli : d # c /\ pc[d] = "launch" => mem[d].id # b BY <1>0
    <3> QED BY <1>0, <1>1, <2>1, <3>1, <3>2, <3>3
  <2> QED BY <2>2, <2>3
<1> QED BY <1>2, <1>3, WhoSteps

LEMMA OwnOneStep ==
  ASSUME OwnInv, NEW c \in Cli, CliStep(c),
         OwnNext(stamp'), OwnNext(mem'[c]), SettledNext(c, mem'[c]),
         stamp' # NoStamp => stamp'.id # None,
         pc'[c] \in WithId => mem'[c].id # None
  PROVE  OwnInv'
<1>1. [Next]_vars BY DEF CliStep, Next
<1>2. CleanupInv' /\ HostsAreOwn' BY <1>1, CleanupStep, HostsStep DEF OwnInv
<1>3. ASSUME NEW d \in Cli
      PROVE  /\ OwnNext(mem'[d]) /\ SettledNext(d, mem'[d])
             /\ pc'[d] \in WithId => mem'[d].id # None
  <2>1. CASE d = c BY <2>1
  <2>2. CASE d # c
    <3>1. mem'[d] = mem[d] /\ pc'[d] = pc[d] BY <2>2, Copies, OthersKept
    <3>2. /\ mem[d] \in Stamp /\ HostKnown(mem[d]) /\ AtHome(mem[d])
          /\ Reported(mem[d])
          /\ pc[d] \in WithId => mem[d].id # None
      BY Copies DEF OwnInv, IdsAreOwn, ResultsAreOwn, Trusted
    <3> QED BY <1>1, <3>1, <3>2, OwnKept, SettledKept
  <2> QED BY <2>1, <2>2
<1>4. IdsAreOwn'
  BY <1>1, <1>3, FreeIds, LaunchersKept DEF IdsAreOwn, OwnNext, AtHome, AtHomeNext
<1>5. ResultsAreOwn'
  <2>1. \A b \in Job : afi'[b] # "none" => job'[b] = "exited"
    BY <1>1, ImageStays
  <2>2. \A h \in Ephemeral : WrittenAt(h)' BY <1>1, WrittenStays
  <2>3. Reported(stamp)' /\ \A d \in Cli : Reported(mem[d])'
    BY <1>3 DEF OwnNext, Reported, ReportedNext
  <2>4. \A d \in Cli : Settled(d)'
    BY <1>3 DEF Settled, SettledNext, Over
  <2> QED BY <2>1, <2>2, <2>3, <2>4 DEF ResultsAreOwn
<1> QED BY <1>2, <1>4, <1>5 DEF OwnInv
LEMMA NoStampOwn == OwnNext(NoStamp) /\ \A c : SettledNext(c, NoStamp)
  BY NoneIsNew DEF OwnNext, AtHomeNext, ReportedNext, SettledNext, NoStamp

LEMMA OwnStep == OwnInv /\ [Next]_vars => OwnInv'
<1> SUFFICES ASSUME OwnInv, [Next]_vars PROVE OwnInv'
  OBVIOUS
<1>0. /\ TypeOK /\ OwnNext(stamp)
      /\ stamp # NoStamp => stamp.id # None
      /\ \A c \in Cli : /\ mem[c] \in Stamp /\ HostKnown(mem[c])
                        /\ OwnNext(mem[c]) /\ AtHome(mem[c])
                        /\ Reported(mem[c]) /\ Settled(c)
                        /\ pc[c] \in WithId => mem[c].id # None
  <2>1. /\ AtHome(stamp) /\ Reported(stamp)
        /\ \A c \in Cli : AtHome(mem[c]) /\ Reported(mem[c]) /\ Settled(c)
    BY DEF OwnInv, IdsAreOwn, ResultsAreOwn
  <2> QED BY <2>1, OwnKept, Copies DEF OwnInv, IdsAreOwn, Trusted
<1> DEFINE Good(c) == /\ OwnNext(stamp') /\ OwnNext(mem'[c])
                      /\ SettledNext(c, mem'[c])
                      /\ stamp' # NoStamp => stamp'.id # None
                      /\ pc'[c] \in WithId => mem'[c].id # None
<1> USE DEF Goto, Done
<1>1. ASSUME NEW c \in Cli, Start(c) PROVE Good(c)
  <2> USE <1>0, NoStampOwn DEF TypeOK, WithId, MonitorPc
  <2>1. CASE StartBuild(c) BY <2>1 DEF StartBuild, SettledNext
  <2>2. CASE StartMonitor(c) BY <2>2 DEF StartMonitor, SettledNext
  <2>3. CASE StartAbandon(c) BY <2>3 DEF StartAbandon, SettledNext
  <2>4. CASE Clean(c) BY <2>4 DEF Clean, SettledNext
  <2> QED BY <1>1, <2>1, <2>2, <2>3, <2>4 DEF Start
<1>2. ASSUME NEW c \in Cli, LaunchStep(c) PROVE Good(c)
  <2> USE <1>0, NoStampOwn DEF TypeOK, WithId, MonitorPc
  <2>0. ASSUME NEW h, NEW action, Remember(c, h, action), stamp' = stamp,
               pc'[c] \in {"acquire", "setup"}
        PROVE  Good(c)
    <3>1. mem'[c] = [NoStamp EXCEPT !.host = h, !.action = action]
      BY <2>0 DEF Remember
    <3>2. /\ mem'[c].id = None /\ mem'[c].status = "absent"
          /\ mem'[c].result = NoResult
      BY <3>1 DEF NoStamp
    <3> QED BY <2>0, <3>2 DEF OwnNext, AtHomeNext, ReportedNext, SettledNext
  <2>1. CASE GuardAgain(c) BY <2>1 DEF GuardAgain, SettledNext
  <2>2. CASE RequestEphemeral(c) BY <2>0, <2>2 DEF RequestEphemeral
  <2>3. CASE RequestManaged(c) BY <2>0, <2>3 DEF RequestManaged
  <2>4. CASE RequestExternal(c) BY <2>0, <2>4 DEF RequestExternal
  <2>5. CASE Acquired(c) BY <2>5 DEF Acquired, Settled, SettledNext
  <2>6. CASE Setup(c) BY <2>6 DEF Setup, Settled, SettledNext
  <2>7. CASE SetupFails(c) BY <2>7 DEF SetupFails
  <2>8. CASE WriteStamp(c)
    <3> PICK b \in Job : /\ home' = [home EXCEPT ![b] = mem[c].host]
                             /\ stamp' = [mem[c] EXCEPT !.id = b, !.status = "launching"]
      BY <2>8 DEF WriteStamp
    <3>1. /\ stamp'.id = b /\ stamp'.status = "launching" /\ stamp'.host = mem[c].host
          /\ stamp'.action = mem[c].action /\ stamp'.result = mem[c].result
      BY DEF Stamp
    <3>2. mem'[c] = stamp' /\ pc'[c] = "launch" BY <2>8 DEF WriteStamp
    <3>3. home'[b] = mem[c].host /\ b # None BY NoneIsNew
    <3>4. mem[c].action = "launched" => mem[c].result = NoResult
      BY <2>8 DEF WriteStamp, Settled
    <3>5. OwnNext(stamp')
      BY <3>1, <3>3, <3>4 DEF OwnNext, AtHomeNext, ReportedNext
    <3> QED BY <3>1, <3>2, <3>3, <3>5 DEF SettledNext
  <2>9. CASE LaunchRemoteWrapper(c)
    BY <2>9 DEF LaunchRemoteWrapper, SettledNext
  <2>10. CASE VerifyWrapperStarted(c)
    BY <2>10 DEF VerifyWrapperStarted, SettledNext
  <2>11. CASE MarkRunning(c)
    <3>1. stamp' = [mem[c] EXCEPT !.status = "running"] BY <2>11 DEF MarkRunning
    <3>2. OwnNext(stamp') /\ stamp'.id = mem[c].id
      BY <3>1 DEF Stamp, OwnNext, AtHomeNext, ReportedNext
    <3> QED BY <2>11, <3>2 DEF MarkRunning
  <2>12. CASE LaunchFails(c)
    <3>1. OwnNext(stamp') /\ (stamp' # NoStamp => stamp # NoStamp /\ stamp'.id = stamp.id)
      BY <2>12 DEF LaunchFails, Stamp, OwnNext, AtHomeNext, ReportedNext
    <3> QED BY <2>12, <3>1 DEF LaunchFails
  <2> QED BY <1>2, <2>1, <2>2, <2>3, <2>4, <2>5, <2>6, <2>7, <2>8, <2>9, <2>10,
             <2>11, <2>12 DEF LaunchStep
<1>3. ASSUME NEW c \in Cli, MonitorStep(c) PROVE Good(c)
  <2> USE <1>0, NoStampOwn DEF TypeOK, WithId, MonitorPc
  <2>1. CASE Attach(c)
    <3>1. [mem[c] EXCEPT !.status = "running"].id = mem[c].id BY DEF Stamp
    <3>2. OwnNext([mem[c] EXCEPT !.status = "running"])
      BY DEF Stamp, OwnNext, AtHomeNext, ReportedNext
    <3> QED BY <2>1, <3>1, <3>2 DEF Attach, SettledNext, Stamp
  <2>2. CASE AttachRefused(c) BY <2>2 DEF AttachRefused
  <2>3. CASE Tail(c) BY <2>3 DEF Tail, SettledNext
  <2>4. CASE ConnectionLost(c) BY <2>4 DEF ConnectionLost
  <2>5. CASE Pull(c)
    <3> DEFINE found  == remote[mem[c].host].result
               result == IF found = NoResult THEN [id |-> mem[c].id, ok |-> FALSE]
                         ELSE found
               status == IF result.ok THEN "finalizing" ELSE "wrapper_failed"
    <3>1. mem'[c] = [mem[c] EXCEPT !.result = result, !.status = status]
      BY <2>5 DEF Pull
    <3>2. /\ mem'[c].id = mem[c].id /\ mem'[c].action = mem[c].action
          /\ mem'[c].host = mem[c].host /\ mem'[c].result = result
          /\ mem'[c].status = status
      BY <3>1 DEF Stamp
    <3>3. pc[c] = "pull" /\ pc'[c] = "teardown" /\ stamp' = stamp /\ job' = job
      BY <2>5 DEF Pull
    <3>4. ASSUME mem[c].action = "launched"
          PROVE  found # NoResult /\ found.id = mem[c].id /\ Over(mem[c].id)
      <4>1. mem[c].host \in Ephemeral BY <3>4 DEF HostKnown
      <4>2. found # NoResult BY <3>3, <3>4 DEF Settled
      <4>3. found.id # None /\ home[found.id] = mem[c].host /\ Over(found.id)
        BY <4>1, <4>2 DEF OwnInv, ResultsAreOwn, WrittenAt
      <4>4. mem[c].id # None /\ home[mem[c].id] = mem[c].host
        BY <3>3, <3>4 DEF AtHome
      <4>5. found.id \in Job /\ mem[c].id \in Job
        BY <4>1, <4>3, <4>4 DEF Stamp, RemoteDir, Result, Host
      <4> QED BY <4>1, <4>2, <4>3, <4>4, <4>5 DEF OwnInv, HostsAreOwn
    <3>5. ReportedNext(mem'[c])
      BY <3>2, <3>4 DEF ReportedNext
    <3>6. AtHomeNext(mem'[c])
      BY <3>2 DEF OwnNext, AtHomeNext
    <3>7. SettledNext(c, mem'[c])
      BY <3>2, <3>3, <3>4 DEF SettledNext, Over
    <3> QED BY <3>2, <3>3, <3>5, <3>6, <3>7 DEF OwnNext
  <2>6. CASE Teardown(c)
    <3>1. mem'[c] = [mem[c] EXCEPT !.cleanup_done = TRUE] BY <2>6 DEF Teardown
    <3>2. OwnNext(mem'[c]) /\ mem'[c].id = mem[c].id
      BY <3>1 DEF Stamp, OwnNext, AtHomeNext, ReportedNext
    <3> QED BY <2>6, <3>2 DEF Teardown, SettledNext
  <2>7. CASE TeardownFails(c) BY <2>7 DEF TeardownFails, SettledNext
  <2>8. CASE Persist(c) BY <2>8 DEF Persist, SettledNext
  <2>9. CASE Reread(c)
    <3>1. stamp.status = "finalizing" => stamp # NoStamp BY DEF NoStamp
    <3> QED BY <2>9, <3>1 DEF Reread, SettledNext
  <2>10. CASE PollPending(c) BY <2>10 DEF PollPending, Settled, SettledNext
  <2>11. CASE PollSettled(c)
    <3> DEFINE status == IF afi[mem[c].result.id] = "available"
                         THEN "succeeded" ELSE "failed"
    <3>1. /\ stamp' = [mem[c] EXCEPT !.status = status]
          /\ pc[c] = "poll" /\ afi' = afi
      BY <2>11 DEF PollSettled
    <3>2. /\ stamp'.id = mem[c].id /\ stamp'.action = mem[c].action
          /\ stamp'.host = mem[c].host /\ stamp'.result = mem[c].result
          /\ stamp'.status = status
      BY <3>1 DEF Stamp
    <3>3. mem[c].action = "launched" => mem[c].result.id = mem[c].id
      BY <3>1 DEF Settled, Reported
    <3>4. OwnNext(stamp')
      BY <3>1, <3>2, <3>3 DEF OwnNext, AtHomeNext, ReportedNext
    <3> QED BY <2>11, <3>2, <3>4 DEF PollSettled
  <2> QED BY <1>3, <2>1, <2>2, <2>3, <2>4, <2>5, <2>6, <2>7, <2>8, <2>9, <2>10,
             <2>11 DEF MonitorStep
<1>4. ASSUME NEW c \in Cli, AbandonStep(c) PROVE Good(c)
  <2> USE <1>0, NoStampOwn DEF TypeOK, WithId, MonitorPc
  <2>1. CASE AbandonRelease(c) BY <2>1 DEF AbandonRelease, SettledNext
  <2>2. CASE AbandonMark(c)
    <3>1. stamp' = [mem[c] EXCEPT !.status = "abandoned", !.cleanup_done = TRUE]
      BY <2>2 DEF AbandonMark
    <3>2. OwnNext(stamp') /\ stamp'.id = mem[c].id
      BY <3>1 DEF Stamp, OwnNext, AtHomeNext, ReportedNext
    <3> QED BY <2>2, <3>2 DEF AbandonMark, SettledNext
  <2>3. CASE AbandonWipe(c) BY <2>3 DEF AbandonWipe, SettledNext
  <2>4. CASE AbandonRmtree(c) BY <2>4 DEF AbandonRmtree
  <2> QED BY <1>4, <2>1, <2>2, <2>3, <2>4 DEF AbandonStep
<1>5. ASSUME NEW c \in Cli, Interrupt(c) PROVE Good(c)
  BY <1>0, <1>5, NoStampOwn DEF Interrupt, TypeOK, WithId, MonitorPc
<1>6. ASSUME NEW c \in Cli, CliStep(c) PROVE OwnInv'
  BY <1>1, <1>2, <1>3, <1>4, <1>5, <1>6, OwnOneStep DEF CliStep
<1>7. ASSUME UNCHANGED <<stamp, pc, mem>> PROVE OwnInv'
  <2>1. CleanupInv' /\ HostsAreOwn' BY CleanupStep, HostsStep DEF OwnInv
  <2>2. \A c \in Cli : SettledNext(c, mem[c]) BY <1>7, SettledKept
  <2>3. IdsAreOwn'
    BY <1>0, <1>7, FreeIds, LaunchersKept
       DEF IdsAreOwn, OwnNext, AtHome, AtHomeNext
  <2>4. ResultsAreOwn'
    <3>1. \A b \in Job : afi'[b] # "none" => job'[b] = "exited"
      BY ImageStays
    <3>2. \A h \in Ephemeral : WrittenAt(h)' BY WrittenStays
    <3>3. Reported(stamp)' /\ \A c \in Cli : Reported(mem[c])'
      BY <1>0, <1>7 DEF OwnNext, Reported, ReportedNext
    <3>4. \A c \in Cli : Settled(c)'
      BY <1>7, <2>2 DEF Settled, SettledNext, Over
    <3> QED BY <3>1, <3>2, <3>3, <3>4 DEF ResultsAreOwn
  <2> QED BY <2>1, <2>3, <2>4 DEF OwnInv
<1> QED BY <1>6, <1>7, WhoSteps
-----------------------------------------------------------------------------
\* The theorems

LEMMA OwnInit == Init => OwnInv
<1> SUFFICES ASSUME Init PROVE OwnInv
  OBVIOUS
<1> USE DEF Init, HostsInit
<1>1. CleanupInv
  BY CleanupInit
<1>2. /\ stamp = NoStamp /\ \A c \in Cli : mem[c] = NoStamp /\ pc[c] = "idle"
      /\ NoStamp.id = None /\ NoStamp.action = None /\ NoStamp.status = "absent"
  BY DEF NoStamp
<1>3. HostsAreOwn
  <2>1. \A h \in Ephemeral : h # None BY NoneIsNew DEF Host
  <2> QED BY <1>2, <2>1 DEF HostsAreOwn, Claims
<1>4. IdsAreOwn
  BY <1>2, NoneIsNew DEF IdsAreOwn, AtHome, WithId, MonitorPc
<1>5. ResultsAreOwn
  <2>1. \A h \in Ephemeral : WrittenAt(h) BY DEF WrittenAt, EmptyDir, Host
  <2> QED BY <1>2, <2>1, NoneIsNew DEF ResultsAreOwn, Reported, Settled
<1> QED BY <1>1, <1>3, <1>4, <1>5 DEF OwnInv

\* When the stamp of a build on a launched machine says succeeded
\* (_drive_finalizing), the image it reports is the one that this build's own
\* wrapper submitted, and AWS has it: whatever other builds, monitors,
\* abandons and interruptions there were on the project.
THEOREM SuccessIsOwnAlways == Spec => []SuccessIsOwn
<1>1. OwnInv => SuccessIsOwn
  BY DEF OwnInv, ResultsAreOwn, Reported, SuccessIsOwn
<1> QED BY <1>1, OwnInit, OwnStep, PTL DEF Spec

\* A monitor that has reached _teardown_host does not take a launched machine
\* from under a wrapper that still works, although it found out from a file
\* that any build on that machine could have written.
THEOREM TeardownAfterExitAlways == Spec => []TeardownAfterExit
<1>1. OwnInv => TeardownAfterExit
  BY DEF OwnInv, ResultsAreOwn, Settled, Over, TeardownAfterExit, Live
<1> QED BY <1>1, OwnInit, OwnStep, PTL DEF Spec

-----------------------------------------------------------------------------
(***************************************************************************)
(* A machine that its owner runs is never stopped by a command, whatever   *)
(* number of commands there are.                                           *)
(***************************************************************************)

\* What names a machine

Names(s, t) == s.host = t.host /\ s.action = t.action

Requests(c) == RequestEphemeral(c) \/ RequestManaged(c) \/ RequestExternal(c)

\* No step but a request gives a copy of the stamp another machine.
LEMMA NamesKept ==
  ASSUME TypeOK, NEW c \in Cli, CliStep(c), ~Requests(c)
  PROVE  /\ Names(stamp', stamp) \/ Names(stamp', mem[c]) \/ Names(stamp', NoStamp)
         /\ Names(mem'[c], stamp) \/ Names(mem'[c], mem[c])
              \/ Names(mem'[c], NoStamp)
<1> USE DEF TypeOK, Stamp, Names, Goto, Done
<1>1. CASE Start(c)
  BY <1>1 DEF Start, StartBuild, StartMonitor, StartAbandon, Clean
<1>2. CASE LaunchStep(c)
  <2>1. CASE WriteStamp(c)
    BY <2>1 DEF WriteStamp
  <2>2. CASE LaunchFails(c)
    BY <2>2 DEF LaunchFails
  <2>3. CASE MarkRunning(c)
    BY <2>3 DEF MarkRunning
  <2> QED
    BY <1>2, <2>1, <2>2, <2>3 DEF LaunchStep, Requests, GuardAgain, Acquired,
       Setup, SetupFails, LaunchRemoteWrapper, VerifyWrapperStarted
<1>3. CASE MonitorStep(c)
  <2>1. CASE Attach(c)
    BY <2>1 DEF Attach
  <2>2. CASE Pull(c)
    <3> PICK result, status :
          mem' = [mem EXCEPT ![c] = [mem[c] EXCEPT !.result = result,
                                                   !.status = status]]
      BY <2>2 DEF Pull
    <3> QED BY <2>2 DEF Pull
  <2>3. CASE Teardown(c)
    BY <2>3 DEF Teardown
  <2>4. CASE PollSettled(c)
    BY <2>4 DEF PollSettled
  <2> QED
    BY <1>3, <2>1, <2>2, <2>3, <2>4 DEF MonitorStep, AttachRefused, Tail,
       ConnectionLost, TeardownFails, Persist, Reread, PollPending
<1>4. CASE AbandonStep(c)
  BY <1>4 DEF AbandonStep, AbandonRelease, AbandonMark, AbandonWipe, AbandonRmtree
<1>5. CASE Interrupt(c)
  BY <1>5 DEF Interrupt
<1> QED BY <1>1, <1>2, <1>3, <1>4, <1>5 DEF CliStep

\* What a request takes is not left running for anybody else.
LEMMA RequestTakes ==
  ASSUME TypeOK, NEW c \in Cli, Requests(c)
  PROVE  /\ stamp' = stamp
         /\ \A h \in Host : MayStop(mem'[c], h) => inst'[h] # "foreign"
         /\ \A h \in Host : inst'[h] = inst[h] \/ inst[h] # "foreign"
         /\ \A h \in Host : inst'[h] = "foreign" => inst[h] = "foreign"
<1> USE DEF TypeOK, MayStop, Stamp
<1>1. CASE RequestEphemeral(c)
  <2> PICK h \in Ephemeral : LaunchInstance(h) /\ Remember(c, h, "launched")
    BY <1>1 DEF RequestEphemeral
  <2>1. mem'[c].action = "launched"
    BY DEF Remember, NoStamp
  <2> QED
    BY <1>1, <2>1 DEF RequestEphemeral, LaunchInstance
<1>2. CASE RequestManaged(c)
  <2> PICK h \in Managed, action \in {"started", "connected"} :
        StartOrConnect(h, action) /\ Remember(c, h, action)
    BY <1>2 DEF RequestManaged
  <2>1. mem'[c].action = action /\ mem'[c].host = h
    BY DEF Remember, NoStamp
  <2> QED
    BY <1>2, <2>1 DEF RequestManaged, StartOrConnect
<1>3. CASE RequestExternal(c)
  <2> PICK h \in External : Remember(c, h, "connected")
    BY <1>3 DEF RequestExternal
  <2>1. mem'[c].action = "connected"
    BY DEF Remember, NoStamp
  <2> QED
    BY <1>3, <2>1 DEF RequestExternal
<1> QED BY <1>1, <1>2, <1>3 DEF Requests

\* cleanup_remote leaves a machine that its owner runs alone, when the copy it
\* acts on is right about how fslab came by it.
LEMMA CleanupSpares ==
  ASSUME TypeOK, NEW s, HostKnown(s), CleanupRemote(s.action, s.host),
         NEW h \in Host, inst[h] = "foreign", h \notin Ephemeral, ~MayStop(s, h)
  PROVE  inst'[h] = "foreign"
<1> USE DEF TypeOK
<1>1. CASE s.action = "launched"
  BY <1>1 DEF CleanupRemote, HostKnown
<1>2. CASE s.action = "started" /\ Up(s.host)
  BY <1>2 DEF CleanupRemote, MayStop
<1>3. CASE s.action # "launched" /\ ~(s.action = "started" /\ Up(s.host))
  BY <1>3 DEF CleanupRemote
<1> QED BY <1>1, <1>2, <1>3

LEMMA CleanupFrees ==
  ASSUME TypeOK, NEW action, NEW g, CleanupRemote(action, g),
         NEW h \in Host, inst'[h] = "foreign"
  PROVE  inst[h] = "foreign"
<1> USE DEF TypeOK
<1>1. CASE action = "launched" BY <1>1 DEF CleanupRemote
<1>2. CASE action = "started" /\ Up(g) BY <1>2 DEF CleanupRemote, Up
<1>3. CASE action # "launched" /\ ~(action = "started" /\ Up(g))
  BY <1>3 DEF CleanupRemote
<1> QED BY <1>1, <1>2, <1>3

\* What a command that takes no machine does to the machines is a clean-up.
LEMMA CliHosts ==
  ASSUME NEW c \in Cli, CliStep(c), ~Requests(c)
  PROVE  inst' = inst \/ CleanupRemote(mem[c].action, mem[c].host)
<1>1. CASE Start(c)
  BY <1>1 DEF Start, StartBuild, StartMonitor, StartAbandon, Clean
<1>2. CASE LaunchStep(c)
  BY <1>2 DEF LaunchStep, Requests, GuardAgain, Acquired, Setup, SetupFails,
     WriteStamp, LaunchRemoteWrapper, VerifyWrapperStarted, MarkRunning, LaunchFails
<1>3. CASE MonitorStep(c)
  BY <1>3 DEF MonitorStep, Attach, AttachRefused, Tail, ConnectionLost, Pull,
     Teardown, TeardownFails, Persist, Reread, PollPending, PollSettled
<1>4. CASE AbandonStep(c)
  BY <1>4 DEF AbandonStep, AbandonRelease, AbandonMark, AbandonWipe, AbandonRmtree
<1>5. CASE Interrupt(c)
  BY <1>5 DEF Interrupt
<1> QED BY <1>1, <1>2, <1>3, <1>4, <1>5 DEF CliStep

LEMMA ForeignStep == ForeignInv /\ [Next]_vars => ForeignInv'
<1> SUFFICES ASSUME ForeignInv, [Next]_vars PROVE ForeignInv'
  OBVIOUS
<1>0. TypeOK /\ CleanupInv /\ CleanupInv'
  BY CleanupStep DEF ForeignInv, CleanupInv
<1> SUFFICES ASSUME NEW h \in Host, inst'[h] = "foreign"
             PROVE  /\ h \notin Ephemeral
                    /\ ~MayStop(stamp', h)
                    /\ \A c \in Cli : ~MayStop(mem'[c], h)
  BY <1>0 DEF ForeignInv, MayStop
<1>1. ASSUME NEW c \in Cli, CliStep(c)
      PROVE  /\ h \notin Ephemeral /\ ~MayStop(stamp', h)
             /\ \A d \in Cli : ~MayStop(mem'[d], h)
  <2>1. inst[h] = "foreign"
    BY <1>0, <1>1, RequestTakes, CliHosts, CleanupFrees
  <2>2. /\ h \notin Ephemeral /\ ~MayStop(stamp, h)
        /\ \A d \in Cli : ~MayStop(mem[d], h)
    BY <2>1 DEF ForeignInv
  <2>3. ~MayStop(stamp', h) /\ ~MayStop(mem'[c], h)
    <3>1. CASE Requests(c)
      BY <1>0, <2>2, <3>1, RequestTakes
    <3>2. CASE ~Requests(c)
      <4>1. ~MayStop(NoStamp, h)
        BY NoneIsNew DEF MayStop, NoStamp
      <4> QED
        BY <1>0, <1>1, <2>2, <3>2, <4>1, NamesKept DEF MayStop, Names
    <3> QED BY <3>1, <3>2
  <2> QED BY <1>0, <1>1, <2>2, <2>3, OthersKept
<1>2. ASSUME \/ \E b \in Job : WrapperStep(b) \/ AfiSettles(b)
             \/ \E g \in Host : HostStep(g)
             \/ UNCHANGED vars
      PROVE  /\ h \notin Ephemeral /\ ~MayStop(stamp', h)
             /\ \A d \in Cli : ~MayStop(mem'[d], h)
  <2>1. UNCHANGED <<stamp, pc, mem>>
    BY <1>2, OutsideKept
  <2>2. inst[h] = "foreign" \/ OwnerStarts(h)
    BY <1>0, <1>2 DEF WrapperStep, WrapperStamps, WrapperExits, WrapperDies,
       AfiSettles, HostStep, HostGoesDown, GoesDown, OwnerStarts, OwnerStartsIt,
       vars, TypeOK
  <2>3. CASE inst[h] = "foreign"
    BY <2>1, <2>3 DEF ForeignInv
  <2>4. CASE OwnerStarts(h)
    BY <2>1, <2>4 DEF OwnerStarts, OwnerStartsIt, MayStop
  <2> QED BY <2>2, <2>3, <2>4
<1> QED BY <1>1, <1>2 DEF Next, CliStep

LEMMA ForeignInit == Init => ForeignInv
<1> SUFFICES ASSUME Init PROVE ForeignInv
  OBVIOUS
<1>1. stamp = NoStamp /\ \A c \in Cli : mem[c] = NoStamp
  BY DEF Init
<1>2. \A h \in Host : ~MayStop(NoStamp, h)
  BY NoneIsNew DEF MayStop, NoStamp
<1> QED BY <1>1, <1>2, CleanupInit DEF Init, HostsInit, ForeignInv, Host

\* A machine that its owner runs stays up until he takes it down: of the
\* commands, however many there are and wherever they break off, none stops
\* one that it did not start (cleanup_remote).
THEOREM ForeignUntouchedAlways == Spec => ForeignUntouched
<1>1. ASSUME ForeignInv, [Next]_vars
      PROVE  [\A h \in Host : inst[h] = "foreign" /\ inst'[h] # "foreign" =>
                HostGoesDown(h)]_vars
  <2> SUFFICES ASSUME NEW h \in Host, inst[h] = "foreign", inst'[h] # "foreign"
               PROVE  HostGoesDown(h)
    OBVIOUS
  <2>0. /\ TypeOK /\ h \notin Ephemeral
        /\ \A c \in Cli : HostKnown(mem[c]) /\ ~MayStop(mem[c], h)
    BY <1>1 DEF ForeignInv, CleanupInv, Trusted
  <2>1. ASSUME NEW c \in Cli PROVE ~CliStep(c)
    <3>1. CASE Requests(c)
      BY <2>0, <3>1, RequestTakes
    <3>2. CASE ~Requests(c)
      BY <2>0, <3>2, CliHosts, CleanupSpares
    <3> QED BY <3>1, <3>2
  <2>2. PICK g \in Host : HostGoesDown(g)
    BY <1>1, <2>0, <2>1 DEF Next, CliStep, WrapperStep, WrapperStamps, WrapperExits,
       WrapperDies, AfiSettles, HostStep, OwnerStarts, OwnerStartsIt, TypeOK, vars
  <2>3. g = h
    BY <2>0, <2>2 DEF HostGoesDown, GoesDown, TypeOK
  <2> QED BY <2>2, <2>3
<1> QED BY <1>1, ForeignInit, ForeignStep, PTL DEF Spec, ForeignUntouched

-----------------------------------------------------------------------------
(***************************************************************************)
(* One command at a time: the copy of the stamp that a command has in      *)
(* memory is the one on disk, except while it holds an outcome that it has *)
(* not written down yet.                                                   *)
(***************************************************************************)

LEMMA NoStampBlank ==
  /\ NoStamp.id = None /\ NoStamp.host = None /\ NoStamp.action = None
  /\ NoStamp.status = "absent" /\ NoStamp.cleanup_done = FALSE
  BY DEF NoStamp

\* A machine that is not held is only taken by a request.
LEMMA HeldByRequest ==
  ASSUME TypeOK, [Next]_vars, NEW h \in Host, inst[h] # "held", inst'[h] = "held"
  PROVE  \E c \in Cli : RequestEphemeral(c) \/ RequestManaged(c)
<1> USE DEF TypeOK
<1>1. ASSUME NEW c \in Cli, CliStep(c), ~Requests(c) PROVE FALSE
  <2>1. CleanupRemote(mem[c].action, mem[c].host)
    BY <1>1, CliHosts
  <2>2. CASE mem[c].action = "launched"
    BY <2>1, <2>2 DEF CleanupRemote
  <2>3. CASE mem[c].action = "started" /\ Up(mem[c].host)
    BY <2>1, <2>3 DEF CleanupRemote
  <2>4. CASE mem[c].action # "launched"
             /\ ~(mem[c].action = "started" /\ Up(mem[c].host))
    BY <2>1, <2>4 DEF CleanupRemote
  <2> QED BY <2>2, <2>3, <2>4
<1>2. ASSUME NEW c \in Cli, RequestExternal(c) PROVE FALSE
  BY <1>2 DEF RequestExternal
<1>3. ASSUME \/ \E b \in Job : WrapperStep(b) \/ AfiSettles(b)
             \/ \E g \in Host : HostStep(g)
             \/ UNCHANGED vars
      PROVE  FALSE
  BY <1>3 DEF WrapperStep, WrapperStamps, WrapperExits, WrapperDies, AfiSettles,
     HostStep, HostGoesDown, GoesDown, OwnerStarts, OwnerStartsIt, vars
<1> QED BY <1>1, <1>2, <1>3 DEF Next, CliStep, Requests

LEMMA FreedStays ==
  ASSUME TypeOK, [Next]_vars, NEW s, KnowsHost(s), Freed(s),
         \A c \in Cli : ~RequestEphemeral(c) /\ ~RequestManaged(c)
  PROVE  s.action = "connected" \/ inst'[s.host] # "held"
  BY HeldByRequest DEF Freed, KnowsHost

\* cleanup_remote frees the machine, whatever it does.
LEMMA CleanupReleases ==
  ASSUME TypeOK, NEW s, KnowsHost(s), CleanupRemote(s.action, s.host)
  PROVE  s.action = "connected" \/ inst'[s.host] # "held"
<1> USE DEF TypeOK, KnowsHost
<1>1. CASE s.action = "launched"
  BY <1>1 DEF CleanupRemote
<1>2. CASE s.action = "started" /\ Up(s.host)
  BY <1>2 DEF CleanupRemote
<1>3. CASE s.action = "started" /\ ~Up(s.host)
  BY <1>3 DEF CleanupRemote, Up
<1> QED BY <1>1, <1>2, <1>3 DEF Action

LEMMA AloneCli ==
  ASSUME AloneInv, NEW c \in Cli, CliStep(c)
  PROVE  Whole(stamp)' /\ InStep(c)'
<1>0. /\ TypeOK /\ [Next]_vars /\ stamp \in Stamp /\ mem[c] \in Stamp
      /\ Whole(stamp) /\ InStep(c)
      /\ \A b \in Job : job[b] = "unused" => home[b] = None
      /\ home \in [Job -> Host \cup {None}]
  BY DEF AloneInv, OwnInv, CleanupInv, TypeOK, IdsAreOwn, CliStep, Next
<1>1. ASSUME stamp' = stamp, home' = home PROVE Whole(stamp)'
  BY <1>0, <1>1 DEF Whole, KnowsHost
<1>2. ASSUME stamp' = NoStamp PROVE Whole(stamp)'
  BY <1>2 DEF Whole
<1>3. ASSUME SameBuild(stamp', stamp), home' = home, stamp # NoStamp,
             stamp'.status \in BuildStatus
      PROVE  Whole(stamp)'
  BY <1>0, <1>3 DEF Whole, KnowsHost, SameBuild
<1>4. ASSUME pc'[c] = "idle" PROVE InStep(c)'
  BY <1>4 DEF InStep, Launching
<1> USE <1>0 DEF TypeOK, Goto, Done, Stamp, Launching, BuildStatus, Terminal
<1>5. CASE Start(c)
  <2>1. CASE StartBuild(c)
    BY <1>1, <2>1 DEF StartBuild, InStep
  <2>2. CASE StartMonitor(c)
    BY <1>1, <2>2 DEF StartMonitor, InStep, Whole
  <2>3. CASE StartAbandon(c)
    BY <1>1, <2>3 DEF StartAbandon, InStep
  <2>4. CASE Clean(c)
    BY <1>2, <1>4, <2>4 DEF Clean
  <2> QED BY <1>5, <2>1, <2>2, <2>3, <2>4 DEF Start
<1>6. CASE LaunchStep(c)
  <2>1. CASE GuardAgain(c)
    BY <1>1, <2>1 DEF GuardAgain, InStep
  <2>2. CASE RequestEphemeral(c)
    <3> PICK h \in Ephemeral : Remember(c, h, "launched")
      BY <2>2 DEF RequestEphemeral
    <3>1. mem'[c] = [NoStamp EXCEPT !.host = h, !.action = "launched"]
      BY DEF Remember
    <3>2. KnowsHost(mem'[c]) /\ ~mem'[c].cleanup_done
      BY <3>1 DEF NoStamp, KnowsHost, Host, Action
    <3>3. stamp = NoStamp /\ pc'[c] = "acquire" /\ stamp' = stamp /\ home' = home
      BY <2>2 DEF RequestEphemeral, InStep
    <3> QED BY <1>1, <3>2, <3>3 DEF InStep, KnowsHost
  <2>3. CASE RequestManaged(c)
    <3> PICK h \in Managed, action \in {"started", "connected"} :
          Remember(c, h, action)
      BY <2>3 DEF RequestManaged
    <3>1. mem'[c] = [NoStamp EXCEPT !.host = h, !.action = action]
      BY DEF Remember
    <3>2. KnowsHost(mem'[c]) /\ ~mem'[c].cleanup_done
      BY <3>1 DEF NoStamp, KnowsHost, Host, Action
    <3>3. stamp = NoStamp /\ pc'[c] = "acquire" /\ stamp' = stamp /\ home' = home
      BY <2>3 DEF RequestManaged, InStep
    <3> QED BY <1>1, <3>2, <3>3 DEF InStep, KnowsHost
  <2>4. CASE RequestExternal(c)
    <3> PICK h \in External : Remember(c, h, "connected")
      BY <2>4 DEF RequestExternal
    <3>1. mem'[c] = [NoStamp EXCEPT !.host = h, !.action = "connected"]
      BY DEF Remember
    <3>2. KnowsHost(mem'[c]) /\ ~mem'[c].cleanup_done
      BY <3>1 DEF NoStamp, KnowsHost, Host, Action
    <3>3. stamp = NoStamp /\ pc'[c] = "setup" /\ stamp' = stamp /\ home' = home
      BY <2>4 DEF RequestExternal, InStep
    <3> QED BY <1>1, <3>2, <3>3 DEF InStep, KnowsHost
  <2>5. CASE Acquired(c)
    BY <1>1, <2>5 DEF Acquired, InStep, KnowsHost
  <2>6. CASE Setup(c)
    BY <1>1, <2>6 DEF Setup, InStep, KnowsHost
  <2>7. CASE SetupFails(c)
    BY <1>1, <1>4, <2>7 DEF SetupFails
  <2>8. CASE WriteStamp(c)
    <3> PICK b \in Job :
          /\ home' = [home EXCEPT ![b] = mem[c].host]
          /\ stamp' = [mem[c] EXCEPT !.id = b, !.status = "launching"]
      BY <2>8 DEF WriteStamp
    <3>1. KnowsHost(mem[c])
      BY <2>8 DEF WriteStamp, InStep
    <3>2. /\ stamp'.host = mem[c].host /\ stamp'.action = mem[c].action
          /\ stamp'.id = b /\ stamp'.status = "launching"
      OBVIOUS
    <3>3. Whole(stamp)'
      BY <3>1, <3>2 DEF Whole, KnowsHost
    <3>4. stamp' # NoStamp
      BY <3>2, NoStampBlank
    <3>5. mem'[c] = stamp' /\ pc'[c] = "launch"
      BY <2>8 DEF WriteStamp
    <3> QED BY <3>2, <3>3, <3>4, <3>5 DEF InStep
  <2>9. CASE LaunchRemoteWrapper(c)
    BY <1>1, <2>9 DEF LaunchRemoteWrapper, InStep
  <2>10. CASE VerifyWrapperStarted(c)
    BY <1>1, <2>10 DEF VerifyWrapperStarted, InStep
  <2>11. CASE MarkRunning(c)
    <3>1. SameBuild(stamp', stamp) /\ stamp # NoStamp
      BY <2>11 DEF MarkRunning, InStep, SameBuild
    <3> QED BY <1>3, <1>4, <2>11, <3>1 DEF MarkRunning
  <2>12. CASE LaunchFails(c)
    <3>1. SameBuild(stamp', stamp) /\ stamp # NoStamp
      BY <2>12 DEF LaunchFails, InStep, SameBuild
    <3> QED BY <1>3, <1>4, <2>12, <3>1 DEF LaunchFails
  <2> QED BY <1>6, <2>1, <2>2, <2>3, <2>4, <2>5, <2>6, <2>7, <2>8, <2>9, <2>10,
             <2>11, <2>12 DEF LaunchStep
<1>7. CASE MonitorStep(c)
  <2>1. CASE Attach(c)
    <3>1. stamp = mem[c] /\ stamp # NoStamp
          /\ stamp.status \in {"launching", "running", "finalizing"}
      BY <2>1 DEF Attach, InStep
    <3>2. CASE mem[c].status = "launching"
      <4>1. /\ stamp' = [mem[c] EXCEPT !.status = "running"]
            /\ mem'[c] = [mem[c] EXCEPT !.status = "running"]
            /\ pc'[c] = "tail" /\ home' = home
        BY <2>1, <3>2 DEF Attach
      <4>2. SameBuild(stamp', stamp) /\ stamp'.status = "running" /\ stamp' = mem'[c]
        BY <3>1, <4>1 DEF SameBuild
      <4>3. stamp' # NoStamp
        BY <4>2, NoStampBlank
      <4> QED BY <1>3, <3>1, <4>1, <4>2, <4>3 DEF InStep
    <3>3. CASE mem[c].status # "launching"
      BY <1>1, <2>1, <3>1, <3>3 DEF Attach, InStep
    <3> QED BY <3>2, <3>3
  <2>2. CASE AttachRefused(c)
    BY <1>1, <1>4, <2>2 DEF AttachRefused
  <2>3. CASE Tail(c)
    BY <1>1, <2>3 DEF Tail, InStep
  <2>4. CASE ConnectionLost(c)
    BY <1>1, <1>4, <2>4 DEF ConnectionLost
  <2>5. CASE Pull(c)
    <3> PICK result, status :
          /\ status \in {"finalizing", "wrapper_failed"}
          /\ mem'[c] = [mem[c] EXCEPT !.result = result, !.status = status]
      BY <2>5 DEF Pull
    <3>1. /\ SameBuild(mem'[c], mem[c]) /\ mem'[c].status = status
          /\ mem'[c].cleanup_done = mem[c].cleanup_done
      BY DEF SameBuild
    <3>2. /\ pc[c] = "pull" /\ pc'[c] = "teardown" /\ stamp' = stamp /\ home' = home
      BY <2>5 DEF Pull
    <3> QED BY <1>1, <3>1, <3>2 DEF InStep, SameBuild
  <2>6. CASE Teardown(c)
    <3>1. /\ stamp # NoStamp /\ stamp.status = "running" /\ SameBuild(stamp, mem[c])
          /\ mem[c].status \in {"finalizing", "wrapper_failed"}
          /\ mem[c].cleanup_done = stamp.cleanup_done
      BY <2>6 DEF Teardown, InStep
    <3>2. /\ pc'[c] = "persist" /\ stamp' = stamp /\ home' = home
          /\ mem'[c] = [mem[c] EXCEPT !.cleanup_done = TRUE]
      BY <2>6 DEF Teardown
    <3>3. SameBuild(stamp, mem'[c]) /\ mem'[c].status = mem[c].status
          /\ mem'[c].cleanup_done
      BY <3>1, <3>2 DEF SameBuild
    <3>4. CASE mem[c].cleanup_done
      BY <1>1, <3>1, <3>2, <3>3, <3>4 DEF InStep, SameBuild
    <3>5. CASE ~mem[c].cleanup_done
      <4>1. CleanupRemote(stamp.action, stamp.host)
        BY <2>6, <3>1, <3>5 DEF Teardown, SameBuild
      <4>2. stamp.action = "connected" \/ inst'[stamp.host] # "held"
        BY <3>1, <4>1, CleanupReleases DEF Whole
      <4> QED BY <1>1, <3>1, <3>2, <3>3, <4>2 DEF InStep, SameBuild, Freed
    <3> QED BY <3>4, <3>5
  <2>7. CASE TeardownFails(c)
    BY <1>1, <2>7 DEF TeardownFails, InStep, SameBuild
  <2>8. CASE Persist(c)
    <3>1. SameBuild(stamp', stamp) /\ stamp # NoStamp
      BY <2>8 DEF Persist, InStep, SameBuild
    <3> QED BY <1>3, <2>8, <3>1 DEF Persist, InStep
  <2>9. CASE Reread(c)
    BY <1>1, <1>4, <2>9, NoStampBlank DEF Reread, InStep
  <2>10. CASE PollPending(c)
    BY <1>1, <2>10 DEF PollPending, InStep
  <2>11. CASE PollSettled(c)
    <3>1. SameBuild(stamp', stamp) /\ stamp # NoStamp
      BY <2>11 DEF PollSettled, InStep, SameBuild
    <3> QED BY <1>3, <1>4, <2>11, <3>1 DEF PollSettled
  <2> QED BY <1>7, <2>1, <2>2, <2>3, <2>4, <2>5, <2>6, <2>7, <2>8, <2>9, <2>10,
             <2>11 DEF MonitorStep
<1>8. CASE AbandonStep(c)
  <2>1. CASE AbandonRelease(c)
    <3>1. stamp = mem[c] /\ stamp # NoStamp
      BY <2>1 DEF AbandonRelease, InStep
    <3>2. stamp.action = "connected" \/ inst'[stamp.host] # "held"
      BY <2>1, <3>1, CleanupReleases DEF Whole, AbandonRelease
    <3> QED BY <1>1, <2>1, <3>1, <3>2 DEF AbandonRelease, InStep, Freed
  <2>2. CASE AbandonMark(c)
    <3>1. SameBuild(stamp', stamp) /\ stamp # NoStamp /\ stamp'.cleanup_done
      BY <2>2 DEF AbandonMark, InStep, SameBuild
    <3> QED BY <1>3, <2>2, <3>1 DEF AbandonMark, InStep
  <2>3. CASE AbandonWipe(c)
    BY <1>2, <2>3 DEF AbandonWipe, InStep
  <2>4. CASE AbandonRmtree(c)
    BY <1>2, <1>4, <2>4 DEF AbandonRmtree
  <2> QED BY <1>8, <2>1, <2>2, <2>3, <2>4 DEF AbandonStep
<1>9. CASE Interrupt(c)
  BY <1>1, <1>4, <1>9 DEF Interrupt
<1> QED BY <1>5, <1>6, <1>7, <1>8, <1>9 DEF CliStep

\* While nothing is launched, no wrapper begins to fly.
LEMMA FlyingKept ==
  ASSUME OwnInv, [Next]_vars, NEW b \in Job, Flying(b)', ~Flying(b)
  PROVE  \E c \in Cli : LaunchRemoteWrapper(c) /\ mem[c].id = b
<1>0. TypeOK /\ \A a \in Job : job[a] = "unused" => home[a] = None
  BY DEF OwnInv, CleanupInv, IdsAreOwn
<1> USE <1>0 DEF TypeOK, Live, Flying
<1>1. CASE CleanupOnly
  <2>1. Live(b)
    BY <1>1 DEF CleanupOnly
  <2>2. ~\E c \in Cli : WriteStamp(c)
    BY <1>1 DEF CleanupOnly, WriteStamp
  <2> QED BY <2>1, <2>2, HomesChange
<1>2. ASSUME NEW c \in Cli, WriteStamp(c)
      PROVE  FALSE
  <2>1. PICK a \in Job : /\ job[a] = "unused"
                         /\ job' = [job EXCEPT ![a] = "drawn"]
                         /\ home' = [home EXCEPT ![a] = mem[c].host]
    BY <1>2 DEF WriteStamp
  <2> QED BY <2>1
<1>3. ASSUME NEW c \in Cli, LaunchRemoteWrapper(c)
      PROVE  mem[c].id = b
  BY <1>3 DEF LaunchRemoteWrapper
<1>4. ASSUME NEW a \in Job, WrapperStamps(a) PROVE FALSE
  BY <1>4 DEF WrapperStamps
<1>5. ASSUME NEW a \in Job, NEW ok \in BOOLEAN, WrapperExits(a, ok) PROVE FALSE
  BY <1>5 DEF WrapperExits
<1> QED BY <1>1, <1>2, <1>3, <1>4, <1>5, JobsChange

\* The stamp keeps its id, unless it is written for the first time or wiped.
LEMMA IdKept ==
  ASSUME AloneInv, NEW c \in Cli, CliStep(c), NoClean, ~WriteStamp(c)
  PROVE  stamp'.id = stamp.id \/ pc[c] = "wipe"
<1>0. stamp \in Stamp /\ mem[c] \in Stamp /\ InStep(c)
  BY DEF AloneInv, OwnInv, CleanupInv, TypeOK
<1> USE <1>0 DEF Stamp, InStep, SameBuild
<1>1. CASE Start(c)
  BY <1>1 DEF Start, StartBuild, StartMonitor, StartAbandon, Clean, NoClean
<1>2. CASE LaunchStep(c)
  <2>1. CASE MarkRunning(c) BY <2>1 DEF MarkRunning
  <2>2. CASE LaunchFails(c) BY <2>2 DEF LaunchFails
  <2> QED
    BY <1>2, <2>1, <2>2 DEF LaunchStep, GuardAgain, RequestEphemeral,
       RequestManaged, RequestExternal, Acquired, Setup, SetupFails,
       LaunchRemoteWrapper, VerifyWrapperStarted
<1>3. CASE MonitorStep(c)
  <2>1. CASE Attach(c) BY <2>1 DEF Attach
  <2>2. CASE Persist(c) BY <2>2 DEF Persist
  <2>3. CASE PollPending(c) BY <2>3 DEF PollPending
  <2>4. CASE PollSettled(c) BY <2>4 DEF PollSettled
  <2> QED
    BY <1>3, <2>1, <2>2, <2>3, <2>4 DEF MonitorStep, AttachRefused, Tail,
       ConnectionLost, Pull, Teardown, TeardownFails, Reread
<1>4. CASE AbandonStep(c)
  <2>1. CASE AbandonMark(c) BY <2>1 DEF AbandonMark
  <2> QED
    BY <1>4, <2>1 DEF AbandonStep, AbandonRelease, AbandonWipe, AbandonRmtree
<1>5. CASE Interrupt(c)
  BY <1>5 DEF Interrupt
<1> QED BY <1>1, <1>2, <1>3, <1>4, <1>5 DEF CliStep

\* How a command comes to the end of an abandon.
LEMMA AbandonsFrom ==
  ASSUME TypeOK, NEW c \in Cli, CliStep(c), pc'[c] \in {"mark", "wipe", "rmtree"}
  PROVE  \/ AbandonRelease(c) \/ pc[c] \in {"mark", "wipe", "rmtree"}
         \/ stamp = NoStamp /\ StartAbandon(c)
<1> USE DEF TypeOK, Goto, Done
<1>1. CASE Start(c)
  BY <1>1 DEF Start, StartBuild, StartMonitor, StartAbandon, Clean
<1>2. CASE LaunchStep(c)
  BY <1>2 DEF LaunchStep, GuardAgain, RequestEphemeral, RequestManaged,
     RequestExternal, Acquired, Setup, SetupFails, WriteStamp,
     LaunchRemoteWrapper, VerifyWrapperStarted, MarkRunning, LaunchFails
<1>3. CASE MonitorStep(c)
  BY <1>3 DEF MonitorStep, Attach, AttachRefused, Tail, ConnectionLost, Pull,
     Teardown, TeardownFails, Persist, Reread, PollPending, PollSettled
<1>4. CASE AbandonStep(c)
  BY <1>4 DEF AbandonStep, AbandonRelease, AbandonMark, AbandonWipe, AbandonRmtree
<1>5. CASE Interrupt(c)
  BY <1>5 DEF Interrupt
<1> QED BY <1>1, <1>2, <1>3, <1>4, <1>5 DEF CliStep

LEMMA FlightCli ==
  ASSUME OneAtATime, NoClean, FlightInv, NEW c \in Cli, CliStep(c)
  PROVE  InFlight'
<1>0. /\ TypeOK /\ [Next]_vars /\ InStep(c) /\ Whole(stamp) /\ OwnInv
      /\ AloneInv /\ \A d \in Cli : d = c
      /\ \A b \in Job : Flying(b) => stamp.id = b
      /\ \A b \in Job : pc[c] \in {"mark", "wipe", "rmtree"} => ~Flying(b)
  BY DEF FlightInv, AloneInv, OwnInv, CleanupInv, OneAtATime, CliStep, Next, InFlight
<1> SUFFICES ASSUME NEW b \in Job, Flying(b)'
             PROVE  /\ stamp'.id = b
                    /\ pc'[c] \notin {"mark", "wipe", "rmtree"}
  BY <1>0 DEF InFlight
<1>1. CASE Flying(b)
  <2>1. stamp.id = b /\ stamp # NoStamp
    BY <1>0, <1>1, NoStampBlank, NoneIsNew
  <2>2. ~WriteStamp(c)
    BY <1>0, <2>1 DEF WriteStamp, InStep, Launching
  <2>3. stamp'.id = b
    BY <1>0, <1>1, <2>1, <2>2, IdKept
  <2>4. ~AbandonRelease(c)
    <3>1. SUFFICES ASSUME AbandonRelease(c) PROVE FALSE
      OBVIOUS
    <3>2. stamp = mem[c] /\ CleanupRemote(stamp.action, stamp.host) /\ home' = home
      BY <1>0, <3>1 DEF AbandonRelease, InStep
    <3>3. stamp.host \in Ephemeral /\ home[b] = stamp.host
      BY <1>0, <1>1, <2>1 DEF Whole, Flying
    <3>4. stamp.action = "launched"
      BY <1>0, <3>3 DEF OwnInv, CleanupInv, Trusted, HostKnown
    <3>5. KillJobsOn(stamp.host)
      BY <3>2, <3>4 DEF CleanupRemote
    <3> QED BY <3>3, <3>5 DEF KillJobsOn, Flying, Live
  <2>5. pc'[c] \notin {"mark", "wipe", "rmtree"}
    BY <1>0, <1>1, <2>1, <2>4, AbandonsFrom
  <2> QED BY <2>3, <2>5
<1>2. CASE ~Flying(b)
  <2>1. LaunchRemoteWrapper(c) /\ mem[c].id = b
    BY <1>0, <1>2, FlyingKept
  <2> QED
    BY <1>0, <2>1 DEF LaunchRemoteWrapper, InStep, Goto, TypeOK
<1> QED BY <1>1, <1>2

LEMMA AloneStep == OneAtATime /\ AloneInv /\ [Next]_vars => AloneInv'
<1> SUFFICES ASSUME OneAtATime, AloneInv, [Next]_vars PROVE AloneInv'
  OBVIOUS
<1>1. OwnInv' /\ OwnInv /\ TypeOK
  BY OwnStep DEF AloneInv, OwnInv, CleanupInv
<1>2. ASSUME NEW c \in Cli, CliStep(c) PROVE AloneInv'
  <2>1. \A d \in Cli : d = c
    BY DEF OneAtATime
  <2>2. Whole(stamp)' /\ InStep(c)'
    BY <1>2, AloneCli
  <2>3. \A d \in Cli : InStep(d)'
    BY <2>1, <2>2
  <2> QED BY <1>1, <2>2, <2>3 DEF AloneInv
<1>3. ASSUME \/ \E b \in Job : WrapperStep(b) \/ AfiSettles(b)
             \/ \E h \in Host : HostStep(h)
             \/ UNCHANGED vars
      PROVE  AloneInv'
  <2>1. UNCHANGED <<stamp, pc, mem>>
    BY <1>3, OutsideKept
  <2>2. home' = home
    BY <1>3 DEF WrapperStep, WrapperStamps, WrapperExits, WrapperDies, AfiSettles,
       HostStep, HostGoesDown, OwnerStarts, vars
  <2>3. \A c \in Cli : ~RequestEphemeral(c) /\ ~RequestManaged(c)
    BY <1>1, <2>1 DEF RequestEphemeral, RequestManaged, Goto, TypeOK
  <2>4. Whole(stamp)'
    BY <2>1, <2>2 DEF AloneInv, Whole, KnowsHost
  <2>5. stamp # NoStamp /\ Freed(stamp) => Freed(stamp)'
    BY <1>1, <2>1, <2>3, FreedStays DEF AloneInv, Whole, Freed
  <2>6. ASSUME NEW c \in Cli PROVE InStep(c)'
    BY <2>1, <2>5 DEF AloneInv, InStep, KnowsHost, Launching
  <2> QED BY <1>1, <2>4, <2>6 DEF AloneInv
<1> QED BY <1>2, <1>3 DEF Next, CliStep

LEMMA FlightStep == OneAtATime /\ NoClean /\ FlightInv /\ [Next]_vars => FlightInv'
<1> SUFFICES ASSUME OneAtATime, NoClean, FlightInv, [Next]_vars PROVE FlightInv'
  OBVIOUS
<1>1. AloneInv' /\ OwnInv /\ TypeOK
  BY AloneStep DEF FlightInv, AloneInv, OwnInv, CleanupInv
<1>2. ASSUME NEW c \in Cli, CliStep(c) PROVE InFlight'
  BY <1>2, FlightCli
<1>3. ASSUME \/ \E b \in Job : WrapperStep(b) \/ AfiSettles(b)
             \/ \E h \in Host : HostStep(h)
             \/ UNCHANGED vars
      PROVE  InFlight'
  <2>1. UNCHANGED <<stamp, pc, mem>>
    BY <1>3, OutsideKept
  <2>2. \A c \in Cli : ~LaunchRemoteWrapper(c)
    BY <1>1, <2>1 DEF LaunchRemoteWrapper, Goto, TypeOK
  <2> QED BY <1>1, <2>1, <2>2, FlyingKept DEF FlightInv, InFlight
<1> QED BY <1>1, <1>2, <1>3 DEF Next, CliStep, FlightInv

LEMMA FlightInit == Init => FlightInv
<1> SUFFICES ASSUME Init PROVE FlightInv
  OBVIOUS
<1>1. OwnInv
  BY OwnInit
<1>2. /\ stamp = NoStamp /\ \A c \in Cli : pc[c] = "idle"
      /\ \A b \in Job : ~Flying(b)
  BY DEF Init, HostsInit, Flying, Live
<1> QED
  BY <1>1, <1>2 DEF FlightInv, AloneInv, Whole, InStep, Launching, InFlight

\* One command at a time, none of them `fslab clean`, keeps one build in flight:
\* the guard of build_bitstream looks at the stamp alone, and that is enough,
\* since an abandoned build's wrapper is gone before the stamp is, wherever a
\* command breaks off.
THEOREM OneBuildInFlightAlways ==
  OneAtATime /\ NoClean /\ Spec => []OneBuildInFlight
<1>1. FlightInv => OneBuildInFlight
  BY DEF FlightInv, InFlight, Flying, OneBuildInFlight
<1>2. ASSUME OneAtATime, NoClean PROVE Spec => []OneBuildInFlight
  <2>1. FlightInv /\ [Next]_vars => FlightInv'
    BY <1>2, FlightStep
  <2> QED BY <1>1, <2>1, FlightInit, PTL DEF Spec
<1> QED BY <1>2

-----------------------------------------------------------------------------
\* The status only moves forward

LEMMA StatusStep ==
  ASSUME AloneInv, NEW c \in Cli, CliStep(c),
         stamp'.id = stamp.id, stamp # NoStamp, stamp' # NoStamp
  PROVE  stamp'.status = stamp.status \/ Rank(stamp.status) < Rank(stamp'.status)
<1>0. /\ stamp \in Stamp /\ mem[c] \in Stamp /\ Whole(stamp) /\ InStep(c)
  BY DEF AloneInv, OwnInv, CleanupInv, TypeOK
<1> USE <1>0 DEF Rank, Stamp, InStep, Launching, Whole, BuildStatus, Terminal
<1>1. CASE Start(c)
  BY <1>1 DEF Start, StartBuild, StartMonitor, StartAbandon, Clean
<1>2. CASE LaunchStep(c)
  <2>1. CASE WriteStamp(c) BY <2>1 DEF WriteStamp
  <2>2. CASE MarkRunning(c) BY <2>2 DEF MarkRunning
  <2>3. CASE LaunchFails(c) BY <2>3 DEF LaunchFails
  <2> QED
    BY <1>2, <2>1, <2>2, <2>3 DEF LaunchStep, GuardAgain, RequestEphemeral,
       RequestManaged, RequestExternal, Acquired, Setup, SetupFails,
       LaunchRemoteWrapper, VerifyWrapperStarted
<1>3. CASE MonitorStep(c)
  <2>1. CASE Attach(c) BY <2>1 DEF Attach
  <2>2. CASE Persist(c) BY <2>2 DEF Persist
  <2>3. CASE PollPending(c) BY <2>3 DEF PollPending
  <2>4. CASE PollSettled(c)
    <3> PICK status \in {"succeeded", "failed"} :
          stamp' = [mem[c] EXCEPT !.status = status]
      BY <2>4 DEF PollSettled
    <3> QED BY <2>4 DEF PollSettled
  <2> QED
    BY <1>3, <2>1, <2>2, <2>3, <2>4 DEF MonitorStep, AttachRefused, Tail,
       ConnectionLost, Pull, Teardown, TeardownFails, Reread
<1>4. CASE AbandonStep(c)
  <2>1. CASE AbandonMark(c)
    <3>1. stamp'.status = "abandoned"
      BY <2>1 DEF AbandonMark
    <3> QED BY <3>1
  <2> QED
    BY <1>4, <2>1 DEF AbandonStep, AbandonRelease, AbandonWipe, AbandonRmtree
<1>5. CASE Interrupt(c)
  BY <1>5 DEF Interrupt
<1> QED BY <1>1, <1>2, <1>3, <1>4, <1>5 DEF CliStep

\* Of one command at a time, none writes an older status over a newer one of
\* the same build, although each writes back the copy it has in memory:
\* BuildStatus only moves forward.
THEOREM StatusForwardAlways == OneAtATime /\ Spec => StatusForward
<1>1. ASSUME OneAtATime PROVE Spec => StatusForward
  <2>1. AloneInv /\ [Next]_vars => AloneInv'
    BY <1>1, AloneStep
  <2>2. ASSUME AloneInv, [Next]_vars
        PROVE  [stamp'.id = stamp.id /\ stamp # NoStamp /\ stamp' # NoStamp =>
                  \/ stamp'.status = stamp.status
                  \/ Rank(stamp.status) < Rank(stamp'.status)]_vars
    BY <1>1, <2>2, OutsideKept, StatusStep DEF Next, CliStep
  <2> QED BY <2>1, <2>2, FlightInit, PTL DEF Spec, StatusForward, FlightInv
<1> QED BY <1>1

-----------------------------------------------------------------------------
\* The leases: what each is read off, and what a step does to them

\* What the lease on a machine is read off.
Named(h) == stamp.host = h /\ stamp.action # "connected" /\ ~stamp.cleanup_done

Taken(h) ==
  \E c \in Cli : /\ pc[c] \in Launching
                 /\ mem[c].host = h /\ mem[c].action # "connected"

LEMMA LeaseCases ==
  ASSUME NEW h
  PROVE  /\ inst[h] # "held" => LeaseOf(h) = "free"
         /\ inst[h] = "held" /\ Named(h) /\ stamp.status = "launching" =>
              LeaseOf(h) = "recorded"
         /\ inst[h] = "held" /\ Named(h) /\ stamp.status # "launching" =>
              LeaseOf(h) = "committed"
         /\ inst[h] = "held" /\ ~Named(h) /\ Taken(h) => LeaseOf(h) = "acquired"
         /\ inst[h] = "held" /\ ~Named(h) /\ ~Taken(h) => LeaseOf(h) = "lost"
  BY DEF LeaseOf, Named, Taken, Launching

LEMMA LeaseCasesNext ==
  ASSUME NEW h
  PROVE  /\ inst'[h] = "held" /\ Named(h)' /\ stamp'.status = "launching" =>
              LeaseOf(h)' = "recorded"
         /\ inst'[h] = "held" /\ Named(h)' /\ stamp'.status # "launching" =>
              LeaseOf(h)' = "committed"
         /\ inst'[h] = "held" /\ ~Named(h)' /\ Taken(h)' => LeaseOf(h)' = "acquired"
         /\ inst'[h] = "held" /\ ~Named(h)' /\ ~Taken(h)' => LeaseOf(h)' = "lost"
  BY DEF LeaseOf, Named, Taken, Launching

\* What a step of HostLease does to one machine.
Moves(old, new) ==
  \/ old = "free" /\ new = "acquired"
  \/ old = "acquired" /\ new = "recorded"
  \/ old = "recorded" /\ new = "committed"
  \/ old \in {"acquired", "recorded"} /\ new = "lost"
  \/ old # "free" /\ new = "free"

Leases == [h \in Host |-> LeaseOf(h)]

LEMMA LeaseMoves ==
  ASSUME NEW h \in Host, Moves(LeaseOf(h), LeaseOf(h)'),
         \A g \in Host : g # h => LeaseOf(g)' = LeaseOf(g)
  PROVE  HL!Next
<1>1. Leases' = [Leases EXCEPT ![h] = LeaseOf(h)']
  BY DEF Leases
<1>2. Leases[h] = LeaseOf(h)
  BY DEF Leases
<1>3. CASE LeaseOf(h) = "free" /\ LeaseOf(h)' = "acquired"
  BY <1>1, <1>2, <1>3 DEF HL!Next, HL!Acquire, HL!Become, Leases
<1>4. CASE LeaseOf(h) = "acquired" /\ LeaseOf(h)' = "recorded"
  BY <1>1, <1>2, <1>4 DEF HL!Next, HL!Record, HL!Become, Leases
<1>5. CASE LeaseOf(h) = "recorded" /\ LeaseOf(h)' = "committed"
  BY <1>1, <1>2, <1>5 DEF HL!Next, HL!Commit, HL!Become, Leases
<1>6. CASE LeaseOf(h) \in {"acquired", "recorded"} /\ LeaseOf(h)' = "lost"
  BY <1>1, <1>2, <1>6 DEF HL!Next, HL!Lose, HL!Become, Leases
<1>7. CASE LeaseOf(h) # "free" /\ LeaseOf(h)' = "free"
  BY <1>1, <1>2, <1>7 DEF HL!Next, HL!Release, HL!Become, Leases
<1> QED BY <1>3, <1>4, <1>5, <1>6, <1>7 DEF Moves

LEMMA LeasesKept ==
  ASSUME \A g \in Host : LeaseOf(g)' = LeaseOf(g)
  PROVE  Leases' = Leases
  BY DEF Leases

\* It is enough to look at one machine.
LEMMA OneLease ==
  ASSUME NEW h \in Host,
         LeaseOf(h)' = LeaseOf(h) \/ Moves(LeaseOf(h), LeaseOf(h)'),
         \A g \in Host : g # h => LeaseOf(g)' = LeaseOf(g)
  PROVE  HL!Next \/ Leases' = Leases
  BY LeaseMoves, LeasesKept

LEMMA SameLease ==
  ASSUME NEW g, inst'[g] = inst[g] \/ (inst[g] # "held" /\ inst'[g] # "held"),
         Named(g)' <=> Named(g),
         Named(g) => (stamp'.status = "launching" <=> stamp.status = "launching"),
         Taken(g)' <=> Taken(g)
  PROVE  LeaseOf(g)' = LeaseOf(g)
  BY DEF LeaseOf, Named, Taken, Launching

LEMMA FreeNext ==
  ASSUME NEW h, inst'[h] # "held"
  PROVE  LeaseOf(h)' = "free"
  BY DEF LeaseOf

LEMMA CleanupElsewhere ==
  ASSUME TypeOK, NEW action, NEW h, CleanupRemote(action, h)
  PROVE  /\ \A g \in Host : g # h => inst'[g] = inst[g]
         /\ action = "connected" => inst' = inst
<1> USE DEF TypeOK
<1>1. CASE action = "launched"
  BY <1>1 DEF CleanupRemote
<1>2. CASE action = "started" /\ Up(h)
  BY <1>2 DEF CleanupRemote
<1>3. CASE action # "launched" /\ ~(action = "started" /\ Up(h))
  BY <1>3 DEF CleanupRemote
<1> QED BY <1>1, <1>2, <1>3

Takes(c, h) ==
  pc[c] \in Launching /\ mem[c].host = h /\ mem[c].action # "connected"

\* Steps after which no machine is less, or more, released than before.
LEMMA QuietStep ==
  ASSUME NEW c \in Cli, \A d \in Cli : d = c, inst' = inst,
         stamp'.host = stamp.host, stamp'.action = stamp.action,
         stamp'.cleanup_done = stamp.cleanup_done,
         stamp'.status = "launching" <=> stamp.status = "launching",
         \A g \in Host : Takes(c, g)' <=> Takes(c, g)
  PROVE  Leases' = Leases
<1>1. ASSUME NEW g \in Host PROVE LeaseOf(g)' = LeaseOf(g)
  <2>1. Taken(g)' <=> Taken(g)
    BY DEF Taken, Takes
  <2>2. Named(g)' <=> Named(g)
    BY DEF Named
  <2> QED BY <2>1, <2>2, SameLease
<1> QED BY <1>1, LeasesKept

\* A release in the middle of a command changes one machine's lease at most.
LEMMA CleanupLease ==
  ASSUME TypeOK, NEW s, KnowsHost(s), CleanupRemote(s.action, s.host),
         NEW c \in Cli, \A d \in Cli : d = c, stamp' = stamp,
         s.action # "connected" =>
           \A g \in Host : g # s.host => (Takes(c, g)' <=> Takes(c, g)),
         s.action = "connected" => \A g \in Host : Takes(c, g)' <=> Takes(c, g)
  PROVE  HL!Next \/ Leases' = Leases
<1>1. CASE s.action = "connected"
  BY <1>1, QuietStep, CleanupElsewhere
<1>2. CASE s.action # "connected"
  <2>1. LeaseOf(s.host)' = "free"
    BY <1>2, CleanupReleases, FreeNext
  <2>2. ASSUME NEW g \in Host, g # s.host PROVE LeaseOf(g)' = LeaseOf(g)
    <3>1. Taken(g)' <=> Taken(g)
      BY <1>2, <2>2 DEF Taken, Takes
    <3>2. Named(g)' <=> Named(g)
      BY DEF Named
    <3>3. inst'[g] = inst[g]
      BY <2>2, CleanupElsewhere
    <3> QED BY <3>1, <3>2, <3>3, SameLease
  <2> QED BY <2>1, <2>2, OneLease DEF KnowsHost, Moves
<1> QED BY <1>1, <1>2

\* The machine a launcher gives up stays up, and nothing names it.
LEMMA LoseStep ==
  ASSUME NEW c \in Cli, \A d \in Cli : d = c, InStep(c), NEW h \in Host,
         pc[c] \in Launching, mem[c].host = h, pc'[c] \notin Launching,
         stamp' = stamp, inst' = inst
  PROVE  HL!Next \/ Leases' = Leases
<1>1. ASSUME NEW g \in Host PROVE ~Named(g) /\ ~Named(g)' /\ ~Taken(g)'
  BY NoStampBlank, NoneIsNew DEF InStep, Named, Taken
<1>2. ASSUME NEW g \in Host, g # h PROVE LeaseOf(g)' = LeaseOf(g)
  <2>1. ~Taken(g)
    BY <1>2 DEF Taken
  <2> QED BY <1>1, <2>1, SameLease
<1>3. LeaseOf(h)' = LeaseOf(h) \/ Moves(LeaseOf(h), LeaseOf(h)')
  <2>1. CASE inst[h] # "held"
    BY <2>1, LeaseCases, FreeNext
  <2>2. CASE inst[h] = "held" /\ Taken(h)
    <3>1. LeaseOf(h) = "acquired"
      BY <1>1, <2>2, LeaseCases
    <3>2. LeaseOf(h)' = "lost"
      BY <1>1, <2>2, LeaseCasesNext
    <3> QED BY <3>1, <3>2 DEF Moves
  <2>3. CASE ~Taken(h)
    BY <1>1, <2>3, SameLease
  <2> QED BY <2>1, <2>2, <2>3
<1> QED BY <1>2, <1>3, OneLease

LEMMA TakeStep ==
  ASSUME NEW c \in Cli, \A d \in Cli : d = c, stamp = NoStamp, stamp' = stamp,
         pc[c] = "request", pc'[c] \in Launching, NEW h \in Host,
         mem'[c].host = h, mem'[c].action # "connected", inst[h] # "held",
         inst' = [inst EXCEPT ![h] = "held"], TypeOK
  PROVE  HL!Next \/ Leases' = Leases
<1>1. ASSUME NEW g \in Host PROVE ~Named(g) /\ ~Named(g)' /\ ~Taken(g)
  BY NoStampBlank, NoneIsNew DEF Named, Taken, Launching
<1>2. ASSUME NEW g \in Host, g # h PROVE LeaseOf(g)' = LeaseOf(g)
  <2>1. ~Taken(g)' /\ inst'[g] = inst[g]
    BY <1>2 DEF Taken, TypeOK
  <2> QED BY <1>1, <2>1, SameLease
<1>3. LeaseOf(h) = "free"
  BY LeaseCases
<1>4. Taken(h)' /\ inst'[h] = "held"
  BY DEF Taken, TypeOK
<1>5. LeaseOf(h)' = "acquired"
  BY <1>1, <1>4, LeaseCasesNext
<1> QED BY <1>2, <1>3, <1>5, OneLease DEF Moves

LEMMA RecordStep ==
  ASSUME NEW c \in Cli, \A d \in Cli : d = c, TypeOK, InStep(c), WriteStamp(c)
  PROVE  HL!Next \/ Leases' = Leases
<1>1. /\ stamp = NoStamp /\ KnowsHost(mem[c]) /\ ~mem[c].cleanup_done
      /\ pc[c] \in Launching /\ pc'[c] = "launch" /\ inst' = inst
  BY DEF InStep, WriteStamp, Launching, Goto, TypeOK
<1>2. PICK b : stamp' = [mem[c] EXCEPT !.id = b, !.status = "launching"]
  BY DEF WriteStamp
<1>3. /\ stamp'.host = mem[c].host /\ stamp'.action = mem[c].action
      /\ stamp'.status = "launching" /\ ~stamp'.cleanup_done
  BY <1>1, <1>2 DEF TypeOK, Stamp
<1>4. ASSUME NEW g \in Host
      PROVE  /\ ~Named(g) /\ ~Taken(g)'
             /\ Taken(g) <=> mem[c].host = g /\ mem[c].action # "connected"
             /\ Named(g)' <=> mem[c].host = g /\ mem[c].action # "connected"
  BY <1>1, <1>3, NoStampBlank, NoneIsNew DEF Named, Taken, Launching
<1>5. ASSUME NEW g \in Host, g # mem[c].host \/ mem[c].action = "connected"
      PROVE  LeaseOf(g)' = LeaseOf(g)
  BY <1>1, <1>4, <1>5, SameLease
<1>6. ASSUME NEW h \in Host, h = mem[c].host, mem[c].action # "connected"
      PROVE  LeaseOf(h)' = LeaseOf(h) \/ Moves(LeaseOf(h), LeaseOf(h)')
  <2>1. CASE inst[h] # "held"
    BY <1>1, <2>1, LeaseCases, FreeNext
  <2>2. CASE inst[h] = "held"
    <3>1. LeaseOf(h) = "acquired"
      BY <1>4, <1>6, <2>2, LeaseCases
    <3>2. LeaseOf(h)' = "recorded"
      BY <1>1, <1>3, <1>4, <1>6, <2>2, LeaseCasesNext
    <3> QED BY <3>1, <3>2 DEF Moves
  <2> QED BY <2>1, <2>2
<1>7. CASE mem[c].action = "connected"
  BY <1>5, <1>7, LeasesKept
<1>8. CASE mem[c].action # "connected"
  BY <1>1, <1>5, <1>6, <1>8, OneLease DEF KnowsHost
<1> QED BY <1>7, <1>8

\* The stamp of a launch says that it is confirmed, or has failed.
LEMMA ConfirmStep ==
  ASSUME NEW c \in Cli, \A d \in Cli : d = c, inst' = inst,
         stamp # NoStamp, Whole(stamp), stamp.status = "launching",
         stamp'.status # "launching",
         stamp'.host = stamp.host, stamp'.action = stamp.action,
         stamp'.cleanup_done = stamp.cleanup_done \/ stamp'.cleanup_done,
         pc[c] \notin Launching, pc'[c] \notin Launching
  PROVE  HL!Next \/ Leases' = Leases
<1>1. ASSUME NEW g \in Host PROVE ~Taken(g) /\ ~Taken(g)'
  BY DEF Taken
<1>2. ASSUME NEW g \in Host, g # stamp.host \/ ~Named(g)
      PROVE  LeaseOf(g)' = LeaseOf(g)
  <2>1. ~Named(g) /\ ~Named(g)'
    BY <1>2 DEF Named
  <2> QED BY <1>1, <2>1, SameLease
<1>3. ASSUME NEW h \in Host, Named(h)
      PROVE  LeaseOf(h)' = LeaseOf(h) \/ Moves(LeaseOf(h), LeaseOf(h)')
  <2>1. CASE inst[h] # "held"
    BY <2>1, LeaseCases, FreeNext
  <2>2. CASE inst[h] = "held"
    <3>1. LeaseOf(h) = "recorded"
      BY <1>3, <2>2, LeaseCases
    <3>2. LeaseOf(h)' \in {"committed", "lost"}
      BY <1>1, <2>2, LeaseCasesNext
    <3> QED BY <3>1, <3>2 DEF Moves
  <2> QED BY <2>1, <2>2
<1> QED BY <1>2, <1>3, OneLease DEF Whole, KnowsHost

\* A stamp may say released of a machine that is.
LEMMA UnnameStep ==
  ASSUME NEW c \in Cli, \A d \in Cli : d = c, inst' = inst, Freed(stamp),
         stamp'.host = stamp.host, stamp'.action = stamp.action,
         pc[c] \notin Launching, pc'[c] \notin Launching
  PROVE  Leases' = Leases
<1>1. ASSUME NEW g \in Host PROVE LeaseOf(g)' = LeaseOf(g)
  <2>1. ~Taken(g) /\ ~Taken(g)'
    BY DEF Taken
  <2>2. CASE stamp.host # g \/ stamp.action = "connected"
    <3>1. ~Named(g) /\ ~Named(g)'
      BY <2>2 DEF Named
    <3> QED BY <2>1, <3>1, SameLease
  <2>3. CASE stamp.host = g /\ stamp.action # "connected"
    BY <2>3, LeaseCases, FreeNext DEF Freed
  <2> QED BY <2>2, <2>3
<1> QED BY <1>1, LeasesKept

\* A stamp goes that names no machine, or one that is released.
LEMMA WipeStep ==
  ASSUME NEW c \in Cli, \A d \in Cli : d = c, inst' = inst,
         stamp = NoStamp \/ stamp.cleanup_done, stamp' = NoStamp,
         pc[c] \notin Launching, pc'[c] \notin Launching
  PROVE  Leases' = Leases
<1>1. ASSUME NEW g \in Host PROVE LeaseOf(g)' = LeaseOf(g)
  <2>1. ~Taken(g) /\ ~Taken(g)'
    BY DEF Taken
  <2>2. ~Named(g) /\ ~Named(g)'
    BY NoStampBlank, NoneIsNew DEF Named
  <2> QED BY <2>1, <2>2, SameLease
<1> QED BY <1>1, LeasesKept

LEMMA CliLease ==
  ASSUME OneAtATime, NoClean, AloneInv, NEW c \in Cli, CliStep(c)
  PROVE  HL!Next \/ Leases' = Leases
<1>0. /\ TypeOK /\ stamp \in Stamp /\ mem[c] \in Stamp
      /\ InStep(c) /\ Whole(stamp)
      /\ \A d \in Cli : d = c
      /\ "clean" \notin Commands
  BY DEF AloneInv, OwnInv, CleanupInv, TypeOK, OneAtATime, NoClean
<1> USE <1>0
<1>1. ASSUME inst' = inst, stamp' = stamp,
             pc[c] \notin Launching, pc'[c] \notin Launching
      PROVE  Leases' = Leases
  BY <1>1, QuietStep DEF Takes
<1>2. CASE Start(c)
  <2>1. inst' = inst /\ stamp' = stamp
        /\ pc[c] \notin Launching /\ pc'[c] \notin Launching
    BY <1>2 DEF Start, StartBuild, StartMonitor, StartAbandon, Clean, Goto, TypeOK,
       Launching
  <2> QED BY <1>1, <2>1
<1>3. CASE LaunchStep(c)
  <2>1. CASE GuardAgain(c)
    BY <1>1, <2>1 DEF GuardAgain, Goto, TypeOK, Launching
  <2>2. CASE RequestEphemeral(c)
    <3> PICK h \in Ephemeral : LaunchInstance(h) /\ Remember(c, h, "launched")
      BY <2>2 DEF RequestEphemeral
    <3>1. mem'[c].host = h /\ mem'[c].action = "launched"
      BY DEF Remember, NoStamp, TypeOK
    <3>2. h \in Host /\ inst[h] # "held" /\ inst' = [inst EXCEPT ![h] = "held"]
      BY DEF LaunchInstance, Host
    <3>3. /\ stamp = NoStamp /\ stamp' = stamp /\ pc[c] = "request"
          /\ pc'[c] \in Launching
      BY <2>2 DEF RequestEphemeral, InStep, Goto, TypeOK, Launching
    <3> QED BY <3>1, <3>2, <3>3, TakeStep
  <2>3. CASE RequestManaged(c)
    <3> PICK h \in Managed, action \in {"started", "connected"} :
          StartOrConnect(h, action) /\ Remember(c, h, action)
      BY <2>3 DEF RequestManaged
    <3>1. mem'[c].host = h /\ mem'[c].action = action
      BY DEF Remember, NoStamp, TypeOK
    <3>2. /\ stamp = NoStamp /\ stamp' = stamp /\ pc[c] = "request"
          /\ pc'[c] \in Launching /\ h \in Host
      BY <2>3 DEF RequestManaged, InStep, Goto, TypeOK, Launching, Host
    <3>3. CASE action = "started"
      <4>1. inst[h] # "held" /\ inst' = [inst EXCEPT ![h] = "held"]
        BY <3>3 DEF StartOrConnect
      <4> QED BY <3>1, <3>2, <3>3, <4>1, TakeStep
    <3>4. CASE action = "connected"
      <4>1. inst' = inst
        BY <3>4 DEF StartOrConnect
      <4>2. \A g \in Host : ~Takes(c, g) /\ ~Takes(c, g)'
        BY <3>1, <3>2, <3>4 DEF Takes, Launching
      <4> QED BY <3>2, <4>1, <4>2, QuietStep
    <3> QED BY <3>3, <3>4
  <2>4. CASE RequestExternal(c)
    <3> PICK h \in External : Remember(c, h, "connected")
      BY <2>4 DEF RequestExternal
    <3>1. mem'[c].action = "connected"
      BY DEF Remember, NoStamp, TypeOK
    <3>2. /\ stamp' = stamp /\ inst' = inst /\ pc[c] = "request"
      BY <2>4 DEF RequestExternal
    <3>3. \A g \in Host : ~Takes(c, g) /\ ~Takes(c, g)'
      BY <3>1, <3>2 DEF Takes, Launching
    <3> QED BY <3>2, <3>3, QuietStep
  <2>5. CASE Acquired(c)
    <3>1. /\ stamp' = stamp /\ inst' = inst /\ mem' = mem
          /\ pc[c] \in Launching /\ pc'[c] \in Launching
      BY <2>5 DEF Acquired, Goto, TypeOK, Launching
    <3>2. \A g \in Host : Takes(c, g)' <=> Takes(c, g)
      BY <3>1 DEF Takes
    <3> QED BY <3>1, <3>2, QuietStep
  <2>6. CASE Setup(c)
    <3>1. /\ stamp' = stamp /\ inst' = inst /\ mem' = mem
          /\ pc[c] \in Launching /\ pc'[c] \in Launching
      BY <2>6 DEF Setup, Goto, TypeOK, Launching
    <3>2. \A g \in Host : Takes(c, g)' <=> Takes(c, g)
      BY <3>1 DEF Takes
    <3> QED BY <3>1, <3>2, QuietStep
  <2>7. CASE SetupFails(c)
    <3>1. /\ stamp' = stamp /\ KnowsHost(mem[c])
          /\ pc[c] \in Launching /\ pc'[c] \notin Launching
      BY <2>7 DEF SetupFails, Done, Goto, TypeOK, Launching, InStep
    <3>2. CASE CleanupRemote(mem[c].action, mem[c].host)
      <4>1. /\ mem[c].action # "connected" =>
                 \A g \in Host : g # mem[c].host => (Takes(c, g)' <=> Takes(c, g))
            /\ mem[c].action = "connected" =>
                 \A g \in Host : Takes(c, g)' <=> Takes(c, g)
        BY <3>1 DEF Takes
      <4> QED BY <3>1, <3>2, <4>1, CleanupLease
    <3>3. CASE inst' = inst
      BY <3>1, <3>3, LoseStep DEF KnowsHost
    <3> QED BY <2>7, <3>2, <3>3 DEF SetupFails
  <2>8. CASE WriteStamp(c)
    BY <2>8, RecordStep
  <2>9. CASE LaunchRemoteWrapper(c)
    BY <1>1, <2>9 DEF LaunchRemoteWrapper, Goto, TypeOK, Launching
  <2>10. CASE VerifyWrapperStarted(c)
    BY <1>1, <2>10 DEF VerifyWrapperStarted, Goto, TypeOK, Launching
  <2>11. CASE MarkRunning(c)
    <3>1. /\ stamp # NoStamp /\ stamp.status = "launching" /\ stamp = mem[c]
          /\ stamp' = [mem[c] EXCEPT !.status = "running"] /\ inst' = inst
          /\ pc[c] \notin Launching /\ pc'[c] \notin Launching
      BY <2>11 DEF MarkRunning, InStep, Done, Goto, TypeOK, Launching
    <3>2. /\ stamp'.status # "launching" /\ stamp'.host = stamp.host
          /\ stamp'.action = stamp.action /\ stamp'.cleanup_done = stamp.cleanup_done
      BY <3>1 DEF Stamp
    <3> QED BY <3>1, <3>2, ConfirmStep
  <2>12. CASE LaunchFails(c)
    <3>1. /\ stamp # NoStamp /\ stamp.status = "launching" /\ inst' = inst
          /\ pc[c] \notin Launching /\ pc'[c] \notin Launching
      BY <2>12 DEF LaunchFails, InStep, Done, Goto, TypeOK, Launching
    <3>2. stamp' = [stamp EXCEPT !.status = "wrapper_failed", !.cleanup_done = TRUE]
      BY <2>12, <3>1 DEF LaunchFails
    <3>3. /\ stamp'.status # "launching" /\ stamp'.host = stamp.host
          /\ stamp'.action = stamp.action /\ stamp'.cleanup_done
      BY <3>2 DEF Stamp
    <3> QED BY <3>1, <3>3, ConfirmStep
  <2> QED BY <1>3, <2>1, <2>2, <2>3, <2>4, <2>5, <2>6, <2>7, <2>8, <2>9, <2>10,
             <2>11, <2>12 DEF LaunchStep
<1>4. CASE MonitorStep(c)
  <2>0. pc[c] \notin Launching /\ pc'[c] \notin Launching
    BY <1>4 DEF MonitorStep, Attach, AttachRefused, Tail, ConnectionLost, Pull,
       Teardown, TeardownFails, Persist, Reread, PollPending, PollSettled, Done, Goto,
       TypeOK, Launching
  <2>1. CASE Attach(c)
    <3>1. CASE mem[c].status = "launching"
      <4>1. /\ stamp # NoStamp /\ stamp.status = "launching" /\ stamp = mem[c]
            /\ stamp' = [mem[c] EXCEPT !.status = "running"] /\ inst' = inst
        BY <2>1, <3>1 DEF Attach, InStep
      <4>2. /\ stamp'.status # "launching" /\ stamp'.host = stamp.host
            /\ stamp'.action = stamp.action
            /\ stamp'.cleanup_done = stamp.cleanup_done
        BY <4>1 DEF Stamp
      <4> QED BY <2>0, <4>1, <4>2, ConfirmStep
    <3>2. CASE mem[c].status # "launching"
      BY <1>1, <2>0, <2>1, <3>2 DEF Attach
    <3> QED BY <3>1, <3>2
  <2>2. CASE Teardown(c) \/ TeardownFails(c)
    <3>1. stamp' = stamp /\ KnowsHost(mem[c])
      BY <2>2 DEF Teardown, TeardownFails, InStep, SameBuild, Whole, KnowsHost
    <3>2. CASE inst' = inst
      BY <1>1, <2>0, <3>1, <3>2
    <3>3. CASE CleanupRemote(mem[c].action, mem[c].host)
      <4>1. \A g \in Host : Takes(c, g)' <=> Takes(c, g)
        BY <2>0 DEF Takes
      <4> QED BY <3>1, <3>3, <4>1, CleanupLease
    <3> QED BY <2>2, <3>2, <3>3 DEF Teardown, TeardownFails
  <2>3. CASE Persist(c)
    <3>1. /\ stamp' = mem[c] /\ inst' = inst /\ SameBuild(stamp, mem[c])
          /\ stamp.status = "running"
          /\ mem[c].status \in {"finalizing", "wrapper_failed"}
          /\ mem[c].cleanup_done = stamp.cleanup_done \/ Freed(stamp)
      BY <2>3 DEF Persist, InStep
    <3>2. stamp'.host = stamp.host /\ stamp'.action = stamp.action
      BY <3>1 DEF SameBuild
    <3>3. CASE mem[c].cleanup_done = stamp.cleanup_done
      BY <2>0, <3>1, <3>2, <3>3, QuietStep DEF Takes
    <3>4. CASE Freed(stamp)
      BY <2>0, <3>1, <3>2, <3>4, UnnameStep
    <3> QED BY <3>1, <3>3, <3>4
  <2>4. CASE PollPending(c) \/ PollSettled(c)
    <3>1. stamp = mem[c] /\ stamp.status = "finalizing" /\ inst' = inst
      BY <2>4 DEF PollPending, PollSettled, InStep
    <3>2. /\ stamp'.host = stamp.host /\ stamp'.action = stamp.action
          /\ stamp'.cleanup_done = stamp.cleanup_done /\ stamp'.status # "launching"
      BY <2>4, <3>1 DEF PollPending, PollSettled, Stamp
    <3> QED BY <2>0, <3>1, <3>2, QuietStep DEF Takes
  <2>5. CASE AttachRefused(c) \/ Tail(c) \/ ConnectionLost(c) \/ Pull(c) \/ Reread(c)
    BY <1>1, <2>0, <2>5 DEF AttachRefused, Tail, ConnectionLost, Pull, Reread
  <2> QED BY <1>4, <2>1, <2>2, <2>3, <2>4, <2>5 DEF MonitorStep
<1>5. CASE AbandonStep(c)
  <2>0. pc[c] \notin Launching /\ pc'[c] \notin Launching
    BY <1>5 DEF AbandonStep, AbandonRelease, AbandonMark, AbandonWipe,
       AbandonRmtree, Done, Goto, TypeOK, Launching
  <2>1. CASE AbandonRelease(c)
    <3>1. /\ stamp' = stamp /\ KnowsHost(mem[c])
          /\ CleanupRemote(mem[c].action, mem[c].host)
      BY <2>1 DEF AbandonRelease, InStep, Whole
    <3>2. \A g \in Host : Takes(c, g)' <=> Takes(c, g)
      BY <2>0 DEF Takes
    <3> QED BY <3>1, <3>2, CleanupLease
  <2>2. CASE AbandonMark(c)
    <3>1. /\ stamp = mem[c] /\ Freed(stamp) /\ inst' = inst
          /\ stamp' = [mem[c] EXCEPT !.status = "abandoned", !.cleanup_done = TRUE]
      BY <2>2 DEF AbandonMark, InStep
    <3>2. stamp'.host = stamp.host /\ stamp'.action = stamp.action
      BY <3>1 DEF Stamp
    <3> QED BY <2>0, <3>1, <3>2, UnnameStep
  <2>3. CASE AbandonWipe(c)
    BY <2>0, <2>3, WipeStep DEF AbandonWipe, InStep
  <2>4. CASE AbandonRmtree(c)
    BY <2>0, <2>4, WipeStep DEF AbandonRmtree, InStep
  <2> QED BY <1>5, <2>1, <2>2, <2>3, <2>4 DEF AbandonStep
<1>6. CASE Interrupt(c)
  <2>1. stamp' = stamp /\ inst' = inst /\ pc'[c] \notin Launching
    BY <1>6 DEF Interrupt, Done, Goto, TypeOK, Launching
  <2>2. CASE pc[c] \in Launching
    BY <2>1, <2>2, LoseStep DEF InStep, KnowsHost
  <2>3. CASE pc[c] \notin Launching
    BY <1>1, <2>1, <2>3
  <2> QED BY <2>2, <2>3
<1> QED BY <1>2, <1>3, <1>4, <1>5, <1>6 DEF CliStep

LEMMA OutsideLease ==
  ASSUME TypeOK,
         \/ \E b \in Job : WrapperStep(b) \/ AfiSettles(b)
         \/ \E h \in Host : HostStep(h)
         \/ UNCHANGED vars
  PROVE  HL!Next \/ Leases' = Leases
<1>1. UNCHANGED <<stamp, pc, mem>>
  BY OutsideKept
<1>2. ASSUME NEW g \in Host,
             inst'[g] = inst[g] \/ (inst[g] # "held" /\ inst'[g] # "held")
      PROVE  LeaseOf(g)' = LeaseOf(g)
  BY <1>1, <1>2, SameLease DEF Named, Taken
<1>3. CASE inst' = inst
  BY <1>2, <1>3, LeasesKept
<1>4. ASSUME NEW h \in Host, HostGoesDown(h) PROVE HL!Next \/ Leases' = Leases
  <2>1. inst'[h] # "held" /\ \A g \in Host : g # h => inst'[g] = inst[g]
    BY <1>4 DEF HostGoesDown, GoesDown, TypeOK
  <2>2. LeaseOf(h)' = "free"
    BY <2>1, FreeNext
  <2> QED BY <1>2, <2>1, <2>2, OneLease DEF Moves
<1>5. ASSUME NEW h \in Host, OwnerStarts(h) PROVE Leases' = Leases
  <2>1. \A g \in Host :
          inst'[g] = inst[g] \/ (inst[g] # "held" /\ inst'[g] # "held")
    BY <1>5 DEF OwnerStarts, OwnerStartsIt, TypeOK
  <2> QED BY <1>2, <2>1, LeasesKept
<1> QED
  BY <1>3, <1>4, <1>5 DEF HostStep, WrapperStep, WrapperStamps, WrapperExits,
     WrapperDies, AfiSettles, vars

\* A machine that a build pays for is under a lease (HostLease): of one
\* command at a time, `fslab clean` apart, none loses a lease once the launch is confirmed, whatever
\* is interrupted, lost or fails; the stamp names the machine, and says it is
\* not released, until it is.
THEOREM LeaseSpecAlways == OneAtATime /\ NoClean /\ Spec => LeaseSpec
<1>1. Init => HL!Init
  <2> SUFFICES ASSUME Init PROVE \A h \in Host : LeaseOf(h) = "free"
    BY DEF HL!Init
  <2> QED BY LeaseCases DEF Init, HostsInit, Host
<1>2. ASSUME OneAtATime, NoClean PROVE Spec => LeaseSpec
  <2>1. AloneInv /\ [Next]_vars => AloneInv'
    BY <1>2, AloneStep
  <2>2. AloneInv /\ [Next]_vars => [HL!Next]_Leases
    <3> SUFFICES ASSUME AloneInv, [Next]_vars PROVE [HL!Next]_Leases
      OBVIOUS
    <3>1. TypeOK
      BY DEF AloneInv, OwnInv, CleanupInv
    <3> QED
      BY <1>2, <3>1, CliLease, OutsideLease DEF Next, CliStep
  <2> QED BY <1>1, <2>1, <2>2, FlightInit, PTL
         DEF Spec, LeaseSpec, HL!Spec, Leases, FlightInv
<1> QED BY <1>2
=============================================================================
