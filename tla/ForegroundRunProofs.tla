------------------------- MODULE ForegroundRunProofs -------------------------
(***************************************************************************)
(* What holds of ForegroundRun for any machines, runs and projects: the    *)
(* types, that the driver runs on its own image and on verified payloads,  *)
(* that a success is its own, that no machine is forgotten, and that a     *)
(* machine found running is left running.                                  *)
(***************************************************************************)
EXTENDS ForegroundRun, TLAPS

-----------------------------------------------------------------------------
\* The inductive invariant, part by part.

\* Before the request has returned there is no host, from then on to the end
\* of the finally clause there is one.
Early == {"local_verify", "request"}
Holding == {"connect", "stage", "upload"} \cup Captured \cup Final

RunKnown ==
  /\ pc = "idle" => mem = Fresh
  /\ pc # "idle" => mem.run \in Job
  /\ pc \in Early => mem.host = None
  /\ pc \in Holding => mem.host \in Host /\ home[mem.run] = mem.host
  /\ mem.host # None => mem.action \in Action

\* A driver runs only while the process waits for it, and a success is kept
\* only once it has ended.
JobsTold ==
  /\ pc \in Early \cup Setup \cup (Captured \ {"driver"}) =>
        job[mem.run] = "drawn"
  /\ pc = "driver" => job[mem.run] \in {"running", "killed"}
  /\ \A b \in Job : job[b] = "running" => pc = "driver" /\ b = mem.run
  /\ mem.yaml.ok => mem.run \in Job /\ job[mem.run] = "exited"

\* From the load to the driver the slot belongs to this run, or is empty.
SlotTold ==
  pc = "loaded" /\ slot[mem.host].state \in {"loading", "loaded"} =>
    slot[mem.host].image = mem.run

\* The slot directory holds the project's own manifest, and what it names.
SumsTold ==
  HasVerification(args, manifest) =>
    /\ \A p \in args.payloads : manifest[p.base] # Absent
    /\ pc \in Captured => slotdir[mem.host].sums = manifest
    /\ pc \in Captured \ {"verify"} => RemoteVerify(slotdir[mem.host])

\* What fslab launched or started is not its owner's.
NotForeign ==
  mem.host # None /\ mem.action # "connected" => inst[mem.host] # "foreign"

\* When the last result is written the machine has been released, or lost.
Released == pc = "write" => \A h \in Host : inst[h] = "held" => h \in lost

RunInv ==
  /\ TypeOK /\ RunKnown /\ JobsTold /\ SlotTold /\ SumsTold
  /\ NotForeign /\ Released
  /\ SlotIsOwn /\ SuccessIsOwn /\ HeldIsKnown

-----------------------------------------------------------------------------
\* Facts about the values.

LEMMA MemTypes ==
  ASSUME NEW m \in Mem
  PROVE  /\ \A e \in Exception : [m EXCEPT !.exc = e, !.todo = {}] \in Mem
         /\ \A y \in ResultYaml : [m EXCEPT !.yaml = y] \in Mem
         /\ \A t \in SUBSET PayloadConfig : [m EXCEPT !.todo = t] \in Mem
         /\ \A h \in Host, a \in Action : [m EXCEPT !.host = h, !.action = a] \in Mem
  BY DEF Mem

LEMMA FreshFacts ==
  /\ Fresh \in Mem /\ Fresh.host = None /\ ~Fresh.yaml.ok
  /\ \A b \in Job : /\ [Fresh EXCEPT !.run = b] \in Mem
                    /\ [Fresh EXCEPT !.run = b].run = b
                    /\ [Fresh EXCEPT !.run = b].host = None
                    /\ ~[Fresh EXCEPT !.run = b].yaml.ok
  BY DEF Fresh, Mem, NoYaml, ResultYaml, Exception

LEMMA YamlFacts ==
  /\ \A s \in Stage : Failed(s) \in ResultYaml /\ ~Failed(s).ok
  /\ Succeeded \in ResultYaml /\ Succeeded.ok
  /\ NoYaml \in ResultYaml /\ ~NoYaml.ok
  BY DEF Failed, Succeeded, NoYaml, ResultYaml

LEMMA RunKnownStep == RunInv /\ [Next]_vars => RunKnown'
<1> SUFFICES ASSUME RunInv, [Next]_vars PROVE RunKnown'
  OBVIOUS
<1> USE DEF RunInv, TypeOK, RunKnown
<1>1. ASSUME NEW b \in Job, Start(b) PROVE RunKnown'
  BY <1>1, FreshFacts DEF Start, Pc, Early, Holding, Setup, Captured, Final,
      project, hosts, fpga, Mem
<1>2. CASE LocalVerifies
  BY <1>2, FreshFacts DEF LocalVerifies, Goto, End, Pc, Early, Holding, Setup,
      Captured, Final, project, hosts, fpga, Mem
<1>3. ASSUME NEW h \in Host, NEW a \in Action, Request(h, a) PROVE RunKnown'
  BY <1>3, NoneIsNew DEF Request, Raise, LaunchInstance, StartOrConnect, Pc,
      Early, Holding, Setup, Captured, Final, project, hosts, fpga, Mem
<1>4. CASE Connect
  BY <1>4 DEF Connect, Goto, Pc, Early, Holding, Setup, Captured, Final,
      project, hosts, fpga, Mem
<1>5. CASE StageDriver
  BY <1>5 DEF StageDriver, Pc, Early, Holding, Setup, Captured, Final, project,
      hosts, fpga, Mem
<1>6. ASSUME NEW p \in args.payloads, Upload(p) PROVE RunKnown'
  BY <1>6 DEF Upload, Raise, Pc, Early, Holding, Setup, Captured, Final,
      project, hosts, fpga, Mem
<1>7. CASE UploadSums
  BY <1>7 DEF UploadSums, Goto, Pc, Early, Holding, Setup, Captured, Final,
      project, hosts, fpga, Mem
<1>8. CASE RemoteVerifies
  BY <1>8 DEF RemoteVerifies, Goto, Capture, Pc, Early, Holding, Setup,
      Captured, Final, project, hosts, fpga, Mem
<1>9. CASE Clear
  BY <1>9 DEF Clear, Goto, Capture, ClearSlot, Pc, Early, Holding, Setup,
      Captured, Final, project, hosts, fpga, Mem
<1>10. CASE Load
  BY <1>10 DEF Load, Goto, Capture, Pc, Early, Holding, Setup, Captured, Final,
      project, hosts, fpga, Mem
<1>11. CASE WaitForFpgaState
  BY <1>11 DEF WaitForFpgaState, Goto, Capture, Pc, Early, Holding, Setup,
      Captured, Final, project, hosts, fpga, Mem
<1>12. CASE PullResults
  BY <1>12 DEF PullResults, Goto, Pc, Early, Holding, Setup, Captured, Final,
      project, hosts, fpga, Mem
<1>13. CASE TearDown
  BY <1>13 DEF TearDown, Goto, ClearSlot, Pc, Early, Holding, Setup, Captured,
      Final, project, hosts, fpga, Mem
<1>14. CASE Handle
  BY <1>14 DEF Handle, Goto, Pc, Early, Holding, Setup, Captured, Final,
      project, hosts, fpga, Mem
<1>15. CASE Release
  BY <1>15, FreshFacts, NoneIsNew DEF Release, AfterRelease, End, Goto, Pc,
      Early, Holding, Setup, Captured, Final, project, hosts, fpga, Mem
<1>16. CASE WriteResult
  BY <1>16, FreshFacts DEF WriteResult, End, Pc, Early, Holding, Setup,
      Captured, Final, project, hosts, fpga, Mem
<1>17. CASE DriverEnds
  BY <1>17 DEF DriverEnds, Capture, Pc, Early, Holding, Setup, Captured, Final,
      project, hosts, fpga, Mem
<1>18. CASE CommandFails
  BY <1>18 DEF CommandFails, Capture, Pc, Early, Holding, Setup, Captured,
      Final, project, hosts, fpga, Mem
<1>19. CASE ReleaseFails
  BY <1>19, FreshFacts DEF ReleaseFails, AfterRelease, End, Goto, Forget, Pc,
      Early, Holding, Setup, Captured, Final, project, hosts, fpga, Mem
<1>20. ASSUME NEW exc \in {"interrupt", "error"}, Break(exc) PROVE RunKnown'
  BY <1>20 DEF Break, Breaks, Raise, SessionLost, Pc, Early, Holding, Setup,
      Captured, Final, project, hosts, fpga, Mem
<1>21. CASE Kill
  BY <1>21, FreshFacts DEF Kill, End, SessionLost, Forget, Pc, Early, Holding,
      Setup, Captured, Final, project, hosts, fpga, Mem
<1>22. ASSUME NEW h \in Host, SlotSettles(h) PROVE RunKnown'
  BY <1>22 DEF SlotSettles, Pc, Early, Holding, Setup, Captured, Final,
      project, hosts, fpga, Mem
<1>23. ASSUME NEW h \in Host, HostGoesDown(h) PROVE RunKnown'
  BY <1>23 DEF HostGoesDown, GoesDown, KillJobsOn, Pc, Early, Holding, Setup,
      Captured, Final, project, hosts, fpga, Mem
<1>24. ASSUME NEW h \in Host, OwnerStarts(h) PROVE RunKnown'
  BY <1>24 DEF OwnerStarts, OwnerStartsIt, Pc, Early, Holding, Setup, Captured,
      Final, project, hosts, fpga, Mem
<1>25. ASSUME NEW d \in Dir, NEW n \in Name, EditPayload(d, n) PROVE RunKnown'
  BY <1>25 DEF EditPayload, Pc, Early, Holding, Setup, Captured, Final,
      project, hosts, fpga, Mem
<1>26. CASE UNCHANGED vars
  BY <1>26 DEF vars, Pc, Early, Holding, Setup, Captured, Final, project,
      hosts, fpga, Mem
<1> QED BY <1>1, <1>2, <1>3, <1>4, <1>5, <1>6, <1>7, <1>8, <1>9, <1>10, <1>11,
      <1>12, <1>13, <1>14, <1>15, <1>16, <1>17, <1>18, <1>19, <1>20, <1>21,
      <1>22, <1>23, <1>24, <1>25, <1>26 DEF Next, Step

LEMMA SlotDirFacts ==
  ASSUME TypeOK, NEW d \in SlotDir
  PROVE  /\ \A p \in args.payloads, c \in Digest \cup {Torn, Absent} :
              UploadPayload(d, p, c) \in SlotDir
         /\ UploadManifest(d, manifest) \in SlotDir
<1>1. ASSUME NEW p \in args.payloads, NEW c \in Digest \cup {Torn, Absent}
      PROVE  UploadPayload(d, p, c) \in SlotDir
  <2>1. p.remote \in Name
    BY DEF TypeOK, RunnerArgs, PayloadConfig, ValidAxis
  <2> QED BY <2>1 DEF UploadPayload, SlotDir
<1> QED BY <1>1 DEF UploadManifest, SlotDir, TypeOK

LEMMA CleanupType ==
  ASSUME TypeOK, NEW action, NEW h, CleanupRemote(action, h)
  PROVE  /\ inst' \in [Host -> InstState]
         /\ job' \in [Job -> JobState]
         /\ \A b \in Job : job'[b] \in {job[b], "killed"} /\ (job'[b] # job[b] => Live(b))
<1> USE DEF TypeOK, InstState, JobState
<1>1. CASE action = "launched" BY <1>1 DEF CleanupRemote, KillJobsOn
<1>2. CASE action = "started" /\ Up(h) BY <1>2 DEF CleanupRemote, KillJobsOn
<1>3. CASE action # "launched" /\ ~(action = "started" /\ Up(h))
  BY <1>3 DEF CleanupRemote
<1> QED BY <1>1, <1>2, <1>3

LEMMA ReleaseFacts ==
  ASSUME TypeOK, Release
  PROVE  /\ inst' \in [Host -> InstState]
         /\ job' \in [Job -> JobState]
         /\ \A b \in Job : job'[b] \in {job[b], "killed"} /\ (job'[b] # job[b] => Live(b))
<1>1. CASE mem.host = None BY <1>1 DEF Release, TypeOK
<1>2. CASE mem.host # None BY <1>2, CleanupType DEF Release
<1> QED BY <1>1, <1>2

LEMMA CaptureType ==
  ASSUME TypeOK, NEW stage \in Stage, Capture(stage)
  PROVE  pc' \in Pc /\ mem' \in Mem
  BY MemTypes, YamlFacts DEF TypeOK, Capture, Pc, Final

LEMMA RaiseType ==
  ASSUME TypeOK, NEW exc \in {"interrupt", "error"}, NEW label \in Pc, Raise(exc, label)
  PROVE  pc' \in Pc /\ mem' \in Mem
  BY MemTypes DEF TypeOK, Raise, Exception

LEMMA EndType ==
  ASSUME End
  PROVE  pc' \in Pc /\ mem' \in Mem
  BY FreshFacts DEF End, Pc

\* The types, by the parts of the state.
ControlTyped == pc \in Pc /\ mem \in Mem

FpgaTyped == slotdir \in [Host -> SlotDir] /\ slot \in [Host -> Slot]

HostsTyped ==
  /\ inst \in [Host -> InstState] /\ job \in [Job -> JobState]
  /\ home \in [Job -> Host \cup {None}] /\ lost \subseteq Host

\* The arguments and the manifest of a run stay what they are.
FilesTyped ==
  /\ UNCHANGED <<args, manifest>>
  /\ local' \in LocalFiles /\ result' \in [Job -> ResultYaml]

LEMMA MemParts ==
  ASSUME TypeOK
  PROVE  /\ mem.yaml \in ResultYaml /\ mem.host \in Host \cup {None}
         /\ mem.todo \in SUBSET PayloadConfig
         /\ args.payloads \in SUBSET PayloadConfig
         /\ \A p \in args.payloads : /\ local[p.dir][p.base] \in Digest \cup {Absent}
                                    /\ p.base \in Name /\ p.remote \in Name
  BY DEF TypeOK, Mem, RunnerArgs, PayloadConfig, LocalFiles, ValidAxis

LEMMA ForgetType ==
  ASSUME TypeOK, Forget
  PROVE  lost' \subseteq Host
  BY MemParts DEF TypeOK, Forget

LEMMA ControlType == RunInv /\ [Next]_vars => ControlTyped'
<1> SUFFICES ASSUME RunInv, [Next]_vars PROVE ControlTyped'
  OBVIOUS
<1> USE DEF ControlTyped, RunInv, TypeOK, Pc, Setup, Captured, Final
<1>1. ASSUME NEW b \in Job, Start(b) PROVE ControlTyped'
  BY <1>1, FreshFacts DEF Start, Stage, project
<1>2. CASE LocalVerifies
  BY <1>2, EndType DEF LocalVerifies, Goto, Stage, project
<1>3. ASSUME NEW h \in Host, NEW a \in Action, Request(h, a) PROVE ControlTyped'
  <2>1. CASE mem' = [mem EXCEPT !.host = h, !.action = a] /\ pc' = "connect"
    BY <2>1, MemTypes
  <2>2. CASE \E exc \in {"interrupt", "error"} : Raise(exc, "handler")
    BY <2>2, RaiseType
  <2> QED BY <1>3, <2>1, <2>2 DEF Request
<1>4. CASE Connect
  BY <1>4 DEF Connect, Goto, Stage, project
<1>5. CASE StageDriver
  <2>1. args.payloads \in SUBSET PayloadConfig
    BY MemParts
  <2> QED BY <1>5, <2>1, MemTypes DEF StageDriver
<1>6. ASSUME NEW p \in args.payloads, Upload(p) PROVE ControlTyped'
  <2>1. mem.todo \ {p} \in SUBSET PayloadConfig
    BY MemParts
  <2>2. CASE mem' = [mem EXCEPT !.todo = mem.todo \ {p}] /\ UNCHANGED pc
    <3>1. [mem EXCEPT !.todo = mem.todo \ {p}] \in Mem
      BY <2>1, MemTypes
    <3> QED BY <2>2, <3>1
  <2>3. CASE \E exc \in {"interrupt", "error"} : Raise(exc, "handler")
    BY <2>3, RaiseType
  <2> QED BY <1>6, <2>2, <2>3 DEF Upload
<1>7. CASE UploadSums
  BY <1>7 DEF UploadSums, Goto, Stage, project
<1>8. CASE RemoteVerifies
  BY <1>8, CaptureType DEF RemoteVerifies, Goto, Stage, project
<1>9. CASE Clear
  BY <1>9, CaptureType DEF Clear, Goto, ClearSlot, Stage, project
<1>10. CASE Load
  BY <1>10, CaptureType DEF Load, Goto, Stage, project
<1>11. CASE WaitForFpgaState
  BY <1>11, CaptureType DEF WaitForFpgaState, Goto, Stage, project
<1>12. CASE PullResults
  BY <1>12 DEF PullResults, Goto, Stage, project
<1>13. CASE TearDown
  BY <1>13 DEF TearDown, Goto, ClearSlot, Stage, project
<1>14. CASE Handle
  BY <1>14, MemTypes, YamlFacts DEF Handle, Goto, Stage, project
<1>15. CASE Release
  BY <1>15, EndType DEF Release, AfterRelease, Goto, Stage, project
<1>16. CASE WriteResult
  BY <1>16, EndType DEF WriteResult, Stage, project
<1>17. CASE DriverEnds
  <2>1. CASE pc' = "pull" /\ mem' = [mem EXCEPT !.yaml = Succeeded]
    BY <2>1, MemTypes, YamlFacts
  <2>2. CASE Capture("driver") BY <2>2, CaptureType DEF Stage
  <2> QED BY <1>17, <2>1, <2>2 DEF DriverEnds
<1>18. CASE CommandFails
  BY <1>18, CaptureType DEF CommandFails, Stage, project
<1>19. CASE ReleaseFails
  BY <1>19, EndType DEF ReleaseFails, AfterRelease, Goto, Forget, Stage, project
<1>20. ASSUME NEW exc \in {"interrupt", "error"}, Break(exc) PROVE ControlTyped'
  BY <1>20, RaiseType DEF Break, Breaks, SessionLost, Stage, project
<1>21. CASE Kill
  BY <1>21, EndType DEF Kill, SessionLost, Forget, Stage, project
<1>22. ASSUME NEW h \in Host, SlotSettles(h) PROVE ControlTyped'
  BY <1>22 DEF SlotSettles, Stage, project
<1>23. ASSUME NEW h \in Host, HostGoesDown(h) PROVE ControlTyped'
  BY <1>23 DEF HostGoesDown, GoesDown, KillJobsOn, Stage, project
<1>24. ASSUME NEW h \in Host, OwnerStarts(h) PROVE ControlTyped'
  BY <1>24 DEF OwnerStarts, OwnerStartsIt, Stage, project
<1>25. ASSUME NEW d \in Dir, NEW n \in Name, EditPayload(d, n)
      PROVE ControlTyped'
  BY <1>25 DEF EditPayload, Stage, project
<1>26. CASE UNCHANGED vars
  BY <1>26 DEF vars, Stage, project
<1> QED BY <1>1, <1>2, <1>3, <1>4, <1>5, <1>6, <1>7, <1>8, <1>9, <1>10, <1>11,
      <1>12, <1>13, <1>14, <1>15, <1>16, <1>17, <1>18, <1>19, <1>20, <1>21,
      <1>22, <1>23, <1>24, <1>25, <1>26 DEF Next, Step

LEMMA FpgaType == TypeOK /\ [Next]_vars => FpgaTyped'
<1> SUFFICES ASSUME TypeOK, [Next]_vars PROVE FpgaTyped'
  OBVIOUS
<1> USE DEF FpgaTyped, TypeOK, Slot, SlotState, project, fpga, hosts
<1>1. ASSUME NEW b \in Job, Start(b) PROVE FpgaTyped'
  BY <1>1 DEF Start, Cleared, Mem
<1>2. CASE LocalVerifies
  BY <1>2 DEF LocalVerifies, Goto, End, Cleared, Mem
<1>3. ASSUME NEW h \in Host, NEW a \in Action, Request(h, a) PROVE FpgaTyped'
  BY <1>3 DEF Request, Raise, LaunchInstance, StartOrConnect, Cleared, Mem
<1>4. CASE Connect
  BY <1>4 DEF Connect, Goto, Cleared, Mem
<1>5. CASE StageDriver
  BY <1>5 DEF StageDriver, Cleared, Mem
<1>6. ASSUME NEW p \in args.payloads, Upload(p) PROVE FpgaTyped'
  <2>1. local[p.dir][p.base] \in Digest \cup {Torn, Absent}
    BY MemParts
  <2>2. \A h \in Host : /\ UploadPayload(slotdir[h], p, local[p.dir][p.base]) \in SlotDir
                        /\ UploadPayload(slotdir[h], p, Torn) \in SlotDir
    BY <2>1, SlotDirFacts
  <2> QED BY <1>6, <2>2 DEF Upload
<1>7. CASE UploadSums
  BY <1>7, SlotDirFacts DEF UploadSums, Goto, Cleared, Mem
<1>8. CASE RemoteVerifies
  BY <1>8 DEF RemoteVerifies, Goto, Capture, Cleared, Mem
<1>9. CASE Clear
  BY <1>9 DEF Clear, Goto, Capture, ClearSlot, Cleared, Mem
<1>10. CASE Load
  BY <1>10 DEF Load, Goto, Capture, Cleared, Mem
<1>11. CASE WaitForFpgaState
  BY <1>11 DEF WaitForFpgaState, Goto, Capture, Cleared, Mem
<1>12. CASE PullResults
  BY <1>12 DEF PullResults, Goto, Cleared, Mem
<1>13. CASE TearDown
  BY <1>13 DEF TearDown, Goto, ClearSlot, Cleared, Mem
<1>14. CASE Handle
  BY <1>14 DEF Handle, Goto, Cleared, Mem
<1>15. CASE Release
  BY <1>15 DEF Release, AfterRelease, End, Goto, Cleared, Mem
<1>16. CASE WriteResult
  BY <1>16 DEF WriteResult, End, Cleared, Mem
<1>17. CASE DriverEnds
  BY <1>17 DEF DriverEnds, Capture, Cleared, Mem
<1>18. CASE CommandFails
  BY <1>18 DEF CommandFails, Capture, Cleared, Mem
<1>19. CASE ReleaseFails
  BY <1>19 DEF ReleaseFails, AfterRelease, End, Goto, Forget, Cleared, Mem
<1>20. ASSUME NEW exc \in {"interrupt", "error"}, Break(exc) PROVE FpgaTyped'
  BY <1>20 DEF Break, Breaks, Raise, SessionLost, Cleared, Mem
<1>21. CASE Kill
  BY <1>21 DEF Kill, End, SessionLost, Forget, Cleared, Mem
<1>22. ASSUME NEW h \in Host, SlotSettles(h) PROVE FpgaTyped'
  BY <1>22 DEF SlotSettles, Cleared, Mem
<1>23. ASSUME NEW h \in Host, HostGoesDown(h) PROVE FpgaTyped'
  BY <1>23 DEF HostGoesDown, GoesDown, KillJobsOn, Cleared, Mem
<1>24. ASSUME NEW h \in Host, OwnerStarts(h) PROVE FpgaTyped'
  BY <1>24 DEF OwnerStarts, OwnerStartsIt, Cleared, Mem
<1>25. ASSUME NEW d \in Dir, NEW n \in Name, EditPayload(d, n) PROVE FpgaTyped'
  BY <1>25 DEF EditPayload, Cleared, Mem
<1>26. CASE UNCHANGED vars
  BY <1>26 DEF vars, Cleared, Mem
<1> QED BY <1>1, <1>2, <1>3, <1>4, <1>5, <1>6, <1>7, <1>8, <1>9, <1>10, <1>11,
      <1>12, <1>13, <1>14, <1>15, <1>16, <1>17, <1>18, <1>19, <1>20, <1>21,
      <1>22, <1>23, <1>24, <1>25, <1>26 DEF Next, Step

LEMMA HostsType == RunInv /\ [Next]_vars => HostsTyped'
<1> SUFFICES ASSUME RunInv, [Next]_vars PROVE HostsTyped'
  OBVIOUS
<1> USE DEF HostsTyped, TypeOK, project, fpga, hosts, RunKnown, RunInv, Holding
<1>1. ASSUME NEW b \in Job, Start(b) PROVE HostsTyped'
  BY <1>1 DEF Start, InstState, JobState
<1>2. CASE LocalVerifies
  BY <1>2 DEF LocalVerifies, Goto, End, InstState, JobState
<1>3. ASSUME NEW h \in Host, NEW a \in Action, Request(h, a) PROVE HostsTyped'
  BY <1>3 DEF Request, Raise, LaunchInstance, StartOrConnect, InstState,
      JobState
<1>4. CASE Connect
  BY <1>4 DEF Connect, Goto, InstState, JobState
<1>5. CASE StageDriver
  BY <1>5 DEF StageDriver, InstState, JobState
<1>6. ASSUME NEW p \in args.payloads, Upload(p) PROVE HostsTyped'
  BY <1>6 DEF Upload, Raise, InstState, JobState
<1>7. CASE UploadSums
  BY <1>7 DEF UploadSums, Goto, InstState, JobState
<1>8. CASE RemoteVerifies
  BY <1>8 DEF RemoteVerifies, Goto, Capture, InstState, JobState
<1>9. CASE Clear
  BY <1>9 DEF Clear, Goto, Capture, ClearSlot, InstState, JobState
<1>10. CASE Load
  BY <1>10 DEF Load, Goto, Capture, InstState, JobState
<1>11. CASE WaitForFpgaState
  BY <1>11 DEF WaitForFpgaState, Goto, Capture, InstState, JobState
<1>12. CASE PullResults
  BY <1>12 DEF PullResults, Goto, InstState, JobState
<1>13. CASE TearDown
  BY <1>13 DEF TearDown, Goto, ClearSlot, InstState, JobState
<1>14. CASE Handle
  BY <1>14 DEF Handle, Goto, InstState, JobState
<1>15. CASE Release
  BY <1>15, ReleaseFacts DEF Release, AfterRelease, End, Goto, InstState,
      JobState
<1>16. CASE WriteResult
  BY <1>16 DEF WriteResult, End, InstState, JobState
<1>17. CASE DriverEnds
  BY <1>17 DEF DriverEnds, Capture, InstState, JobState
<1>18. CASE CommandFails
  BY <1>18 DEF CommandFails, Capture, InstState, JobState
<1>19. CASE ReleaseFails
  BY <1>19, ForgetType DEF ReleaseFails, AfterRelease, End, Goto, InstState,
      JobState
<1>20. ASSUME NEW exc \in {"interrupt", "error"}, Break(exc) PROVE HostsTyped'
  BY <1>20 DEF Break, Breaks, Raise, SessionLost, InstState, JobState
<1>21. CASE Kill
  BY <1>21, ForgetType DEF Kill, End, SessionLost, InstState, JobState
<1>22. ASSUME NEW h \in Host, SlotSettles(h) PROVE HostsTyped'
  BY <1>22 DEF SlotSettles, InstState, JobState
<1>23. ASSUME NEW h \in Host, HostGoesDown(h) PROVE HostsTyped'
  BY <1>23 DEF HostGoesDown, GoesDown, KillJobsOn, InstState, JobState
<1>24. ASSUME NEW h \in Host, OwnerStarts(h) PROVE HostsTyped'
  BY <1>24 DEF OwnerStarts, OwnerStartsIt, InstState, JobState
<1>25. ASSUME NEW d \in Dir, NEW n \in Name, EditPayload(d, n) PROVE HostsTyped'
  BY <1>25 DEF EditPayload, InstState, JobState
<1>26. CASE UNCHANGED vars
  BY <1>26 DEF vars, InstState, JobState
<1> QED BY <1>1, <1>2, <1>3, <1>4, <1>5, <1>6, <1>7, <1>8, <1>9, <1>10, <1>11,
      <1>12, <1>13, <1>14, <1>15, <1>16, <1>17, <1>18, <1>19, <1>20, <1>21,
      <1>22, <1>23, <1>24, <1>25, <1>26 DEF Next, Step

LEMMA FilesType == RunInv /\ [Next]_vars => FilesTyped
<1> SUFFICES ASSUME RunInv, [Next]_vars PROVE FilesTyped
  OBVIOUS
<1> USE DEF FilesTyped, TypeOK, project, fpga, hosts, RunInv
<1>1. ASSUME NEW b \in Job, Start(b) PROVE FilesTyped
  BY <1>1 DEF Start, LocalFiles
<1>2. CASE LocalVerifies
  <2>1. Failed("hash_verify_local") \in ResultYaml BY YamlFacts DEF Stage
  <2> QED BY <1>2, <2>1 DEF LocalVerifies
<1>3. ASSUME NEW h \in Host, NEW a \in Action, Request(h, a) PROVE FilesTyped
  BY <1>3 DEF Request, Raise, LaunchInstance, StartOrConnect, LocalFiles
<1>4. CASE Connect
  BY <1>4 DEF Connect, Goto, LocalFiles
<1>5. CASE StageDriver
  BY <1>5 DEF StageDriver, LocalFiles
<1>6. ASSUME NEW p \in args.payloads, Upload(p) PROVE FilesTyped
  BY <1>6 DEF Upload, Raise, LocalFiles
<1>7. CASE UploadSums
  BY <1>7 DEF UploadSums, Goto, LocalFiles
<1>8. CASE RemoteVerifies
  BY <1>8 DEF RemoteVerifies, Goto, Capture, LocalFiles
<1>9. CASE Clear
  BY <1>9 DEF Clear, Goto, Capture, ClearSlot, LocalFiles
<1>10. CASE Load
  BY <1>10 DEF Load, Goto, Capture, LocalFiles
<1>11. CASE WaitForFpgaState
  BY <1>11 DEF WaitForFpgaState, Goto, Capture, LocalFiles
<1>12. CASE PullResults
  BY <1>12 DEF PullResults, Goto, LocalFiles
<1>13. CASE TearDown
  BY <1>13 DEF TearDown, Goto, ClearSlot, LocalFiles
<1>14. CASE Handle
  <2>1. Failed("setup") \in ResultYaml BY YamlFacts DEF Stage
  <2> QED BY <1>14, <2>1 DEF Handle
<1>15. CASE Release
  BY <1>15 DEF Release, AfterRelease, End, Goto, LocalFiles
<1>16. CASE WriteResult
  BY <1>16, YamlFacts, MemParts DEF WriteResult, End, LocalFiles
<1>17. CASE DriverEnds
  BY <1>17 DEF DriverEnds, Capture, LocalFiles
<1>18. CASE CommandFails
  BY <1>18 DEF CommandFails, Capture, LocalFiles
<1>19. CASE ReleaseFails
  BY <1>19 DEF ReleaseFails, AfterRelease, End, Goto, Forget, LocalFiles
<1>20. ASSUME NEW exc \in {"interrupt", "error"}, Break(exc) PROVE FilesTyped
  BY <1>20 DEF Break, Breaks, Raise, SessionLost, LocalFiles
<1>21. CASE Kill
  BY <1>21 DEF Kill, End, SessionLost, Forget, LocalFiles
<1>22. ASSUME NEW h \in Host, SlotSettles(h) PROVE FilesTyped
  BY <1>22 DEF SlotSettles, LocalFiles
<1>23. ASSUME NEW h \in Host, HostGoesDown(h) PROVE FilesTyped
  BY <1>23 DEF HostGoesDown, GoesDown, KillJobsOn, LocalFiles
<1>24. ASSUME NEW h \in Host, OwnerStarts(h) PROVE FilesTyped
  BY <1>24 DEF OwnerStarts, OwnerStartsIt, LocalFiles
<1>25. ASSUME NEW d \in Dir, NEW n \in Name, EditPayload(d, n) PROVE FilesTyped
  BY <1>25 DEF EditPayload, LocalFiles
<1>26. CASE UNCHANGED vars
  BY <1>26 DEF vars, LocalFiles
<1> QED BY <1>1, <1>2, <1>3, <1>4, <1>5, <1>6, <1>7, <1>8, <1>9, <1>10, <1>11,
      <1>12, <1>13, <1>14, <1>15, <1>16, <1>17, <1>18, <1>19, <1>20, <1>21,
      <1>22, <1>23, <1>24, <1>25, <1>26 DEF Next, Step

LEMMA InitTypes == Init => TypeOK /\ RunKnown
<1> SUFFICES ASSUME Init PROVE TypeOK /\ RunKnown
  OBVIOUS
<1> USE DEF Init, HostsInit
<1>1. args \in RunnerArgs /\ ValidAxis(args) /\ local \in LocalFiles /\ manifest \in Manifest
  BY ProjectAssumption DEF Resolves
<1>2. pc \in Pc /\ mem \in Mem /\ result \in [Job -> ResultYaml]
  BY FreshFacts, YamlFacts DEF Pc
<1>3. inst \in [Host -> InstState] /\ job \in [Job -> JobState] /\ home \in [Job -> Host \cup {None}]
  BY DEF JobState
<1>4. EmptySlotDir \in SlotDir /\ Cleared \in Slot
  BY DEF EmptySlotDir, SlotDir, Manifest, Cleared, Slot, SlotState
<1>5. RunKnown
  BY FreshFacts DEF RunKnown, Early, Holding, Captured, Final
<1> QED BY <1>1, <1>2, <1>3, <1>4, <1>5 DEF TypeOK

LEMMA TypeStep == RunInv /\ [Next]_vars => TypeOK'
  BY ControlType, FpgaType, HostsType, FilesType
  DEF RunInv, TypeOK, ControlTyped, FpgaTyped, HostsTyped, FilesTyped

LEMMA RunKnownFacts ==
  ASSUME RunInv
  PROVE  /\ pc # "idle" => mem.run \in Job
         /\ pc \in Holding => mem.host \in Host
  BY DEF RunInv, RunKnown

-----------------------------------------------------------------------------
\* Jobs and results.

LEMMA YamlKept ==
  ASSUME NEW m \in Mem
  PROVE  /\ \A e \in Exception : /\ [m EXCEPT !.exc = e, !.todo = {}].yaml = m.yaml
                                 /\ [m EXCEPT !.exc = e, !.todo = {}].run = m.run
                                 /\ [m EXCEPT !.exc = e, !.todo = {}].host = m.host
                                 /\ [m EXCEPT !.exc = e, !.todo = {}].action = m.action
         /\ \A y : /\ [m EXCEPT !.yaml = y].yaml = y
                   /\ [m EXCEPT !.yaml = y].run = m.run
                   /\ [m EXCEPT !.yaml = y].host = m.host
                   /\ [m EXCEPT !.yaml = y].action = m.action
  BY DEF Mem

LEMMA CaptureFacts ==
  ASSUME TypeOK, NEW stage \in Stage, Capture(stage)
  PROVE  /\ pc' = "pull" /\ ~mem'.yaml.ok
         /\ mem'.run = mem.run /\ mem'.host = mem.host /\ mem'.action = mem.action
<1>1. mem \in Mem BY DEF TypeOK
<1> QED BY <1>1, YamlKept, YamlFacts DEF Capture

LEMMA RaiseFacts ==
  ASSUME TypeOK, NEW exc \in {"interrupt", "error"}, NEW label, Raise(exc, label)
  PROVE  /\ pc' = label /\ mem'.yaml = mem.yaml
         /\ mem'.run = mem.run /\ mem'.host = mem.host /\ mem'.action = mem.action
<1>1. mem \in Mem BY DEF TypeOK
<1> QED BY <1>1, YamlKept DEF Raise, Exception

\* A job that ends is not running, and one that was not running is unchanged.
Kills == \A b \in Job : job'[b] = job[b] \/ (Live(b) /\ job'[b] = "killed")

LEMMA KillFacts ==
  ASSUME TypeOK
  PROVE  /\ SessionLost => Kills /\ \A b \in Job : job'[b] # "running"
         /\ \A h \in Host : HostGoesDown(h) => Kills
         /\ Release => Kills
<1>1. SessionLost => Kills /\ \A b \in Job : job'[b] # "running"
  BY DEF SessionLost, Kills, Live, TypeOK
<1>2. \A h \in Host : HostGoesDown(h) => Kills
  BY DEF HostGoesDown, GoesDown, KillJobsOn, Kills, TypeOK
<1>3. Release => Kills
  BY ReleaseFacts DEF Kills
<1> QED BY <1>1, <1>2, <1>3

LEMMA JobsToldStep == RunInv /\ [Next]_vars => JobsTold'
<1> SUFFICES ASSUME RunInv, [Next]_vars PROVE JobsTold'
  OBVIOUS
<1> USE DEF RunInv, RunKnown, JobsTold, TypeOK
<1>1. ASSUME NEW b \in Job, Start(b) PROVE JobsTold'
  BY <1>1, FreshFacts DEF Start, Early, Holding, Setup, Captured, Final,
      project, hosts, fpga, Mem, JobState
<1>2. CASE LocalVerifies
  BY <1>2, FreshFacts, YamlFacts DEF LocalVerifies, Goto, End, Early, Holding,
      Setup, Captured, Final, project, hosts, fpga, Mem, JobState
<1>3. ASSUME NEW h \in Host, NEW a \in Action, Request(h, a) PROVE JobsTold'
  BY <1>3 DEF Request, Raise, LaunchInstance, StartOrConnect, Early, Holding,
      Setup, Captured, Final, project, hosts, fpga, Mem, JobState
<1>4. CASE Connect
  BY <1>4 DEF Connect, Goto, Early, Holding, Setup, Captured, Final, project,
      hosts, fpga, Mem, JobState
<1>5. CASE StageDriver
  BY <1>5 DEF StageDriver, Early, Holding, Setup, Captured, Final, project,
      hosts, fpga, Mem, JobState
<1>6. ASSUME NEW p \in args.payloads, Upload(p) PROVE JobsTold'
  BY <1>6 DEF Upload, Raise, Early, Holding, Setup, Captured, Final, project,
      hosts, fpga, Mem, JobState
<1>7. CASE UploadSums
  BY <1>7 DEF UploadSums, Goto, Early, Holding, Setup, Captured, Final,
      project, hosts, fpga, Mem, JobState
<1>8. CASE RemoteVerifies
  <2>1. CASE Capture("hash_verify") BY <1>8, <2>1, CaptureFacts
        DEF RemoteVerifies, Stage, Captured, Setup, Early, Final, hosts
  <2>2. CASE ~Capture("hash_verify") BY <1>8, <2>2 DEF RemoteVerifies, Goto,
        Captured, Setup, Early, Final, hosts
  <2> QED BY <2>1, <2>2
<1>9. CASE Clear
  <2>1. CASE Capture("agfi_load") BY <1>9, <2>1, CaptureFacts DEF Clear, Stage,
        Captured, Setup, Early, Final, hosts
  <2>2. CASE ~Capture("agfi_load") BY <1>9, <2>2 DEF Clear, Goto, Captured,
        Setup, Early, Final, hosts
  <2> QED BY <2>1, <2>2
<1>10. CASE Load
  <2>1. CASE Capture("agfi_load") BY <1>10, <2>1, CaptureFacts DEF Load, Stage,
        Captured, Setup, Early, Final, hosts
  <2>2. CASE ~Capture("agfi_load") BY <1>10, <2>2 DEF Load, Goto, Captured,
        Setup, Early, Final, hosts
  <2> QED BY <2>1, <2>2
<1>11. CASE WaitForFpgaState
  <2>1. CASE slot[mem.host].state # pc /\ Capture("agfi_load") /\ job' = job
    BY <1>11, <2>1, CaptureFacts DEF WaitForFpgaState, Stage, Captured, Setup,
        Early, Final
  <2>2. CASE slot[mem.host].state = pc
    BY <1>11, <2>2 DEF WaitForFpgaState, Goto, Captured, Setup, Early, Final
  <2> QED BY <1>11, <2>1, <2>2 DEF WaitForFpgaState
<1>12. CASE PullResults
  BY <1>12 DEF PullResults, Goto, Early, Holding, Setup, Captured, Final,
      project, hosts, fpga, Mem, JobState
<1>13. CASE TearDown
  BY <1>13 DEF TearDown, Goto, ClearSlot, Early, Holding, Setup, Captured,
      Final, project, hosts, fpga, Mem, JobState
<1>14. CASE Handle
  <2>1. pc = "handler" /\ pc' = "release" /\ job' = job
    BY <1>14 DEF Handle, Goto, hosts
  <2>2. mem'.run = mem.run /\ (mem'.yaml.ok => mem.yaml.ok)
    <3>1. mem \in Mem /\ ~Failed("setup").ok /\ Failed("setup") \in ResultYaml
      BY YamlFacts DEF Stage
    <3>2. CASE mem' = [mem EXCEPT !.yaml = Failed("setup")]
      BY <3>1, <3>2, YamlKept
    <3> QED BY <1>14, <3>2 DEF Handle, Goto
  <2> QED BY <2>1, <2>2 DEF Early, Setup, Captured, Final
<1>15. CASE Release
  <2>1. Kills BY <1>15, KillFacts
  <2>2. pc' \in {"idle", "write"} /\ mem'.yaml.ok => mem' = mem
    BY <1>15, FreshFacts DEF Release, AfterRelease, End, Goto
  <2>3. pc' \in {"idle", "write"} /\ pc = "release"
    BY <1>15 DEF Release, AfterRelease, End, Goto
  <2> QED BY <2>1, <2>2, <2>3 DEF Kills, Live, Early, Setup, Captured, Final
<1>16. CASE WriteResult
  BY <1>16, FreshFacts DEF WriteResult, End, Early, Holding, Setup, Captured,
      Final, project, hosts, fpga, Mem, JobState
<1>17. CASE DriverEnds
  <2>1. CASE /\ job[mem.run] = "running" /\ mem' = [mem EXCEPT !.yaml = Succeeded]
             /\ pc' = "pull" /\ job' = [job EXCEPT ![mem.run] = "exited"]
    <3>1. mem'.run = mem.run BY <2>1, YamlKept
    <3> QED BY <1>17, <2>1, <3>1 DEF DriverEnds, Early, Setup, Captured, Final
  <2>2. CASE Capture("driver") /\ job' = [job EXCEPT ![mem.run] = "killed"]
    BY <1>17, <2>2, CaptureFacts DEF DriverEnds, Stage, Early, Setup, Captured,
        Final
  <2> QED BY <1>17, <2>1, <2>2 DEF DriverEnds
<1>18. CASE CommandFails
  <2>1. \E stage \in {"hash_verify", "agfi_load"} : Capture(stage)
    BY <1>18 DEF CommandFails
  <2> QED BY <1>18, <2>1, CaptureFacts DEF CommandFails, Stage, Captured,
        Setup, Early, Final, hosts
<1>19. CASE ReleaseFails
  BY <1>19, FreshFacts DEF ReleaseFails, AfterRelease, End, Goto, Forget,
      Early, Holding, Setup, Captured, Final, project, hosts, fpga, Mem,
      JobState
<1>20. ASSUME NEW exc \in {"interrupt", "error"}, Break(exc) PROVE JobsTold'
  <2>1. Kills /\ \A b \in Job : job'[b] # "running"
    BY <1>20, KillFacts DEF Break
  <2>2. \E label \in {"handler", "pull"} : Raise(exc, label)
    BY <1>20 DEF Break, Breaks
  <2>3. PICK label \in {"handler", "pull"} : Raise(exc, label)
    BY <2>2
  <2>4. /\ pc' = label /\ mem'.yaml = mem.yaml /\ mem'.run = mem.run
        /\ pc # "idle"
    BY <1>20, <2>3, RaiseFacts DEF Break, Setup, Captured, Final
  <2> QED BY <2>1, <2>4 DEF Kills, Live, Early, Setup, Captured, Final
<1>21. CASE Kill
  <2>1. Kills /\ \A b \in Job : job'[b] # "running"
    BY <1>21, KillFacts DEF Kill
  <2> QED BY <1>21, <2>1, FreshFacts DEF Kill, End, Early, Setup, Captured,
        Final
<1>22. ASSUME NEW h \in Host, SlotSettles(h) PROVE JobsTold'
  BY <1>22 DEF SlotSettles, Early, Holding, Setup, Captured, Final, project,
      hosts, fpga, Mem, JobState
<1>23. ASSUME NEW h \in Host, HostGoesDown(h) PROVE JobsTold'
  <2>1. Kills BY <1>23, KillFacts
  <2> QED BY <1>23, <2>1 DEF HostGoesDown, Kills, Live, Early, Setup, Captured,
        Final
<1>24. ASSUME NEW h \in Host, OwnerStarts(h) PROVE JobsTold'
  BY <1>24 DEF OwnerStarts, OwnerStartsIt, Early, Holding, Setup, Captured,
      Final, project, hosts, fpga, Mem, JobState
<1>25. ASSUME NEW d \in Dir, NEW n \in Name, EditPayload(d, n) PROVE JobsTold'
  BY <1>25 DEF EditPayload, Early, Holding, Setup, Captured, Final, project,
      hosts, fpga, Mem, JobState
<1>26. CASE UNCHANGED vars
  BY <1>26 DEF vars, Early, Holding, Setup, Captured, Final, project, hosts,
      fpga, Mem, JobState
<1> QED BY <1>1, <1>2, <1>3, <1>4, <1>5, <1>6, <1>7, <1>8, <1>9, <1>10, <1>11,
      <1>12, <1>13, <1>14, <1>15, <1>16, <1>17, <1>18, <1>19, <1>20, <1>21,
      <1>22, <1>23, <1>24, <1>25, <1>26 DEF Next, Step

-----------------------------------------------------------------------------
\* The FPGA slot.

\* A step that leaves the slots alone and neither loads nor starts a driver.
SlotIdle ==
  /\ UNCHANGED slot
  /\ pc' = "loaded" =>
        pc = "loaded" /\ mem'.host = mem.host /\ mem'.run = mem.run
  /\ \A b \in Job : job'[b] = "running" =>
        job[b] = "running" /\ home'[b] = home[b]

LEMMA SlotIdleKeeps ==
  ASSUME RunInv, SlotIdle
  PROVE  SlotTold' /\ SlotIsOwn'
  BY DEF RunInv, SlotIdle, SlotTold, SlotIsOwn

LEMMA SlotFacts ==
  ASSUME RunInv, pc = "loaded", slot[mem.host].state = "loaded"
  PROVE  slot[mem.host] = [state |-> "loaded", image |-> mem.run]
<1>1. mem.host \in Host BY RunKnownFacts DEF Holding, Captured
<1>2. slot[mem.host] \in Slot BY <1>1 DEF RunInv, TypeOK
<1>3. slot[mem.host].image = mem.run BY DEF RunInv, SlotTold
<1> QED BY <1>2, <1>3 DEF Slot

LEMMA SlotStep == RunInv /\ [Next]_vars => (SlotTold' /\ SlotIsOwn')
<1> SUFFICES ASSUME RunInv, [Next]_vars PROVE (SlotTold' /\ SlotIsOwn')
  OBVIOUS
<1>1. ASSUME NEW b \in Job, Start(b) PROVE (SlotTold' /\ SlotIsOwn')
  <2>1. SlotIdle
    BY <1>1 DEF SlotIdle, Start, fpga, hosts, project, TypeOK, RunInv
  <2> QED BY <2>1, SlotIdleKeeps
<1>2. CASE LocalVerifies
  <2>1. SlotIdle
    BY <1>2 DEF SlotIdle, LocalVerifies, Goto, End, fpga, hosts, project,
        TypeOK, RunInv
  <2> QED BY <2>1, SlotIdleKeeps
<1>3. ASSUME NEW h \in Host, NEW a \in Action, Request(h, a)
      PROVE (SlotTold' /\ SlotIsOwn')
  <2>1. job[mem.run] = "drawn" /\ mem.run \in Job
    BY <1>3 DEF Request, RunInv, RunKnown, JobsTold, Early
  <2>2. UNCHANGED <<job, slot>> /\ pc' # "loaded"
    BY <1>3 DEF Request, Raise, fpga
  <2>3. \A b \in Job : b # mem.run => home'[b] = home[b]
    BY <1>3 DEF Request, RunInv, TypeOK
  <2>4. SlotIdle
    BY <2>1, <2>2, <2>3 DEF SlotIdle
  <2> QED BY <2>4, SlotIdleKeeps
<1>4. CASE Connect
  <2>1. SlotIdle
    BY <1>4 DEF SlotIdle, Connect, Goto, fpga, hosts, project, TypeOK, RunInv
  <2> QED BY <2>1, SlotIdleKeeps
<1>5. CASE StageDriver
  <2>1. SlotIdle
    BY <1>5 DEF SlotIdle, StageDriver, fpga, hosts, project, TypeOK, RunInv
  <2> QED BY <2>1, SlotIdleKeeps
<1>6. ASSUME NEW p \in args.payloads, Upload(p) PROVE (SlotTold' /\ SlotIsOwn')
  <2>1. SlotIdle
    BY <1>6 DEF SlotIdle, Upload, Raise, fpga, hosts, project, TypeOK, RunInv
  <2> QED BY <2>1, SlotIdleKeeps
<1>7. CASE UploadSums
  <2>1. SlotIdle
    BY <1>7 DEF SlotIdle, UploadSums, Goto, fpga, hosts, project, TypeOK, RunInv
  <2> QED BY <2>1, SlotIdleKeeps
<1>8. CASE RemoteVerifies
  <2>1. SlotIdle
    BY <1>8 DEF SlotIdle, RemoteVerifies, Goto, Capture, fpga, hosts, project,
        TypeOK, RunInv
  <2> QED BY <2>1, SlotIdleKeeps
<1>9. CASE Clear
  <2>1. \A b \in Job : job[b] # "running" /\ job'[b] = job[b]
    BY <1>9 DEF Clear, Goto, Capture, hosts, RunInv, JobsTold
  <2>2. pc' # "loaded"
    BY <1>9 DEF Clear, Goto, Capture
  <2> QED BY <2>1, <2>2 DEF SlotTold, SlotIsOwn
<1>10. CASE Load
  <2>1. \A b \in Job : job[b] # "running" /\ job'[b] = job[b]
    BY <1>10 DEF Load, hosts, RunInv, JobsTold
  <2>2. mem.host \in Host
    BY <1>10, RunKnownFacts DEF Load, Holding, Captured
  <2>3. CASE Busy(mem.host)
    BY <1>10, <2>1, <2>3 DEF Load, Capture, SlotTold, SlotIsOwn
  <2>4. CASE ~Busy(mem.host)
    BY <1>10, <2>1, <2>2, <2>4 DEF Load, Goto, SlotTold, SlotIsOwn, RunInv,
        TypeOK
  <2> QED BY <2>3, <2>4
<1>11. CASE WaitForFpgaState
  <2>1. CASE pc = "loaded" /\ slot[mem.host].state = "loaded" /\ Goto("driver")
    <3>1. slot[mem.host] = [state |-> "loaded", image |-> mem.run]
      BY <2>1, SlotFacts
    <3>2. home[mem.run] = mem.host /\ \A b \in Job : job[b] # "running"
      BY <2>1 DEF RunInv, RunKnown, JobsTold, Holding, Captured
    <3>3. \A b \in Job : job'[b] = "running" => b = mem.run
      BY <1>11, <2>1, <3>2 DEF WaitForFpgaState, RunInv, TypeOK
    <3>4. UNCHANGED <<slot, home>> /\ pc' # "loaded"
      BY <1>11, <2>1 DEF WaitForFpgaState, Goto, fpga
    <3> QED BY <3>1, <3>2, <3>3, <3>4 DEF SlotTold, SlotIsOwn
  <2>2. CASE ~(pc = "loaded" /\ slot[mem.host].state = "loaded")
    <3>1. UNCHANGED <<job, home, slot>> /\ pc' # "loaded"
      BY <1>11, <2>2 DEF WaitForFpgaState, Goto, Capture, fpga
    <3>2. SlotIdle
      BY <3>1 DEF SlotIdle
    <3> QED BY <3>2, SlotIdleKeeps
  <2> QED BY <1>11, <2>1, <2>2 DEF WaitForFpgaState
<1>12. CASE PullResults
  <2>1. SlotIdle
    BY <1>12 DEF SlotIdle, PullResults, Goto, fpga, hosts, project, TypeOK,
        RunInv
  <2> QED BY <2>1, SlotIdleKeeps
<1>13. CASE TearDown
  <2>1. \A b \in Job : job[b] # "running" /\ job'[b] = job[b]
    BY <1>13 DEF TearDown, Goto, Capture, hosts, RunInv, JobsTold
  <2>2. pc' # "loaded"
    BY <1>13 DEF TearDown, Goto, Capture
  <2> QED BY <2>1, <2>2 DEF SlotTold, SlotIsOwn
<1>14. CASE Handle
  <2>1. SlotIdle
    BY <1>14 DEF SlotIdle, Handle, Goto, fpga, hosts, project, TypeOK, RunInv
  <2> QED BY <2>1, SlotIdleKeeps
<1>15. CASE Release
  <2>1. SlotIdle
    BY <1>15, KillFacts DEF Release, AfterRelease, End, Goto, SlotIdle, Kills,
        fpga, RunInv
  <2> QED BY <2>1, SlotIdleKeeps
<1>16. CASE WriteResult
  <2>1. SlotIdle
    BY <1>16 DEF SlotIdle, WriteResult, End, fpga, hosts, project, TypeOK,
        RunInv
  <2> QED BY <2>1, SlotIdleKeeps
<1>17. CASE DriverEnds
  <2>1. SlotIdle
    BY <1>17 DEF DriverEnds, Capture, SlotIdle, fpga, RunInv, TypeOK
  <2> QED BY <2>1, SlotIdleKeeps
<1>18. CASE CommandFails
  <2>1. SlotIdle
    BY <1>18 DEF SlotIdle, CommandFails, Capture, fpga, hosts, project, TypeOK,
        RunInv
  <2> QED BY <2>1, SlotIdleKeeps
<1>19. CASE ReleaseFails
  <2>1. SlotIdle
    BY <1>19 DEF SlotIdle, ReleaseFails, AfterRelease, End, Goto, Forget, fpga,
        hosts, project, TypeOK, RunInv
  <2> QED BY <2>1, SlotIdleKeeps
<1>20. ASSUME NEW exc \in {"interrupt", "error"}, Break(exc)
      PROVE (SlotTold' /\ SlotIsOwn')
  <2>1. SlotIdle
    BY <1>20, KillFacts DEF Break, Breaks, Raise, SlotIdle, fpga, RunInv
  <2> QED BY <2>1, SlotIdleKeeps
<1>21. CASE Kill
  <2>1. SlotIdle
    BY <1>21, KillFacts DEF Kill, End, SlotIdle, fpga, RunInv
  <2> QED BY <2>1, SlotIdleKeeps
<1>22. ASSUME NEW h \in Host, SlotSettles(h) PROVE (SlotTold' /\ SlotIsOwn')
  <2>1. UNCHANGED <<pc, mem, job, home>>
    BY <1>22 DEF SlotSettles, hosts
  <2>2. \A g \in Host : g # h => slot'[g] = slot[g]
    BY <1>22 DEF SlotSettles, RunInv, TypeOK
  <2>3. /\ slot[h].state \in {"clearing", "loading"}
        /\ slot'[h] = Cleared
              \/ (slot[h].state = "loading" /\ slot'[h].image = slot[h].image)
    BY <1>22 DEF SlotSettles, Busy, RunInv, TypeOK, Slot
  <2>4. SlotTold'
    BY <2>1, <2>2, <2>3, RunKnownFacts DEF RunInv, SlotTold, Cleared, Holding,
        Captured
  <2>5. SlotIsOwn'
    BY <2>1, <2>2, <2>3, RunKnownFacts DEF RunInv, RunKnown, JobsTold,
        SlotIsOwn, Holding, Captured
  <2> QED BY <2>4, <2>5
<1>23. ASSUME NEW h \in Host, HostGoesDown(h) PROVE (SlotTold' /\ SlotIsOwn')
  <2>1. UNCHANGED <<pc, mem, home>>
    BY <1>23 DEF HostGoesDown
  <2>2. \A g \in Host : slot'[g] = IF g = h THEN Cleared ELSE slot[g]
    BY <1>23 DEF HostGoesDown, RunInv, TypeOK
  <2>3. \A b \in Job : job'[b] = "running" => job[b] = "running" /\ home[b] # h
    BY <1>23 DEF HostGoesDown, GoesDown, KillJobsOn, Live, RunInv, TypeOK
  <2>4. SlotTold'
    BY <2>1, <2>2, RunKnownFacts DEF RunInv, SlotTold, Cleared, Holding,
        Captured
  <2>5. SlotIsOwn'
    BY <2>1, <2>2, <2>3, RunKnownFacts DEF RunInv, RunKnown, JobsTold,
        SlotIsOwn, Holding, Captured
  <2> QED BY <2>4, <2>5
<1>24. ASSUME NEW h \in Host, OwnerStarts(h) PROVE (SlotTold' /\ SlotIsOwn')
  <2>1. SlotIdle
    BY <1>24 DEF SlotIdle, OwnerStarts, OwnerStartsIt, fpga, hosts, project,
        TypeOK, RunInv
  <2> QED BY <2>1, SlotIdleKeeps
<1>25. ASSUME NEW d \in Dir, NEW n \in Name, EditPayload(d, n)
      PROVE (SlotTold' /\ SlotIsOwn')
  <2>1. SlotIdle
    BY <1>25 DEF SlotIdle, EditPayload, fpga, hosts, project, TypeOK, RunInv
  <2> QED BY <2>1, SlotIdleKeeps
<1>26. CASE UNCHANGED vars
  BY <1>26 DEF vars, hosts, fpga, RunInv, SlotTold, SlotIsOwn
<1> QED BY <1>1, <1>2, <1>3, <1>4, <1>5, <1>6, <1>7, <1>8, <1>9, <1>10, <1>11,
      <1>12, <1>13, <1>14, <1>15, <1>16, <1>17, <1>18, <1>19, <1>20, <1>21,
      <1>22, <1>23, <1>24, <1>25, <1>26 DEF Next, Step

-----------------------------------------------------------------------------
\* The payloads.

\* A step that stages nothing and does not pass the check.
SumsIdle ==
  /\ UNCHANGED slotdir
  /\ pc' \in Captured => /\ pc \in Captured /\ mem'.host = mem.host
                         /\ pc = "verify" => pc' = "verify"

LEMMA SumsIdleKeeps ==
  ASSUME RunInv, [Next]_vars, SumsIdle
  PROVE  SumsTold'
<1>1. args' = args /\ manifest' = manifest
  BY FilesType DEF FilesTyped
<1> QED BY <1>1 DEF RunInv, SumsIdle, SumsTold, HasVerification, RemoteVerify

LEMMA SumsNamed ==
  ASSUME RunInv, [Next]_vars, pc' \notin Captured
  PROVE  SumsTold'
<1>1. args' = args /\ manifest' = manifest
  BY FilesType DEF FilesTyped
<1> QED BY <1>1 DEF RunInv, SumsTold, HasVerification

LEMMA SumsStep == RunInv /\ [Next]_vars => SumsTold'
<1> SUFFICES ASSUME RunInv, [Next]_vars PROVE SumsTold'
  OBVIOUS
<1>1. ASSUME NEW b \in Job, Start(b) PROVE SumsTold'
  <2>1. pc' \notin Captured
    BY <1>1 DEF Captured, Start
  <2> QED BY <2>1, SumsNamed
<1>2. CASE LocalVerifies
  <2>1. SumsIdle
    BY <1>2 DEF SumsIdle, Captured, LocalVerifies, Goto, End, fpga, TypeOK,
        RunInv
  <2> QED BY <2>1, SumsIdleKeeps
<1>3. ASSUME NEW h \in Host, NEW a \in Action, Request(h, a) PROVE SumsTold'
  <2>1. pc' \notin Captured
    BY <1>3 DEF Captured, Request, Raise, LaunchInstance, StartOrConnect
  <2> QED BY <2>1, SumsNamed
<1>4. CASE Connect
  <2>1. SumsIdle
    BY <1>4 DEF SumsIdle, Captured, Connect, Goto, fpga, TypeOK, RunInv
  <2> QED BY <2>1, SumsIdleKeeps
<1>5. CASE StageDriver
  <2>1. SumsIdle
    BY <1>5 DEF SumsIdle, Captured, StageDriver, fpga, TypeOK, RunInv
  <2> QED BY <2>1, SumsIdleKeeps
<1>6. ASSUME NEW p \in args.payloads, Upload(p) PROVE SumsTold'
  <2>1. pc' \notin Captured
    BY <1>6 DEF Captured, Upload, Raise
  <2> QED BY <2>1, SumsNamed
<1>7. CASE UploadSums
  <2>1. args' = args /\ manifest' = manifest /\ mem.host \in Host
    BY RunKnownFacts, FilesType, <1>7 DEF FilesTyped, UploadSums, Holding
  <2>2. pc' = "verify" /\ mem' = mem
    BY <1>7 DEF UploadSums, Goto
  <2>3. CASE HasVerification(args, manifest)
    <3>1. slotdir'[mem.host] = UploadManifest(slotdir[mem.host], manifest)
      BY <1>7, <2>1, <2>3 DEF UploadSums, RunInv, TypeOK
    <3>2. slotdir[mem.host] \in SlotDir
      BY <2>1 DEF RunInv, TypeOK
    <3>3. slotdir'[mem.host].sums = manifest
      BY <3>1, <3>2 DEF UploadManifest, SlotDir
    <3> QED BY <2>1, <2>2, <3>3 DEF SumsTold, RunInv
  <2>4. CASE ~HasVerification(args, manifest)
    BY <2>1, <2>4 DEF SumsTold, HasVerification
  <2> QED BY <2>3, <2>4
<1>8. CASE RemoteVerifies
  <2>1. CASE HasVerification(args, manifest) /\ RemoteVerify(slotdir[mem.host])
    <3>1. args' = args /\ manifest' = manifest
      BY FilesType DEF FilesTyped
    <3>2. pc = "verify" /\ UNCHANGED slotdir /\ pc' = "clear" /\ mem' = mem
      BY <1>8, <2>1 DEF RemoteVerifies, Goto, fpga
    <3> QED BY <2>1, <3>1, <3>2 DEF SumsTold, RunInv, Captured,
          HasVerification, RemoteVerify
  <2>2. CASE HasVerification(args, manifest) /\ ~RemoteVerify(slotdir[mem.host])
    <3>1. pc' \notin Captured
      BY <1>8, <2>2 DEF RemoteVerifies, Capture, Captured
    <3> QED BY <3>1, SumsNamed
  <2>3. CASE ~HasVerification(args, manifest)
    <3>1. args' = args /\ manifest' = manifest
      BY FilesType DEF FilesTyped
    <3> QED BY <2>3, <3>1 DEF SumsTold, HasVerification
  <2> QED BY <2>1, <2>2, <2>3
<1>9. CASE Clear
  <2>1. SumsIdle
    BY <1>9 DEF SumsIdle, Captured, Clear, Goto, Capture, ClearSlot, fpga,
        TypeOK, RunInv
  <2> QED BY <2>1, SumsIdleKeeps
<1>10. CASE Load
  <2>1. SumsIdle
    BY <1>10 DEF SumsIdle, Captured, Load, Goto, Capture, fpga, TypeOK, RunInv
  <2> QED BY <2>1, SumsIdleKeeps
<1>11. CASE WaitForFpgaState
  <2>1. SumsIdle
    BY <1>11 DEF SumsIdle, Captured, WaitForFpgaState, Goto, Capture, fpga,
        TypeOK, RunInv
  <2> QED BY <2>1, SumsIdleKeeps
<1>12. CASE PullResults
  <2>1. pc' \notin Captured
    BY <1>12 DEF Captured, PullResults, Goto
  <2> QED BY <2>1, SumsNamed
<1>13. CASE TearDown
  <2>1. pc' \notin Captured
    BY <1>13 DEF Captured, TearDown, Goto, ClearSlot
  <2> QED BY <2>1, SumsNamed
<1>14. CASE Handle
  <2>1. pc' \notin Captured
    BY <1>14 DEF Captured, Handle, Goto
  <2> QED BY <2>1, SumsNamed
<1>15. CASE Release
  <2>1. pc' \notin Captured
    BY <1>15 DEF Captured, Release, AfterRelease, End, Goto
  <2> QED BY <2>1, SumsNamed
<1>16. CASE WriteResult
  <2>1. pc' \notin Captured
    BY <1>16 DEF Captured, WriteResult, End
  <2> QED BY <2>1, SumsNamed
<1>17. CASE DriverEnds
  <2>1. pc' \notin Captured
    BY <1>17 DEF Captured, DriverEnds, Capture
  <2> QED BY <2>1, SumsNamed
<1>18. CASE CommandFails
  <2>1. pc' \notin Captured
    BY <1>18 DEF Captured, CommandFails, Capture
  <2> QED BY <2>1, SumsNamed
<1>19. CASE ReleaseFails
  <2>1. pc' \notin Captured
    BY <1>19 DEF Captured, ReleaseFails, AfterRelease, End, Goto, Forget
  <2> QED BY <2>1, SumsNamed
<1>20. ASSUME NEW exc \in {"interrupt", "error"}, Break(exc) PROVE SumsTold'
  <2>1. pc' \notin Captured
    BY <1>20 DEF Captured, Break, Breaks, Raise, SessionLost
  <2> QED BY <2>1, SumsNamed
<1>21. CASE Kill
  <2>1. pc' \notin Captured
    BY <1>21 DEF Captured, Kill, End, SessionLost, Forget
  <2> QED BY <2>1, SumsNamed
<1>22. ASSUME NEW h \in Host, SlotSettles(h) PROVE SumsTold'
  <2>1. SumsIdle
    BY <1>22 DEF SumsIdle, Captured, SlotSettles, fpga, TypeOK, RunInv
  <2> QED BY <2>1, SumsIdleKeeps
<1>23. ASSUME NEW h \in Host, HostGoesDown(h) PROVE SumsTold'
  <2>1. SumsIdle
    BY <1>23 DEF SumsIdle, Captured, HostGoesDown, GoesDown, KillJobsOn, fpga,
        TypeOK, RunInv
  <2> QED BY <2>1, SumsIdleKeeps
<1>24. ASSUME NEW h \in Host, OwnerStarts(h) PROVE SumsTold'
  <2>1. SumsIdle
    BY <1>24 DEF SumsIdle, Captured, OwnerStarts, OwnerStartsIt, fpga, TypeOK,
        RunInv
  <2> QED BY <2>1, SumsIdleKeeps
<1>25. ASSUME NEW d \in Dir, NEW n \in Name, EditPayload(d, n) PROVE SumsTold'
  <2>1. SumsIdle
    BY <1>25 DEF SumsIdle, Captured, EditPayload, fpga, TypeOK, RunInv
  <2> QED BY <2>1, SumsIdleKeeps
<1>26. CASE UNCHANGED vars
  <2>1. SumsIdle
    BY <1>26 DEF vars, fpga, SumsIdle
  <2> QED BY <2>1, SumsIdleKeeps
<1> QED BY <1>1, <1>2, <1>3, <1>4, <1>5, <1>6, <1>7, <1>8, <1>9, <1>10, <1>11,
      <1>12, <1>13, <1>14, <1>15, <1>16, <1>17, <1>18, <1>19, <1>20, <1>21,
      <1>22, <1>23, <1>24, <1>25, <1>26 DEF Next, Step

-----------------------------------------------------------------------------
\* The machines.

\* A step that leaves the machines alone, or what is known of them.
HeldIdle ==
  /\ UNCHANGED <<inst, lost>>
  /\ mem'.host = mem.host /\ mem'.action = mem.action
  /\ pc' = "write" => pc = "write"

LEMMA HeldIdleKeeps ==
  ASSUME RunInv, HeldIdle
  PROVE  NotForeign' /\ HeldIsKnown' /\ Released'
  BY DEF RunInv, HeldIdle, NotForeign, HeldIsKnown, Released

LEMMA ForgetFacts ==
  ASSUME RunInv, Forget
  PROVE  \A h \in Host : inst[h] = "held" => h \in lost'
<1>1. \A h \in Host : inst[h] = "held" => h \in lost
      \/ (mem.host = h /\ mem.action # "connected")
  BY DEF RunInv, HeldIsKnown
<1> QED BY <1>1, NoneIsNew DEF Forget

LEMMA ReleaseEnds ==
  ASSUME RunInv, Release
  PROVE  \A h \in Host : inst'[h] = "held" => h \in lost
<1>1. \A h \in Host : inst[h] = "held" => h \in lost
      \/ (mem.host = h /\ mem.action # "connected")
  BY DEF RunInv, HeldIsKnown
<1>2. inst \in [Host -> InstState]
  BY DEF RunInv, TypeOK
<1>3. CASE mem.host = None
  BY <1>1, <1>3, NoneIsNew DEF Release
<1>4. CASE mem.host # None
  <2>1. mem.host \in Host /\ mem.action \in Action /\ CleanupRemote(mem.action, mem.host)
    BY <1>4, MemParts DEF RunInv, RunKnown, Release
  <2>2. CASE mem.action = "launched"
    BY <1>1, <1>2, <2>1, <2>2 DEF CleanupRemote
  <2>3. CASE mem.action = "started" /\ Up(mem.host)
    BY <1>1, <1>2, <2>1, <2>3 DEF CleanupRemote
  <2>4. CASE mem.action = "started" /\ ~Up(mem.host)
    BY <1>1, <1>2, <2>1, <2>4 DEF CleanupRemote, Up
  <2>5. CASE mem.action = "connected"
    BY <1>1, <1>2, <2>1, <2>5 DEF CleanupRemote
  <2> QED BY <2>1, <2>2, <2>3, <2>4, <2>5 DEF Action
<1> QED BY <1>3, <1>4

LEMMA HeldStep == RunInv /\ [Next]_vars =>
      (NotForeign' /\ HeldIsKnown' /\ Released')
<1> SUFFICES ASSUME RunInv, [Next]_vars
      PROVE (NotForeign' /\ HeldIsKnown' /\ Released')
  OBVIOUS
<1>1. ASSUME NEW b \in Job, Start(b)
      PROVE (NotForeign' /\ HeldIsKnown' /\ Released')
  <2>1. mem.host = None /\ UNCHANGED <<inst, lost>>
    BY <1>1, FreshFacts DEF Start, RunInv, RunKnown, Early, hosts
  <2>2. mem'.host = None
    BY <1>1, FreshFacts DEF Start
  <2>3. pc' # "write"
    BY <1>1 DEF Start
  <2> QED BY <2>1, <2>2, <2>3, NoneIsNew DEF RunInv, NotForeign, HeldIsKnown,
        Released
<1>2. CASE LocalVerifies
  <2>1. mem.host = None /\ UNCHANGED <<inst, lost>>
    BY <1>2 DEF LocalVerifies, RunInv, RunKnown, Early, hosts
  <2>2. mem'.host = None
    BY <1>2, FreshFacts DEF LocalVerifies, Goto, End, RunInv, RunKnown, Early
  <2>3. pc' # "write"
    BY <1>2 DEF LocalVerifies, Goto, End
  <2> QED BY <2>1, <2>2, <2>3, NoneIsNew DEF RunInv, NotForeign, HeldIsKnown,
        Released
<1>3. ASSUME NEW h \in Host, NEW a \in Action, Request(h, a)
      PROVE (NotForeign' /\ HeldIsKnown' /\ Released')
  <2>1. mem \in Mem /\ mem.host = None /\ \A g \in Host : inst[g] = "held" =>
        g \in lost
    BY <1>3, NoneIsNew DEF Request, RunInv, TypeOK, RunKnown, Early, HeldIsKnown
  <2>2. \A g \in Host : g # h => inst'[g] = inst[g]
    BY <1>3 DEF Request, LaunchInstance, StartOrConnect, RunInv, TypeOK
  <2>3. /\ a # "connected" => inst'[h] = "held"
        /\ a = "connected" => inst' = inst
    BY <1>3 DEF Request, LaunchInstance, StartOrConnect, RunInv, TypeOK
  <2>4. CASE mem' = [mem EXCEPT !.host = h, !.action = a] /\ lost' = lost /\ pc' = "connect"
    <3>1. mem'.host = h /\ mem'.action = a
      BY <2>1, <2>4 DEF Mem
    <3> QED BY <2>1, <2>2, <2>3, <2>4, <3>1 DEF NotForeign, HeldIsKnown,
          Released
  <2>5. CASE /\ \E exc \in {"interrupt", "error"} : Raise(exc, "handler")
             /\ lost' = IF a = "connected" THEN lost ELSE lost \cup {h}
    <3>1. mem'.host = None /\ pc' = "handler"
      BY <2>1, <2>5, RaiseFacts DEF RunInv
    <3> QED BY <2>1, <2>2, <2>3, <2>5, <3>1, NoneIsNew DEF NotForeign,
          HeldIsKnown, Released
  <2> QED BY <1>3, <2>4, <2>5 DEF Request
<1>4. CASE Connect
  <2>1. HeldIdle
    BY <1>4 DEF HeldIdle, Connect, Goto, hosts, TypeOK, RunInv
  <2> QED BY <2>1, HeldIdleKeeps
<1>5. CASE StageDriver
  <2>1. mem \in Mem
    BY DEF RunInv, TypeOK
  <2>2. HeldIdle
    BY <1>5, <2>1 DEF StageDriver, HeldIdle, hosts, Mem
  <2> QED BY <2>2, HeldIdleKeeps
<1>6. ASSUME NEW p \in args.payloads, Upload(p)
      PROVE (NotForeign' /\ HeldIsKnown' /\ Released')
  <2>1. mem \in Mem /\ UNCHANGED <<inst, lost>> /\ pc' # "write"
    BY <1>6 DEF Upload, Raise, hosts, RunInv, TypeOK
  <2>2. CASE mem' = [mem EXCEPT !.todo = mem.todo \ {p}]
    BY <2>1, <2>2, HeldIdleKeeps DEF HeldIdle, Mem
  <2>3. CASE \E exc \in {"interrupt", "error"} : Raise(exc, "handler")
    BY <2>1, <2>3, RaiseFacts, HeldIdleKeeps DEF HeldIdle, RunInv
  <2> QED BY <1>6, <2>2, <2>3 DEF Upload
<1>7. CASE UploadSums
  <2>1. HeldIdle
    BY <1>7 DEF HeldIdle, UploadSums, Goto, hosts, TypeOK, RunInv
  <2> QED BY <2>1, HeldIdleKeeps
<1>8. CASE RemoteVerifies
  <2>1. CASE UNCHANGED mem
    BY <1>8, <2>1, HeldIdleKeeps DEF HeldIdle, RemoteVerifies, Goto, Capture,
        hosts
  <2>2. CASE Capture("hash_verify")
    <3>1. HeldIdle
      BY <1>8, <2>2, CaptureFacts DEF HeldIdle, RemoteVerifies, hosts, RunInv,
          Stage
    <3> QED BY <3>1, HeldIdleKeeps
  <2> QED BY <1>8, <2>1, <2>2 DEF RemoteVerifies, Goto
<1>9. CASE Clear
  <2>1. CASE UNCHANGED mem
    BY <1>9, <2>1, HeldIdleKeeps DEF HeldIdle, Clear, Goto, Capture, hosts
  <2>2. CASE Capture("agfi_load")
    <3>1. HeldIdle
      BY <1>9, <2>2, CaptureFacts DEF HeldIdle, Clear, hosts, RunInv, Stage
    <3> QED BY <3>1, HeldIdleKeeps
  <2> QED BY <1>9, <2>1, <2>2 DEF Clear, Goto
<1>10. CASE Load
  <2>1. CASE UNCHANGED mem
    BY <1>10, <2>1, HeldIdleKeeps DEF HeldIdle, Load, Goto, Capture, hosts
  <2>2. CASE Capture("agfi_load")
    <3>1. HeldIdle
      BY <1>10, <2>2, CaptureFacts DEF HeldIdle, Load, hosts, RunInv, Stage
    <3> QED BY <3>1, HeldIdleKeeps
  <2> QED BY <1>10, <2>1, <2>2 DEF Load, Goto
<1>11. CASE WaitForFpgaState
  <2>1. CASE UNCHANGED mem
    BY <1>11, <2>1, HeldIdleKeeps DEF HeldIdle, WaitForFpgaState, Goto,
        Capture, hosts
  <2>2. CASE Capture("agfi_load")
    <3>1. HeldIdle
      BY <1>11, <2>2, CaptureFacts DEF HeldIdle, WaitForFpgaState, hosts,
          RunInv, Stage
    <3> QED BY <3>1, HeldIdleKeeps
  <2> QED BY <1>11, <2>1, <2>2 DEF WaitForFpgaState, Goto
<1>12. CASE PullResults
  <2>1. HeldIdle
    BY <1>12 DEF HeldIdle, PullResults, Goto, hosts, TypeOK, RunInv
  <2> QED BY <2>1, HeldIdleKeeps
<1>13. CASE TearDown
  <2>1. HeldIdle
    BY <1>13 DEF HeldIdle, TearDown, Goto, ClearSlot, hosts, TypeOK, RunInv
  <2> QED BY <2>1, HeldIdleKeeps
<1>14. CASE Handle
  <2>1. mem \in Mem /\ UNCHANGED <<inst, lost>> /\ pc' # "write"
    BY <1>14 DEF Handle, Goto, hosts, RunInv, TypeOK
  <2>2. mem' = mem \/ \E y : mem' = [mem EXCEPT !.yaml = y]
    BY <1>14 DEF Handle, Goto
  <2>3. CASE mem' = mem
    BY <2>1, <2>3, HeldIdleKeeps DEF HeldIdle
  <2>4. ASSUME NEW y, mem' = [mem EXCEPT !.yaml = y] PROVE HeldIdle
    BY <2>1, <2>4, YamlKept DEF HeldIdle
  <2> QED BY <2>2, <2>3, <2>4, HeldIdleKeeps
<1>15. CASE Release
  <2>1. \A g \in Host : inst'[g] # inst[g] =>
        g = mem.host /\ inst'[g] \in {"terminated", "stopped"}
    BY <1>15 DEF Release, CleanupRemote, RunInv, TypeOK
  <2>2. \A g \in Host : inst'[g] = "held" => g \in lost
    BY <1>15, ReleaseEnds
  <2>3. mem' = mem \/ mem' = Fresh
    BY <1>15 DEF Release, AfterRelease, End, Goto
  <2>4. lost' = lost
    BY <1>15 DEF Release
  <2>5. mem.host \in Host \cup {None}
    BY MemParts DEF RunInv
  <2> QED BY <2>1, <2>2, <2>3, <2>4, <2>5, FreshFacts DEF RunInv, NotForeign,
        HeldIsKnown, Released
<1>16. CASE WriteResult
  <2>1. UNCHANGED <<inst, lost>> /\ \A g \in Host : inst[g] = "held" =>
        g \in lost
    BY <1>16 DEF WriteResult, RunInv, Released, hosts
  <2>2. mem' = Fresh
    BY <1>16 DEF WriteResult, End
  <2> QED BY <2>1, <2>2, FreshFacts DEF NotForeign, HeldIsKnown, Released
<1>17. CASE DriverEnds
  <2>1. mem \in Mem /\ UNCHANGED <<inst, lost>> /\ pc' # "write"
    BY <1>17 DEF DriverEnds, Capture, RunInv, TypeOK
  <2>2. \E y : mem' = [mem EXCEPT !.yaml = y]
    BY <1>17 DEF DriverEnds, Capture
  <2>3. HeldIdle
    BY <2>1, <2>2, YamlKept DEF HeldIdle
  <2> QED BY <2>3, HeldIdleKeeps
<1>18. CASE CommandFails
  <2>1. \E stage \in {"hash_verify", "agfi_load"} : Capture(stage)
    BY <1>18 DEF CommandFails
  <2>2. HeldIdle
    BY <1>18, <2>1, CaptureFacts DEF CommandFails, HeldIdle, hosts, RunInv,
        Stage
  <2> QED BY <2>2, HeldIdleKeeps
<1>19. CASE ReleaseFails
  <2>1. inst' = inst /\ \A g \in Host : inst[g] = "held" => g \in lost'
    BY <1>19, ForgetFacts DEF ReleaseFails
  <2>2. mem' = mem \/ mem' = Fresh
    BY <1>19 DEF ReleaseFails, AfterRelease, End, Goto
  <2> QED BY <2>1, <2>2, FreshFacts DEF RunInv, NotForeign, HeldIsKnown,
        Released
<1>20. ASSUME NEW exc \in {"interrupt", "error"}, Break(exc)
      PROVE (NotForeign' /\ HeldIsKnown' /\ Released')
  <2>1. PICK label \in {"handler", "pull"} : Raise(exc, label)
    BY <1>20 DEF Break, Breaks
  <2>2. HeldIdle
    BY <1>20, <2>1, RaiseFacts DEF Break, HeldIdle, RunInv
  <2> QED BY <2>2, HeldIdleKeeps
<1>21. CASE Kill
  <2>1. inst' = inst /\ \A g \in Host : inst[g] = "held" => g \in lost'
    BY <1>21, ForgetFacts DEF Kill
  <2>2. mem' = Fresh
    BY <1>21 DEF Kill, End
  <2> QED BY <2>1, <2>2, FreshFacts DEF NotForeign, HeldIsKnown, Released
<1>22. ASSUME NEW h \in Host, SlotSettles(h)
      PROVE (NotForeign' /\ HeldIsKnown' /\ Released')
  <2>1. HeldIdle
    BY <1>22 DEF HeldIdle, SlotSettles, hosts, TypeOK, RunInv
  <2> QED BY <2>1, HeldIdleKeeps
<1>23. ASSUME NEW h \in Host, HostGoesDown(h)
      PROVE (NotForeign' /\ HeldIsKnown' /\ Released')
  <2>1. \A g \in Host : inst'[g] = IF g = h THEN inst'[h] ELSE inst[g]
    BY <1>23 DEF HostGoesDown, GoesDown, RunInv, TypeOK
  <2>2. inst'[h] \in {"terminated", "stopped"} /\ UNCHANGED <<pc, mem>> /\ lost' = lost \ {h}
    BY <1>23 DEF HostGoesDown, GoesDown, RunInv, TypeOK
  <2>3. mem.host \in Host \cup {None}
    BY MemParts DEF RunInv
  <2> QED BY <2>1, <2>2, <2>3 DEF RunInv, NotForeign, HeldIsKnown, Released
<1>24. ASSUME NEW h \in Host, OwnerStarts(h)
      PROVE (NotForeign' /\ HeldIsKnown' /\ Released')
  <2>1. \A g \in Host : g # h => inst'[g] = inst[g]
    BY <1>24 DEF OwnerStarts, OwnerStartsIt, RunInv, TypeOK
  <2>2. inst'[h] = "foreign" /\ UNCHANGED <<pc, mem, lost>> /\ mem.host = None
    BY <1>24, FreshFacts DEF OwnerStarts, OwnerStartsIt, RunInv, TypeOK,
        RunKnown
  <2> QED BY <2>1, <2>2 DEF RunInv, NotForeign, HeldIsKnown, Released
<1>25. ASSUME NEW d \in Dir, NEW n \in Name, EditPayload(d, n)
      PROVE (NotForeign' /\ HeldIsKnown' /\ Released')
  <2>1. HeldIdle
    BY <1>25 DEF HeldIdle, EditPayload, hosts, TypeOK, RunInv
  <2> QED BY <2>1, HeldIdleKeeps
<1>26. CASE UNCHANGED vars
  <2>1. HeldIdle
    BY <1>26 DEF vars, hosts, HeldIdle
  <2> QED BY <2>1, HeldIdleKeeps
<1> QED BY <1>1, <1>2, <1>3, <1>4, <1>5, <1>6, <1>7, <1>8, <1>9, <1>10, <1>11,
      <1>12, <1>13, <1>14, <1>15, <1>16, <1>17, <1>18, <1>19, <1>20, <1>21,
      <1>22, <1>23, <1>24, <1>25, <1>26 DEF Next, Step

-----------------------------------------------------------------------------
\* The results.

LEMMA ExitedStays == RunInv /\ [Next]_vars =>
      \A b \in Job : job[b] = "exited" => job'[b] = "exited"
<1> SUFFICES ASSUME RunInv, [Next]_vars
      PROVE \A b \in Job : job[b] = "exited" => job'[b] = "exited"
  OBVIOUS
<1>1. CASE Kills BY <1>1 DEF Kills, Live
<1>2. CASE \E b \in Job : Start(b) BY <1>2 DEF Start, RunInv, TypeOK
<1>3. CASE WaitForFpgaState BY <1>3 DEF WaitForFpgaState, RunInv, TypeOK,
      JobsTold, Setup, Captured, Early
<1>4. CASE DriverEnds BY <1>4 DEF DriverEnds, RunInv, TypeOK, JobsTold
<1>5. CASE UNCHANGED job BY <1>5
<1>6. Release \/ (\E exc \in {"interrupt", "error"} : Break(exc)) \/ Kill
      \/ (\E h \in Host : HostGoesDown(h)) => Kills
  BY KillFacts DEF Break, Kill, RunInv
<1>7. UNCHANGED vars => UNCHANGED job
  BY DEF vars, hosts
<1>8. (\E h \in Host, a \in Action : Request(h, a))
      \/ (\E p \in args.payloads : Upload(p)) => UNCHANGED job
  BY DEF Request, Upload, hosts
<1>9. LocalVerifies \/ Connect \/ StageDriver \/ UploadSums
      \/ RemoteVerifies \/ Clear \/ Load \/ PullResults => UNCHANGED job
  BY DEF LocalVerifies, Connect, StageDriver, UploadSums, RemoteVerifies,
      Clear, Load, PullResults, hosts
<1>10. TearDown \/ Handle \/ WriteResult \/ CommandFails \/ ReleaseFails =>
      UNCHANGED job
  BY DEF TearDown, Handle, WriteResult, CommandFails, ReleaseFails, hosts
<1>11. (\E h \in Host : SlotSettles(h) \/ OwnerStarts(h))
      \/ (\E d \in Dir, n \in Name : EditPayload(d, n)) => UNCHANGED job
  BY DEF SlotSettles, OwnerStarts, EditPayload, hosts
<1> QED BY <1>1, <1>2, <1>3, <1>4, <1>5, <1>6, <1>7, <1>8, <1>9, <1>10,
      <1>11 DEF Next, Step

LEMMA ResultWritten ==
  ASSUME RunInv, [Next]_vars, NEW b \in Job, result'[b].ok
  PROVE  result[b].ok \/ (b = mem.run /\ mem.yaml.ok)
<1>1. CASE LocalVerifies
  <2>1. ~Failed("hash_verify_local").ok BY YamlFacts DEF Stage
  <2> QED BY <1>1, <2>1 DEF LocalVerifies, RunInv, TypeOK
<1>2. CASE Handle
  <2>1. ~Failed("setup").ok BY YamlFacts DEF Stage
  <2> QED BY <1>2, <2>1 DEF Handle, RunInv, TypeOK
<1>3. CASE WriteResult BY <1>3 DEF WriteResult, RunInv, TypeOK
<1>4. CASE UNCHANGED result BY <1>4
<1>5. UNCHANGED vars => UNCHANGED result
  BY DEF vars
<1>6. (\E c \in Job : Start(c))
      \/ (\E h \in Host, a \in Action : Request(h, a))
      \/ (\E p \in args.payloads : Upload(p)) => UNCHANGED result
  BY DEF Start, Request, Upload
<1>7. Connect \/ StageDriver \/ UploadSums \/ RemoteVerifies \/ Clear
      \/ Load \/ WaitForFpgaState \/ PullResults \/ TearDown \/ Release =>
      UNCHANGED result
  BY DEF Connect, StageDriver, UploadSums, RemoteVerifies, Clear, Load,
      WaitForFpgaState, PullResults, TearDown, Release
<1>8. DriverEnds \/ CommandFails \/ ReleaseFails \/ Kill
      \/ (\E exc \in {"interrupt", "error"} : Break(exc)) => UNCHANGED result
  BY DEF DriverEnds, CommandFails, ReleaseFails, Kill, Break
<1>9. (\E h \in Host : SlotSettles(h) \/ HostGoesDown(h) \/ OwnerStarts(h))
      \/ (\E d \in Dir, n \in Name : EditPayload(d, n)) => UNCHANGED result
  BY DEF SlotSettles, HostGoesDown, OwnerStarts, EditPayload
<1> QED BY <1>1, <1>2, <1>3, <1>4, <1>5, <1>6, <1>7, <1>8, <1>9 DEF Next, Step

LEMMA SuccessStep == RunInv /\ [Next]_vars => SuccessIsOwn'
<1> SUFFICES ASSUME RunInv, [Next]_vars, NEW b \in Job, result'[b].ok
             PROVE  job'[b] = "exited"
  BY DEF SuccessIsOwn
<1>1. result[b].ok \/ (b = mem.run /\ mem.yaml.ok)
  BY ResultWritten
<1>2. job[b] = "exited"
  BY <1>1 DEF RunInv, SuccessIsOwn, JobsTold
<1> QED BY <1>2, ExitedStays

-----------------------------------------------------------------------------
\* The theorems.

LEMMA InitInv == Init => RunInv
<1> SUFFICES ASSUME Init PROVE RunInv
  OBVIOUS
<1>1. TypeOK /\ RunKnown BY InitTypes
<1>2. pc = "idle" /\ mem = Fresh /\ \A b \in Job : job[b] = "unused" /\ ~result[b].ok
  BY YamlFacts DEF Init, HostsInit
<1>3. HasVerification(args, manifest) =>
      \A p \in args.payloads : manifest[p.base] # Absent
  BY DEF Init, Resolves
<1>4. \A h \in Host : inst[h] # "held"
  BY DEF Init, HostsInit, Host
<1>5. JobsTold BY <1>2, FreshFacts DEF JobsTold, Early, Setup, Captured
<1>6. SlotTold /\ SlotIsOwn /\ SuccessIsOwn BY <1>2 DEF SlotTold, SlotIsOwn,
      SuccessIsOwn
<1>7. SumsTold BY <1>2, <1>3 DEF SumsTold, Captured
<1>8. NotForeign /\ HeldIsKnown /\ Released BY <1>2, <1>4, FreshFacts
      DEF NotForeign, HeldIsKnown, Released
<1> QED BY <1>1, <1>5, <1>6, <1>7, <1>8 DEF RunInv

LEMMA StepInv == RunInv /\ [Next]_vars => RunInv'
  BY TypeStep, RunKnownStep, JobsToldStep, SlotStep, SumsStep, HeldStep,
      SuccessStep DEF RunInv

LEMMA Invariance == Spec => []RunInv
  BY InitInv, StepInv, PTL DEF Spec

\* The types of the foreground run's state.
THEOREM TypeCorrect == Spec => []TypeOK
<1>1. RunInv => TypeOK BY DEF RunInv
<1> QED BY <1>1, Invariance, PTL

\* The driver runs only on an FPGA that has loaded this run's image: the poll
\* of _wait_for_fpga_state between each command and the next is what it takes.
THEOREM SlotIsOwnAlways == Spec => []SlotIsOwn
<1>1. RunInv => SlotIsOwn BY DEF RunInv
<1> QED BY <1>1, Invariance, PTL

\* "succeeded" is written only for a run whose driver ended with status 0.
THEOREM SuccessIsOwnAlways == Spec => []SuccessIsOwn
<1>1. RunInv => SuccessIsOwn BY DEF RunInv
<1> QED BY <1>1, Invariance, PTL

\* No machine that fslab launched or started is left behind but by a failed
\* request, a failed release or a kill.
THEOREM HeldIsKnownAlways == Spec => []HeldIsKnown
<1>1. RunInv => HeldIsKnown BY DEF RunInv
<1> QED BY <1>1, Invariance, PTL

\* While a driver runs the slot directory holds the payloads the manifest
\* names: the check on the host stays good, since nothing writes there after.
THEOREM VerifiedPayloadAlways == Spec => []VerifiedPayload
<1>1. RunInv => VerifiedPayload
  <2> SUFFICES ASSUME RunInv, \E b \in Job : job[b] = "running",
                      HasVerification(args, manifest),
                      NEW p \in args.payloads, CheckedByName(p)
               PROVE  slotdir[mem.host].file[p.remote] = manifest[p.base]
    BY DEF VerifiedPayload
  <2>1. pc = "driver" BY DEF RunInv, JobsTold
  <2>2. /\ slotdir[mem.host].sums = manifest /\ RemoteVerify(slotdir[mem.host])
        /\ manifest[p.base] # Absent
    BY <2>1 DEF RunInv, SumsTold, Captured
  <2>3. p.base \in Name /\ p.remote = p.base
    BY MemParts DEF RunInv, CheckedByName
  <2> QED BY <2>2, <2>3 DEF RemoteVerify, Sha256sumOk
<1> QED BY <1>1, Invariance, PTL

\* A machine that was found running is left running by every command: only
\* its owner, or AWS, stops it, a step that touches no process.
THEOREM ForeignUntouchedAlways == Spec => ForeignUntouched
<1>1. ASSUME RunInv, [Next]_vars, NEW h \in Host, inst[h] = "foreign", inst'[h] # "foreign"
      PROVE  UNCHANGED <<pc, mem>>
  <2>1. CASE \E g \in Host : HostGoesDown(g)
    BY <2>1 DEF HostGoesDown
  <2>2. CASE Release
    <3>1. mem.host # None /\ CleanupRemote(mem.action, mem.host)
      BY <1>1, <2>2 DEF Release
    <3>2. mem.action # "connected" /\ mem.host = h
      BY <1>1, <3>1, MemParts DEF CleanupRemote, RunInv, TypeOK
    <3> QED BY <1>1, <3>1, <3>2 DEF RunInv, NotForeign
  <2>3. CASE \E g \in Host, a \in Action : Request(g, a)
    BY <1>1, <2>3 DEF Request, LaunchInstance, StartOrConnect, RunInv, TypeOK
  <2>4. CASE \E g \in Host : OwnerStarts(g)
    BY <1>1, <2>4 DEF OwnerStarts, OwnerStartsIt, RunInv, TypeOK
  <2>5. CASE UNCHANGED inst
    BY <1>1, <2>5
  <2>6. UNCHANGED vars => UNCHANGED inst
    BY DEF vars, hosts
  <2>7. (\E b \in Job : Start(b)) \/ (\E p \in args.payloads : Upload(p)) =>
        UNCHANGED inst
    BY DEF Start, Upload, hosts
  <2>8. LocalVerifies \/ Connect \/ StageDriver \/ UploadSums
        \/ RemoteVerifies \/ Clear \/ Load \/ WaitForFpgaState => UNCHANGED inst
    BY DEF LocalVerifies, Connect, StageDriver, UploadSums, RemoteVerifies,
        Clear, Load, WaitForFpgaState, hosts
  <2>9. PullResults \/ TearDown \/ Handle \/ WriteResult \/ DriverEnds
        \/ CommandFails \/ ReleaseFails => UNCHANGED inst
    BY DEF PullResults, TearDown, Handle, WriteResult, DriverEnds,
        CommandFails, ReleaseFails, hosts
  <2>10. (\E exc \in {"interrupt", "error"} : Break(exc)) \/ Kill =>
        UNCHANGED inst
    BY DEF Break, Kill
  <2>11. (\E g \in Host : SlotSettles(g))
        \/ (\E d \in Dir, n \in Name : EditPayload(d, n)) => UNCHANGED inst
    BY DEF SlotSettles, EditPayload, hosts
  <2> QED BY <1>1, <2>1, <2>2, <2>3, <2>4, <2>5, <2>6, <2>7, <2>8, <2>9, <2>10,
        <2>11 DEF Next, Step
<1>2. RunInv /\ [Next]_vars =>
        [\A h \in Host : inst[h] = "foreign" /\ inst'[h] # "foreign" => UNCHANGED <<pc, mem>>]_vars
  BY <1>1
<1> QED BY <1>2, Invariance, PTL DEF Spec, ForeignUntouched

=============================================================================
