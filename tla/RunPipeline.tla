----------------------------- MODULE RunPipeline -----------------------------
(***************************************************************************)
(* Detached FPGA runs of fslab: `fslab sim fpga --detach` launches a       *)
(* wrapper script on a run host and writes a local stamp, `fslab monitor   *)
(* run` follows it, releases the host and deletes the stamp, and `fslab    *)
(* abandon run` gives it up.  The wrapper loads the FPGA and runs the      *)
(* driver.  Processes, interruptions and steps are as in BuildPipeline.    *)
(*                                                                         *)
(* Unlike a build, a run has no phase after its wrapper, a launch that     *)
(* fails does not claim to have cleaned up, and a finished stamp is not in *)
(* the way: the guard and the monitor delete it.                           *)
(***************************************************************************)
EXTENDS Naturals, RemoteHosts

CONSTANTS
  Cli,        \* fslab processes on this project, at most one command each
  Launcher,   \* the shells that `fslab sim fpga --detach` is called in
  Commands    \* the other commands, which any shell may be used for

ASSUME CommandsOK ==
  /\ Launcher \subseteq Cli
  /\ Commands \subseteq {"monitor", "abandon"}

VARIABLES
  stamp,  \* run/fpga/.fslab/run.yaml, NoStamp when there is no such file
  pc,     \* where each CLI process is
  mem,    \* the in-memory RunStamp (and, before it exists, _lifecycle)
  stage,  \* CURRENT_STAGE of each wrapper, agfi_load in two
  slot    \* FPGA slot 0 of each host: its state, and whose load is in it

vars == <<stamp, pc, mem, inst, remote, job, home, stage, slot>>

-----------------------------------------------------------------------------
\* Types

Terminal == {"succeeded", "failed", "abandoned"}
RunStatus == {"launching", "running"} \cup Terminal

Stamp ==
  [id : Job \cup {None}, status : RunStatus \cup {"absent"},
   host : Host \cup {None}, action : Action \cup {None},
   cleanup_done : BOOLEAN, result : Result]
NoStamp ==
  [id |-> None, status |-> "absent", host |-> None, action |-> None,
   cleanup_done |-> FALSE, result |-> NoResult]

LaunchPc == {"heal", "request", "acquire", "setup", "staged",
             "launch", "verify", "commit"}
\* A machine is taken, and no stamp names it yet.
Launching == {"acquire", "setup", "staged"}
MonitorPc == {"attach", "tail", "pull", "teardown", "persist", "reread",
              "discard"}
AbandonPc == {"release", "mark", "wipe"}

Stage == {"init", "hash_verify", "agfi_clear", "agfi_load", "driver"}

\* A clear or a load is only queued by the command that asks for it.
SlotState == {"cleared", "clearing", "loading", "loaded"}
Slot == [state : SlotState, image : Job \cup {None}]
Cleared == [state |-> "cleared", image |-> None]

TypeOK ==
  /\ stamp \in Stamp
  /\ pc \in [Cli -> {"idle"} \cup LaunchPc \cup MonitorPc \cup AbandonPc]
  /\ mem \in [Cli -> Stamp]
  /\ inst \in [Host -> InstState]
  /\ remote \in [Host -> RemoteDir]
  /\ job \in [Job -> JobState]
  /\ home \in [Job -> Host \cup {None}]
  /\ stage \in [Job -> Stage]
  /\ slot \in [Host -> Slot]

-----------------------------------------------------------------------------
\* Helpers

Goto(c, label) == pc' = [pc EXCEPT ![c] = label]

\* The command ends, and its memory with it.
Done(c) == Goto(c, "idle") /\ mem' = [mem EXCEPT ![c] = NoStamp]

\* The run is over and its machine released: the stamp is only history.
Finished(s) == s.status \in Terminal /\ s.cleanup_done

fpga == <<stage, slot>>

-----------------------------------------------------------------------------
Init ==
  /\ stamp = NoStamp
  /\ pc = [c \in Cli |-> "idle"]
  /\ mem = [c \in Cli |-> NoStamp]
  /\ HostsInit
  /\ stage = [b \in Job |-> "init"]
  /\ slot = [h \in Host |-> Cleared]

-----------------------------------------------------------------------------
\* fslab sim fpga --detach

\* Mutant: takes any terminal stamp for history.
StartSimAnyTerminal(c) ==
  /\ c \in Launcher
  /\ pc[c] = "idle"
  /\ \E b \in Job : job[b] = "unused"
  /\ \/ stamp = NoStamp /\ Goto(c, "request")
     \/ stamp.status \in Terminal /\ Goto(c, "heal")
  /\ UNCHANGED <<stamp, mem, inst, remote, job, home, fpga>>

\* check_no_existing_run.  Any other stamp: the command is refused.
\* Bound: launches stop when the ids do.
StartSim(c) ==
  /\ c \in Launcher
  /\ pc[c] = "idle"
  /\ \E b \in Job : job[b] = "unused"
  /\ \/ stamp = NoStamp /\ Goto(c, "request")
     \/ Finished(stamp) /\ Goto(c, "heal")
  /\ UNCHANGED <<stamp, mem, inst, remote, job, home, fpga>>

\* The guard deletes the stamp it has found to be history.
Heal(c) ==
  /\ pc[c] = "heal"
  /\ stamp' = NoStamp
  /\ Goto(c, "request")
  /\ UNCHANGED <<mem, inst, remote, job, home, fpga>>

Remember(c, h, action) ==
  mem' = [mem EXCEPT ![c] = [NoStamp EXCEPT !.host = h, !.action = action]]

RequestEphemeral(c) ==
  /\ pc[c] = "request"
  /\ \E h \in Ephemeral : LaunchInstance(h) /\ Remember(c, h, "launched")
  /\ Goto(c, "acquire")
  /\ UNCHANGED <<stamp, remote, job, home, fpga>>

RequestManaged(c) ==
  /\ pc[c] = "request"
  /\ \E h \in Managed, action \in {"started", "connected"} :
       StartOrConnect(h, action) /\ Remember(c, h, action)
  /\ Goto(c, "acquire")
  /\ UNCHANGED <<stamp, remote, job, home, fpga>>

RequestExternal(c) ==
  /\ pc[c] = "request"
  /\ \E h \in External : Remember(c, h, "connected")
  /\ Goto(c, "setup")
  /\ UNCHANGED <<stamp, inst, remote, job, home, fpga>>

\* The instance runs and its SSH port answers; when either wait fails nothing
\* is released (Interrupt).
Acquired(c) ==
  /\ pc[c] = "acquire"
  /\ Up(mem[c].host)
  /\ Goto(c, "setup")
  /\ UNCHANGED <<stamp, mem, inst, remote, job, home, fpga>>

\* connect to the last upload.  The slot directory is used by every run on
\* the machine: what the previous one left in .fslab is removed, but a failure
\* to remove it is not looked at.
Setup(c) ==
  /\ pc[c] = "setup"
  /\ Up(mem[c].host)
  /\ remote' \in {remote, [remote EXCEPT ![mem[c].host] = EmptyDir]}
  /\ Goto(c, "staged")
  /\ UNCHANGED <<stamp, mem, inst, job, home, fpga>>

\* One of them, or write_stamp, raises before the stamp exists:
\* provider.release, whose own failure is only warned about.
SetupFails(c) ==
  /\ pc[c] \in {"setup", "staged"}
  /\ \/ CleanupRemote(mem[c].action, mem[c].host)
     \/ UNCHANGED <<inst, job>>
  /\ Done(c)
  /\ UNCHANGED <<stamp, remote, home, fpga>>

WriteStamp(c) ==
  /\ pc[c] = "staged"
  /\ \E b \in Job :
       /\ job[b] = "unused"
       /\ job' = [job EXCEPT ![b] = "drawn"]
       /\ home' = [home EXCEPT ![b] = mem[c].host]
       /\ stamp' = [mem[c] EXCEPT !.id = b, !.status = "launching"]
  /\ mem' = [mem EXCEPT ![c] = stamp']
  /\ Goto(c, "launch")
  /\ UNCHANGED <<inst, remote, fpga>>

LaunchRemoteWrapper(c) ==
  /\ pc[c] = "launch"
  /\ Up(mem[c].host)
  /\ job' = [job EXCEPT ![mem[c].id] = "starting"]
  /\ Goto(c, "verify")
  /\ UNCHANGED <<stamp, mem, inst, remote, home, fpga>>

VerifyWrapperStarted(c) ==
  /\ pc[c] = "verify"
  /\ Up(mem[c].host)
  /\ remote[mem[c].host].owner = mem[c].id
  /\ Goto(c, "commit")
  /\ UNCHANGED <<stamp, mem, inst, remote, job, home, fpga>>

\* The launcher writes its own copy of the stamp, whatever is on disk now.
MarkRunning(c) ==
  /\ pc[c] = "commit"
  /\ stamp' = [mem[c] EXCEPT !.status = "running"]
  /\ Done(c)
  /\ UNCHANGED <<inst, remote, job, home, fpga>>

\* Mutant: marks the run cleaned up as the build's handler does.
LaunchFailsClean(c) ==
  /\ pc[c] \in {"launch", "verify"}
  /\ stamp' = IF stamp = NoStamp THEN NoStamp
              ELSE [stamp EXCEPT !.status = "failed", !.cleanup_done = TRUE]
  /\ Done(c)
  /\ UNCHANGED <<inst, remote, job, home, fpga>>

\* Mutant: a status that RunStatus does not have.
LaunchFailsUnknown(c) ==
  /\ pc[c] \in {"launch", "verify"}
  /\ stamp' = IF stamp = NoStamp THEN NoStamp
              ELSE [stamp EXCEPT !.status = "wrapper_failed"]
  /\ Done(c)
  /\ UNCHANGED <<inst, remote, job, home, fpga>>

\* The wrapper cannot be launched, its pid cannot be read, or its stamp does
\* not show up in time.  The handler re-reads the stamp and leaves the machine
\* to `fslab abandon run`.
LaunchFails(c) ==
  /\ pc[c] \in {"launch", "verify"}
  /\ stamp' = IF stamp = NoStamp THEN NoStamp
              ELSE [stamp EXCEPT !.status = "failed"]
  /\ Done(c)
  /\ UNCHANGED <<inst, remote, job, home, fpga>>

-----------------------------------------------------------------------------
\* fslab monitor run

\* A terminal stamp is printed, and deleted when the run is finished.
StartMonitor(c) ==
  /\ "monitor" \in Commands
  /\ pc[c] = "idle"
  /\ stamp # NoStamp
  /\ stamp.status \in Terminal => Finished(stamp)
  /\ mem' = [mem EXCEPT ![c] = stamp]
  /\ Goto(c, IF Finished(stamp) THEN "discard" ELSE "attach")
  /\ UNCHANGED <<stamp, inst, remote, job, home, fpga>>

\* connect_external and verify_remote_id succeed.
CanAttach(c) ==
  /\ Up(mem[c].host)
  /\ remote[mem[c].host].owner = mem[c].id

Attach(c) ==
  /\ pc[c] = "attach"
  /\ CanAttach(c)
  /\ IF mem[c].status = "launching"
       THEN /\ stamp' = [mem[c] EXCEPT !.status = "running"]
            /\ mem' = [mem EXCEPT ![c].status = "running"]
       ELSE UNCHANGED <<stamp, mem>>
  /\ Goto(c, "tail")
  /\ UNCHANGED <<inst, remote, job, home, fpga>>

AttachRefused(c) ==
  /\ pc[c] = "attach"
  /\ ~CanAttach(c)
  /\ Done(c)
  /\ UNCHANGED <<stamp, inst, remote, job, home, fpga>>

\* Mutant: returns when the session ends, result.yaml or not.
TailReturnsEarly(c) ==
  /\ pc[c] = "tail"
  /\ Up(mem[c].host)
  /\ Goto(c, "pull")
  /\ UNCHANGED <<stamp, mem, inst, remote, job, home, fpga>>

\* tail_remote_log_until_result returns once result.yaml is there.
Tail(c) ==
  /\ pc[c] = "tail"
  /\ Up(mem[c].host)
  /\ remote[mem[c].host].result # NoResult
  /\ Goto(c, "pull")
  /\ UNCHANGED <<stamp, mem, inst, remote, job, home, fpga>>

\* The SSH session dies with the host.
ConnectionLost(c) ==
  /\ pc[c] \in {"tail", "pull"}
  /\ ~Up(mem[c].host)
  /\ Done(c)
  /\ UNCHANGED <<stamp, inst, remote, job, home, fpga>>

\* Mutant: a result.yaml that is there is a success.
PullPresence(c) ==
  /\ pc[c] = "pull"
  /\ Up(mem[c].host)
  /\ LET found == remote[mem[c].host].result
     IN  mem' = [mem EXCEPT
                   ![c].result = found,
                   ![c].status = IF found = NoResult THEN "failed"
                                 ELSE "succeeded"]
  /\ Goto(c, "teardown")
  /\ UNCHANGED <<stamp, inst, remote, job, home, fpga>>

\* A result.yaml that is gone by now counts as a failure of this run.
Pull(c) ==
  /\ pc[c] = "pull"
  /\ Up(mem[c].host)
  /\ LET found  == remote[mem[c].host].result
         result == IF found = NoResult THEN [id |-> mem[c].id, ok |-> FALSE]
                   ELSE found
     IN  mem' = [mem EXCEPT
                   ![c].result = result,
                   ![c].status = IF result.ok THEN "succeeded" ELSE "failed"]
  /\ Goto(c, "teardown")
  /\ UNCHANGED <<stamp, inst, remote, job, home, fpga>>

Teardown(c) ==
  /\ pc[c] = "teardown"
  /\ IF mem[c].cleanup_done THEN UNCHANGED <<inst, job>>
     ELSE CleanupRemote(mem[c].action, mem[c].host)
  /\ mem' = [mem EXCEPT ![c].cleanup_done = TRUE]
  /\ Goto(c, "persist")
  /\ UNCHANGED <<stamp, remote, home, fpga>>

\* Mutant: the flag is set even though the release raised.
TeardownFailsSilently(c) ==
  /\ pc[c] = "teardown"
  /\ mem[c].action # "connected"
  /\ mem' = [mem EXCEPT ![c].cleanup_done = TRUE]
  /\ Goto(c, "persist")
  /\ UNCHANGED <<stamp, inst, remote, job, home, fpga>>

\* No credentials, or the answer is lost after AWS has acted.
TeardownFails(c) ==
  /\ pc[c] = "teardown"
  /\ mem[c].action # "connected"
  /\ \/ UNCHANGED <<inst, job>>
     \/ CleanupRemote(mem[c].action, mem[c].host)
  /\ Goto(c, "persist")
  /\ UNCHANGED <<stamp, mem, remote, home, fpga>>

\* Mutant: the outcome is only written down once the machine is released.
PersistIfCleaned(c) ==
  /\ pc[c] = "persist"
  /\ stamp' = IF mem[c].cleanup_done THEN mem[c] ELSE stamp
  /\ Goto(c, "reread")
  /\ UNCHANGED <<mem, inst, remote, job, home, fpga>>

Persist(c) ==
  /\ pc[c] = "persist"
  /\ stamp' = mem[c]
  /\ Goto(c, "reread")
  /\ UNCHANGED <<mem, inst, remote, job, home, fpga>>

\* monitor_run goes on with what is on disk now, whoever wrote it.
Reread(c) ==
  /\ pc[c] = "reread"
  /\ IF Finished(stamp) THEN mem' = [mem EXCEPT ![c] = stamp] /\ Goto(c, "discard")
     ELSE Done(c)
  /\ UNCHANGED <<stamp, inst, remote, job, home, fpga>>

\* _maybe_wipe_terminal_stamp: the file goes, whatever it says by now.
Discard(c) ==
  /\ pc[c] = "discard"
  /\ stamp' = NoStamp
  /\ Done(c)
  /\ UNCHANGED <<inst, remote, job, home, fpga>>

-----------------------------------------------------------------------------
\* fslab abandon run

\* Without a stamp there is only a staging directory to remove.
StartAbandon(c) ==
  /\ "abandon" \in Commands
  /\ pc[c] = "idle"
  /\ stamp # NoStamp
  /\ mem' = [mem EXCEPT ![c] = stamp]
  /\ Goto(c, "release")
  /\ UNCHANGED <<stamp, inst, remote, job, home, fpga>>

\* When cleanup_remote fails the command ends and the stamp is kept: that is
\* Interrupt(c), before or after this step.
AbandonRelease(c) ==
  /\ pc[c] = "release"
  /\ CleanupRemote(mem[c].action, mem[c].host)
  /\ Goto(c, "mark")
  /\ UNCHANGED <<stamp, mem, remote, home, fpga>>

AbandonMark(c) ==
  /\ pc[c] = "mark"
  /\ stamp' = [mem[c] EXCEPT !.status = "abandoned", !.cleanup_done = TRUE]
  /\ Goto(c, "wipe")
  /\ UNCHANGED <<mem, inst, remote, job, home, fpga>>

AbandonWipe(c) ==
  /\ pc[c] = "wipe"
  /\ stamp' = NoStamp
  /\ Done(c)
  /\ UNCHANGED <<inst, remote, job, home, fpga>>

\* The command ends here, with no step of its own after this one.
Interrupt(c) ==
  /\ pc[c] # "idle"
  /\ Done(c)
  /\ UNCHANGED <<stamp, inst, remote, job, home, fpga>>

-----------------------------------------------------------------------------
\* The wrapper script.  Any command of it that fails ends it (set -e).

At(b, s) == job[b] = "running" /\ stage[b] = s
Proceed(b, s) == stage' = [stage EXCEPT ![b] = s]

commands == <<stamp, pc, mem>>

\* The script writes its own run.yaml before anything else.
WrapperStamps(b) ==
  /\ job[b] = "starting"
  /\ job' = [job EXCEPT ![b] = "running"]
  /\ remote' = [remote EXCEPT ![home[b]].owner = b]
  /\ Proceed(b, "hash_verify")
  /\ UNCHANGED <<commands, inst, home, slot>>

\* A slot that is busy refuses every management command.
Busy(h) == slot[h].state \in {"clearing", "loading"}

\* The hashes match; fpga-clear-local-image is accepted.
WrapperClears(b) ==
  /\ At(b, "hash_verify")
  /\ ~Busy(home[b])
  /\ slot' = [slot EXCEPT ![home[b]].state = "clearing"]
  /\ Proceed(b, "agfi_clear")
  /\ UNCHANGED <<commands, inst, remote, job, home>>

\* wait_for_fpga_state "cleared"; fpga-load-local-image is accepted.
WrapperLoads(b) ==
  /\ At(b, "agfi_clear")
  /\ slot[home[b]].state = "cleared"
  /\ slot' = [slot EXCEPT ![home[b]] = [state |-> "loading", image |-> b]]
  /\ Proceed(b, "agfi_load")
  /\ UNCHANGED <<commands, inst, remote, job, home>>

\* Mutant: the driver does not wait for the load that was queued.
WrapperDrivesAtOnce(b) ==
  /\ At(b, "agfi_load")
  /\ Proceed(b, "driver")
  /\ UNCHANGED <<commands, inst, remote, job, home, slot>>

\* wait_for_fpga_state "loaded"; the driver starts.
WrapperDrives(b) ==
  /\ At(b, "agfi_load")
  /\ slot[home[b]].state = "loaded"
  /\ Proceed(b, "driver")
  /\ UNCHANGED <<commands, inst, remote, job, home, slot>>

\* The EXIT trap writes result.yaml and clears the slot, unless it is busy.
WrapperExits(b, ok) ==
  /\ job[b] = "running"
  /\ ok => stage[b] = "driver"
  /\ job' = [job EXCEPT ![b] = "exited"]
  /\ remote' = [remote EXCEPT ![home[b]].result = [id |-> b, ok |-> ok]]
  /\ slot' = IF Busy(home[b]) THEN slot
             ELSE [slot EXCEPT ![home[b]].state = "clearing"]
  /\ Proceed(b, "init")
  /\ UNCHANGED <<commands, inst, home>>

\* It ends before the trap is set, or is killed: no result.yaml.
WrapperDies(b) ==
  /\ Live(b)
  /\ job' = [job EXCEPT ![b] = "killed"]
  /\ UNCHANGED <<commands, inst, remote, home, fpga>>

\* The FPGA carries out what was queued.
SlotSettles(h) ==
  /\ Up(h)
  /\ \/ /\ slot[h].state = "clearing"
        /\ slot' = [slot EXCEPT ![h] = Cleared]
     \/ /\ slot[h].state = "loading"
        /\ slot' = [slot EXCEPT ![h].state = "loaded"]
  /\ UNCHANGED <<commands, inst, remote, job, home, stage>>

HostGoesDown(h) ==
  /\ GoesDown(h)
  /\ UNCHANGED <<commands, remote, home, fpga>>

OwnerStarts(h) ==
  /\ OwnerStartsIt(h, {stamp} \cup {mem[c] : c \in Cli})
  /\ UNCHANGED <<commands, remote, job, home, fpga>>

-----------------------------------------------------------------------------
LaunchStep(c) ==
  \/ Heal(c) \/ RequestEphemeral(c) \/ RequestManaged(c) \/ RequestExternal(c)
  \/ Acquired(c) \/ Setup(c) \/ SetupFails(c) \/ WriteStamp(c)
  \/ LaunchRemoteWrapper(c) \/ VerifyWrapperStarted(c)
  \/ MarkRunning(c) \/ LaunchFails(c)

MonitorStep(c) ==
  \/ Attach(c) \/ AttachRefused(c) \/ Tail(c) \/ ConnectionLost(c)
  \/ Pull(c) \/ Teardown(c) \/ TeardownFails(c) \/ Persist(c)
  \/ Reread(c) \/ Discard(c)

AbandonStep(c) == AbandonRelease(c) \/ AbandonMark(c) \/ AbandonWipe(c)

Start(c) == StartSim(c) \/ StartMonitor(c) \/ StartAbandon(c)

WrapperStep(b) ==
  \/ WrapperStamps(b) \/ WrapperClears(b) \/ WrapperLoads(b) \/ WrapperDrives(b)
  \/ WrapperDies(b) \/ \E ok \in BOOLEAN : WrapperExits(b, ok)

HostStep(h) == HostGoesDown(h) \/ OwnerStarts(h) \/ SlotSettles(h)

Next ==
  \/ \E c \in Cli :
       \/ Start(c) \/ LaunchStep(c) \/ MonitorStep(c) \/ AbandonStep(c)
       \/ Interrupt(c)
  \/ \E b \in Job : WrapperStep(b)
  \/ \E h \in Host : HostStep(h)

Spec == Init /\ [][Next]_vars

\* As in BuildPipeline: the user comes back to the monitor, and does not
\* break it off at the same point for ever; the wrapper gets done.
Fairness ==
  /\ \A c \in Cli :
       /\ WF_vars(AbandonStep(c))
       /\ WF_vars(AttachRefused(c)) /\ WF_vars(ConnectionLost(c))
       /\ SF_vars(StartMonitor(c)) /\ SF_vars(Attach(c)) /\ SF_vars(Tail(c))
       /\ SF_vars(Pull(c)) /\ SF_vars(Teardown(c) \/ TeardownFails(c))
       /\ SF_vars(Persist(c)) /\ SF_vars(Reread(c)) /\ SF_vars(Discard(c))
  /\ \A b \in Job : WF_vars(\E ok \in BOOLEAN : WrapperExits(b, ok))

FairSpec == Spec /\ Fairness
-----------------------------------------------------------------------------
\* Properties of any number of concurrent commands

\* Once a copy of the stamp says a machine that fslab launched is released, it
\* is, across failed launches, failed and interrupted releases, and commands
\* that overwrite each other's stamp.  The guard deletes the stamp, the only
\* handle on the machine, on the strength of it.
CleanupTrusted ==
  stamp.cleanup_done /\ stamp.action = "launched" =>
    inst[stamp.host] = "terminated"

\* A stamp that reports success reports that this run's own driver ended
\* well, when the machine was launched for it.
SuccessIsOwn ==
  stamp.status = "succeeded" /\ stamp.action = "launched" =>
    stamp.result = [id |-> stamp.id, ok |-> TRUE] /\ job[stamp.id] = "exited"

\* A monitor is never about to release a launched machine under a driver that
\* still runs on it, whoever else has written the stamp meanwhile.
TeardownAfterExit ==
  \A c \in Cli :
    pc[c] = "teardown" /\ mem[c].action = "launched" => ~Live(mem[c].id)

\* On a launched machine a driver runs on an FPGA that holds the run's own
\* image, loaded to the end, for as long as it runs.
SlotIsOwn ==
  \A b \in Job :
    At(b, "driver") /\ home[b] \in Ephemeral =>
      slot[home[b]] = [state |-> "loaded", image |-> b]

-----------------------------------------------------------------------------
\* Properties of commands that run one after the other

\* The only handle on a machine that fslab launched or started is not given
\* up, by a wipe or by another run's stamp, before the machine is released.
HandleKept ==
  [][stamp # NoStamp /\ stamp'.id # stamp.id =>
       stamp.action = "connected" \/ inst[stamp.host] # "held"]_vars

\* The lease on a machine, read off the stamp and the launcher's memory.  A
\* launch that has failed keeps its lease in the stamp.
LeaseOf(h) ==
  IF inst[h] # "held" THEN "free"
  ELSE IF stamp.host = h /\ stamp.action # "connected" /\ ~stamp.cleanup_done
    THEN IF stamp.status = "launching" THEN "recorded" ELSE "committed"
  ELSE IF \E c \in Cli : /\ pc[c] \in Launching
                         /\ mem[c].host = h /\ mem[c].action # "connected"
    THEN "acquired"
  ELSE "lost"

HL == INSTANCE HostLease WITH lease <- [h \in Host |-> LeaseOf(h)]

\* The pipeline implements HostLease: from a confirmed launch on, the stamp
\* names the machine and says it is unreleased until it really is.
LeaseSpec == HL!Spec

\* A run on a launched machine does not stay "running" for ever once its
\* wrapper is done: some monitor records the outcome.
RunningSettles ==
  \A b \in Job :
    (stamp.id = b /\ stamp.status = "running" /\ stamp.action = "launched") ~>
      \/ stamp.id # b \/ stamp.status # "running"
      \/ job[b] = "killed" \/ ~Up(home[b])

-----------------------------------------------------------------------------
\* Inductive invariants (RunPipelineProofs)

HostKnown(s) == s.action = "launched" <=> s.host \in Ephemeral

\* Any copy of the stamp may end up on disk.
Trusted(s) ==
  /\ HostKnown(s)
  /\ s.cleanup_done /\ s.action = "launched" => inst[s.host] = "terminated"

CleanupInv ==
  /\ TypeOK
  /\ Trusted(stamp)
  /\ \A c \in Cli :
       /\ Trusted(mem[c])
       /\ pc[c] = "mark" /\ mem[c].action = "launched" =>
            inst[mem[c].host] = "terminated"

\* A launched machine belongs to one launcher at a time, and then to one run.
Claims(c, h) == pc[c] \in {"acquire", "setup", "staged"} /\ mem[c].host = h

Free(h) == ~(\E c \in Cli : Claims(c, h)) /\ ~(\E b \in Job : home[b] = h)

HostsAreOwn ==
  /\ \A h \in Ephemeral, c, d \in Cli : Claims(c, h) /\ Claims(d, h) => c = d
  /\ \A h \in Ephemeral, c \in Cli, b \in Job : Claims(c, h) => home[b] # h
  /\ \A a, b \in Job : home[a] = home[b] /\ home[a] \in Ephemeral => a = b
  /\ \A h \in Ephemeral : inst[h] = "absent" => Free(h)

\* From the load on, the slot holds the image of the wrapper that loaded it.
LoadIsOwn ==
  \A b \in Job : home[b] \in Ephemeral =>
    /\ At(b, "agfi_load") => /\ slot[home[b]].state \in {"loading", "loaded"}
                             /\ slot[home[b]].image = b
    /\ At(b, "driver") => slot[home[b]] = [state |-> "loaded", image |-> b]

SlotInv == TypeOK /\ HostsAreOwn /\ LoadIsOwn

\* An id is drawn once, launched once, and known with the machine it runs on.
WithId == {"launch", "verify", "commit", "release", "mark"} \cup MonitorPc

AtHome(s) == s.id # None /\ s.action = "launched" => home[s.id] = s.host

IdsAreOwn ==
  /\ stamp # NoStamp => stamp.id # None
  /\ \A c \in Cli : pc[c] \in WithId => mem[c].id # None
  /\ AtHome(stamp) /\ \A c \in Cli : AtHome(mem[c])
  /\ \A b \in Job : job[b] = "unused" => home[b] = None
  /\ \A c \in Cli : pc[c] = "launch" => job[mem[c].id] = "drawn"
  /\ \A c, d \in Cli :
       pc[c] = "launch" /\ pc[d] = "launch" /\ mem[c].id = mem[d].id => c = d

\* What lies on a launched machine was written there by its own run, at its
\* end, and so was what a copy of the stamp says of it.
WrittenAt(h) ==
  remote[h].result # NoResult =>
    LET b == remote[h].result.id
    IN  b # None /\ home[b] = h /\ job[b] = "exited"

Reported(s) ==
  s.action = "launched" /\ s.status = "succeeded" =>
    /\ s.result = [id |-> s.id, ok |-> TRUE]
    /\ s.id # None /\ job[s.id] = "exited"

Settled(c) ==
  mem[c].action = "launched" =>
    /\ pc[c] = "pull" => remote[mem[c].host].result # NoResult
    /\ pc[c] = "teardown" => job[mem[c].id] = "exited"

ResultsAreOwn ==
  /\ \A h \in Ephemeral : WrittenAt(h)
  /\ Reported(stamp)
  /\ \A c \in Cli : Reported(mem[c]) /\ Settled(c)

OwnInv == CleanupInv /\ HostsAreOwn /\ IdsAreOwn /\ ResultsAreOwn

-----------------------------------------------------------------------------
\* The same, of one command at a time

OneAtATime == \A c, d \in Cli : c = d

\* A stamp on disk or a machine in a launcher's memory is complete.
KnowsHost(s) == s.host \in Host /\ s.action \in Action

Whole(s) == s # NoStamp => KnowsHost(s) /\ s.status \in RunStatus

\* Nothing is left to release: fslab has stopped the machine, or never had to.
Freed(s) == s.action = "connected" \/ inst[s.host] # "held"

SameRun(s, t) == s.id = t.id /\ s.host = t.host /\ s.action = t.action

\* How the running command's copy of the stamp relates to the one on disk.
InStep(c) ==
  /\ pc[c] \in Launching \cup {"request"} => stamp = NoStamp
  /\ pc[c] \in Launching => KnowsHost(mem[c]) /\ ~mem[c].cleanup_done
  /\ pc[c] \in {"launch", "verify", "commit", "attach", "tail", "pull",
                "release", "mark"} =>
       stamp = mem[c] /\ stamp # NoStamp
  /\ pc[c] \in {"launch", "verify", "commit"} => stamp.status = "launching"
  /\ pc[c] = "attach" => stamp.status \in {"launching", "running"}
  /\ pc[c] \in {"tail", "pull"} => stamp.status = "running"
  /\ pc[c] \in {"teardown", "persist"} =>
       /\ stamp # NoStamp /\ stamp.status = "running"
       /\ SameRun(stamp, mem[c])
       /\ mem[c].status \in {"succeeded", "failed"}
       /\ \/ mem[c].cleanup_done = stamp.cleanup_done
          \/ pc[c] = "persist" /\ mem[c].cleanup_done /\ Freed(stamp)
  /\ pc[c] = "mark" => Freed(stamp)
  /\ pc[c] \in {"heal", "discard", "wipe"} => stamp.cleanup_done

\* cleanup_done can be trusted of machines that were started, too.
AloneInv ==
  /\ TypeOK
  /\ Whole(stamp)
  /\ stamp.cleanup_done => Freed(stamp)
  /\ \A c \in Cli : InStep(c)

=============================================================================
