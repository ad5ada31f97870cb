---------------------------- MODULE BuildPipeline ----------------------------
(***************************************************************************)
(* Remote bitstream builds of fslab: `fslab build fpga` launches a wrapper *)
(* script on a build host and writes a local stamp, `fslab monitor build`  *)
(* follows it to the end and releases the host, `fslab abandon build`      *)
(* gives it up, and `fslab clean` deletes the tree that holds the stamp.   *)
(*                                                                         *)
(* Several CLI processes may run at once on one project.  They share the   *)
(* stamp file, the hosts and what the wrapper leaves on them; everything   *)
(* else a command knows is in its own memory, and is gone when it ends.    *)
(* A process can be interrupted between any two steps (Ctrl+C, SIGKILL,    *)
(* a lost SSH connection, an exception no handler turns into a clean-up).  *)
(*                                                                         *)
(* A step is what one command does between two points where something      *)
(* outside it can change: a call to AWS or to the remote host, or an       *)
(* access to the stamp file.                                               *)
(***************************************************************************)
EXTENDS Naturals, RemoteHosts

CONSTANTS
  Cli,        \* fslab processes on this project, at most one command each
  Commands    \* the commands the user may run

ASSUME CommandsOK == Commands \subseteq {"build", "monitor", "abandon", "clean"}

VARIABLES
  stamp,  \* build/fpga/.fslab/build.yaml, NoStamp when there is no such file
  pc,     \* where each CLI process is
  mem,    \* the in-memory BuildStamp (and, before it exists, _lifecycle)
  afi     \* the FPGA image each wrapper submitted

vars == <<stamp, pc, mem, inst, remote, job, home, afi>>

-----------------------------------------------------------------------------
\* Types

Terminal == {"wrapper_failed", "succeeded", "failed", "abandoned"}
BuildStatus == {"launching", "running", "finalizing"} \cup Terminal

Stamp ==
  [id : Job \cup {None}, status : BuildStatus \cup {"absent"},
   host : Host \cup {None}, action : Action \cup {None},
   cleanup_done : BOOLEAN, result : Result]
NoStamp ==
  [id |-> None, status |-> "absent", host |-> None, action |-> None,
   cleanup_done |-> FALSE, result |-> NoResult]

LaunchPc == {"compile", "request", "acquire", "setup", "staged",
             "launch", "verify", "commit"}
\* A machine is taken, and no stamp names it yet.
Launching == {"acquire", "setup", "staged"}
MonitorPc == {"attach", "tail", "pull", "teardown", "persist", "reread", "poll"}
AbandonPc == {"release", "mark", "wipe", "rmtree"}

AfiState == {"none", "pending", "available", "failed"}

TypeOK ==
  /\ stamp \in Stamp
  /\ pc \in [Cli -> {"idle"} \cup LaunchPc \cup MonitorPc \cup AbandonPc]
  /\ mem \in [Cli -> Stamp]
  /\ inst \in [Host -> InstState]
  /\ remote \in [Host -> RemoteDir]
  /\ job \in [Job -> JobState]
  /\ home \in [Job -> Host \cup {None}]
  /\ afi \in [Job -> AfiState]

-----------------------------------------------------------------------------
\* Helpers

Goto(c, label) == pc' = [pc EXCEPT ![c] = label]

\* The command ends, and its memory with it.
Done(c) == Goto(c, "idle") /\ mem' = [mem EXCEPT ![c] = NoStamp]

-----------------------------------------------------------------------------
Init ==
  /\ stamp = NoStamp
  /\ pc = [c \in Cli |-> "idle"]
  /\ mem = [c \in Cli |-> NoStamp]
  /\ HostsInit
  /\ afi = [b \in Job |-> "none"]

-----------------------------------------------------------------------------
\* fslab build fpga

\* The guard before any local work.  Bound: launches stop when the ids do.
StartBuild(c) ==
  /\ "build" \in Commands
  /\ pc[c] = "idle"
  /\ stamp = NoStamp
  /\ \E b \in Job : job[b] = "unused"
  /\ Goto(c, "compile")
  /\ UNCHANGED <<stamp, mem, inst, remote, job, home, afi>>

\* The same guard again, after a compile that takes minutes.
GuardAgain(c) ==
  /\ pc[c] = "compile"
  /\ Goto(c, IF stamp = NoStamp THEN "request" ELSE "idle")
  /\ UNCHANGED <<stamp, mem, inst, remote, job, home, afi>>

Remember(c, h, action) ==
  mem' = [mem EXCEPT ![c] = [NoStamp EXCEPT !.host = h, !.action = action]]

RequestEphemeral(c) ==
  /\ pc[c] = "request"
  /\ \E h \in Ephemeral : LaunchInstance(h) /\ Remember(c, h, "launched")
  /\ Goto(c, "acquire")
  /\ UNCHANGED <<stamp, remote, job, home, afi>>

\* Mutant: cannot tell a machine it started from one it found running.
RequestManagedStarts(c) ==
  /\ pc[c] = "request"
  /\ \E h \in Managed :
       /\ inst' = [inst EXCEPT ![h] = IF Up(h) THEN @ ELSE "held"]
       /\ Remember(c, h, "started")
  /\ Goto(c, "acquire")
  /\ UNCHANGED <<stamp, remote, job, home, afi>>

RequestManaged(c) ==
  /\ pc[c] = "request"
  /\ \E h \in Managed, action \in {"started", "connected"} :
       StartOrConnect(h, action) /\ Remember(c, h, action)
  /\ Goto(c, "acquire")
  /\ UNCHANGED <<stamp, remote, job, home, afi>>

RequestExternal(c) ==
  /\ pc[c] = "request"
  /\ \E h \in External : Remember(c, h, "connected")
  /\ Goto(c, "setup")
  /\ UNCHANGED <<stamp, inst, remote, job, home, afi>>

\* The instance runs and its SSH port answers.  When either wait fails,
\* request() raises outside build_bitstream's try: nothing is released, which
\* is what Interrupt(c) does.
Acquired(c) ==
  /\ pc[c] = "acquire"
  /\ Up(mem[c].host)
  /\ Goto(c, "setup")
  /\ UNCHANGED <<stamp, mem, inst, remote, job, home, afi>>

\* connect, serialize_cleanup_state, ensure_platform, validate_remote_auth and
\* stage_for_remote_build, which replaces the remote cl_dir by a fresh one.
Setup(c) ==
  /\ pc[c] = "setup"
  /\ Up(mem[c].host)
  /\ remote' = [remote EXCEPT ![mem[c].host] = EmptyDir]
  /\ Goto(c, "staged")
  /\ UNCHANGED <<stamp, mem, inst, job, home, afi>>

\* One of them, or write_stamp, raises before the stamp exists:
\* provider.release, whose own failure is only warned about.
SetupFails(c) ==
  /\ pc[c] \in {"setup", "staged"}
  /\ \/ CleanupRemote(mem[c].action, mem[c].host)
     \/ UNCHANGED <<inst, job>>
  /\ Done(c)
  /\ UNCHANGED <<stamp, remote, home, afi>>

WriteStamp(c) ==
  /\ pc[c] = "staged"
  /\ \E b \in Job :
       /\ job[b] = "unused"
       /\ job' = [job EXCEPT ![b] = "drawn"]
       /\ home' = [home EXCEPT ![b] = mem[c].host]
       /\ stamp' = [mem[c] EXCEPT !.id = b, !.status = "launching"]
  /\ mem' = [mem EXCEPT ![c] = stamp']
  /\ Goto(c, "launch")
  /\ UNCHANGED <<inst, remote, afi>>

LaunchRemoteWrapper(c) ==
  /\ pc[c] = "launch"
  /\ Up(mem[c].host)
  /\ job' = [job EXCEPT ![mem[c].id] = "starting"]
  /\ Goto(c, "verify")
  /\ UNCHANGED <<stamp, mem, inst, remote, home, afi>>

VerifyWrapperStarted(c) ==
  /\ pc[c] = "verify"
  /\ Up(mem[c].host)
  /\ remote[mem[c].host].owner = mem[c].id
  /\ Goto(c, "commit")
  /\ UNCHANGED <<stamp, mem, inst, remote, job, home, afi>>

\* The launcher writes its own copy of the stamp, whatever is on disk now.
MarkRunning(c) ==
  /\ pc[c] = "commit"
  /\ stamp' = [mem[c] EXCEPT !.status = "running"]
  /\ Done(c)
  /\ UNCHANGED <<inst, remote, job, home, afi>>

\* Mutant: a status that BuildStatus does not have.
LaunchFailsUnknown(c) ==
  /\ pc[c] \in {"launch", "verify"}
  /\ stamp' = IF stamp = NoStamp THEN NoStamp
              ELSE [stamp EXCEPT !.status = "launch_failed"]
  /\ Done(c)
  /\ UNCHANGED <<inst, remote, job, home, afi>>

\* The wrapper cannot be launched, its pid cannot be read, or its stamp does
\* not show up in time.  The handler re-reads the stamp and marks it; the call
\* to cleanup_remote is commented out.
LaunchFails(c) ==
  /\ pc[c] \in {"launch", "verify"}
  /\ stamp' = IF stamp = NoStamp THEN NoStamp
              ELSE [stamp EXCEPT !.status = "wrapper_failed",
                                 !.cleanup_done = TRUE]
  /\ Done(c)
  /\ UNCHANGED <<inst, remote, job, home, afi>>

-----------------------------------------------------------------------------
\* fslab monitor build

\* Mutant: without the early return for a terminal stamp.
StartMonitorAnyStatus(c) ==
  /\ "monitor" \in Commands
  /\ pc[c] = "idle"
  /\ stamp # NoStamp
  /\ mem' = [mem EXCEPT ![c] = stamp]
  /\ Goto(c, "attach")
  /\ UNCHANGED <<stamp, inst, remote, job, home, afi>>

\* No stamp: the command aborts.  A terminal one: it prints a summary.
StartMonitor(c) ==
  /\ "monitor" \in Commands
  /\ pc[c] = "idle"
  /\ stamp # NoStamp
  /\ stamp.status \notin Terminal
  /\ mem' = [mem EXCEPT ![c] = stamp]
  /\ Goto(c, "attach")
  /\ UNCHANGED <<stamp, inst, remote, job, home, afi>>

\* connect_external and verify_remote_id succeed.
CanAttach(c) ==
  /\ Up(mem[c].host)
  /\ remote[mem[c].host].owner = mem[c].id

Attach(c) ==
  /\ pc[c] = "attach"
  /\ CanAttach(c)
  /\ IF mem[c].status = "launching"
       THEN /\ stamp' = [mem[c] EXCEPT !.status = "running"]
            /\ mem' = [mem EXCEPT ![c].status = "running"]
       ELSE UNCHANGED <<stamp, mem>>
  /\ Goto(c, IF mem[c].status = "finalizing" THEN "poll" ELSE "tail")
  /\ UNCHANGED <<inst, remote, job, home, afi>>

AttachRefused(c) ==
  /\ pc[c] = "attach"
  /\ ~CanAttach(c)
  /\ Done(c)
  /\ UNCHANGED <<stamp, inst, remote, job, home, afi>>

\* Mutant: returns when the session ends, result.yaml or not.
TailReturnsEarly(c) ==
  /\ pc[c] = "tail"
  /\ Up(mem[c].host)
  /\ Goto(c, "pull")
  /\ UNCHANGED <<stamp, mem, inst, remote, job, home, afi>>

\* tail_remote_log_until_result returns once result.yaml is there.
Tail(c) ==
  /\ pc[c] = "tail"
  /\ Up(mem[c].host)
  /\ remote[mem[c].host].result # NoResult
  /\ Goto(c, "pull")
  /\ UNCHANGED <<stamp, mem, inst, remote, job, home, afi>>

\* The SSH session dies with the host.
ConnectionLost(c) ==
  /\ pc[c] \in {"tail", "pull"}
  /\ ~Up(mem[c].host)
  /\ Done(c)
  /\ UNCHANGED <<stamp, inst, remote, job, home, afi>>

\* A result.yaml that is gone by now counts as a failure of this build.
Pull(c) ==
  /\ pc[c] = "pull"
  /\ Up(mem[c].host)
  /\ LET found  == remote[mem[c].host].result
         result == IF found = NoResult THEN [id |-> mem[c].id, ok |-> FALSE]
                   ELSE found
     IN  mem' = [mem EXCEPT
                   ![c].result = result,
                   ![c].status = IF result.ok THEN "finalizing"
                                 ELSE "wrapper_failed"]
  /\ Goto(c, "teardown")
  /\ UNCHANGED <<stamp, inst, remote, job, home, afi>>

Teardown(c) ==
  /\ pc[c] = "teardown"
  /\ IF mem[c].cleanup_done THEN UNCHANGED <<inst, job>>
     ELSE CleanupRemote(mem[c].action, mem[c].host)
  /\ mem' = [mem EXCEPT ![c].cleanup_done = TRUE]
  /\ Goto(c, "persist")
  /\ UNCHANGED <<stamp, remote, home, afi>>

\* Mutant: the flag is set even though the release raised.
TeardownFailsSilently(c) ==
  /\ pc[c] = "teardown"
  /\ mem[c].action # "connected"
  /\ mem' = [mem EXCEPT ![c].cleanup_done = TRUE]
  /\ Goto(c, "persist")
  /\ UNCHANGED <<stamp, inst, remote, job, home, afi>>

\* No credentials, or the answer is lost after AWS has acted.
TeardownFails(c) ==
  /\ pc[c] = "teardown"
  /\ mem[c].action # "connected"
  /\ \/ UNCHANGED <<inst, job>>
     \/ CleanupRemote(mem[c].action, mem[c].host)
  /\ Goto(c, "persist")
  /\ UNCHANGED <<stamp, mem, remote, home, afi>>

\* Mutant: the outcome is only written down once the machine is released.
PersistIfCleaned(c) ==
  /\ pc[c] = "persist"
  /\ stamp' = IF mem[c].cleanup_done THEN mem[c] ELSE stamp
  /\ Goto(c, "reread")
  /\ UNCHANGED <<mem, inst, remote, job, home, afi>>

Persist(c) ==
  /\ pc[c] = "persist"
  /\ stamp' = mem[c]
  /\ Goto(c, "reread")
  /\ UNCHANGED <<mem, inst, remote, job, home, afi>>

\* monitor_build goes on with what is on disk now, whoever wrote it.
Reread(c) ==
  /\ pc[c] = "reread"
  /\ IF stamp.status = "finalizing"
       THEN mem' = [mem EXCEPT ![c] = stamp] /\ Goto(c, "poll")
       ELSE Done(c)
  /\ UNCHANGED <<stamp, inst, remote, job, home, afi>>

\* check_post_wrapper_status; a call that raises is made again.
PollPending(c) ==
  /\ pc[c] = "poll"
  /\ afi[mem[c].result.id] = "pending"
  /\ stamp' = mem[c]
  /\ UNCHANGED <<pc, mem, inst, remote, job, home, afi>>

\* Mutant: only "failed" is not success.
PollSettledEarly(c) ==
  /\ pc[c] = "poll"
  /\ stamp' = [mem[c] EXCEPT
                 !.status = IF afi[mem[c].result.id] = "failed"
                            THEN "failed" ELSE "succeeded"]
  /\ Done(c)
  /\ UNCHANGED <<inst, remote, job, home, afi>>

PollSettled(c) ==
  /\ pc[c] = "poll"
  /\ afi[mem[c].result.id] # "pending"
  /\ stamp' = [mem[c] EXCEPT
                 !.status = IF afi[mem[c].result.id] = "available"
                            THEN "succeeded" ELSE "failed"]
  /\ Done(c)
  /\ UNCHANGED <<inst, remote, job, home, afi>>

-----------------------------------------------------------------------------
\* fslab abandon build, fslab clean

\* Without a stamp only the local artefacts are removed.
StartAbandon(c) ==
  /\ "abandon" \in Commands
  /\ pc[c] = "idle"
  /\ mem' = [mem EXCEPT ![c] = stamp]
  /\ Goto(c, IF stamp = NoStamp THEN "rmtree" ELSE "release")
  /\ UNCHANGED <<stamp, inst, remote, job, home, afi>>

\* Mutant: a cleanup_done that a failed launch wrote is believed.
AbandonTrustsFlag(c) ==
  /\ pc[c] = "release"
  /\ IF mem[c].cleanup_done THEN UNCHANGED <<inst, job>>
     ELSE CleanupRemote(mem[c].action, mem[c].host)
  /\ Goto(c, "mark")
  /\ UNCHANGED <<stamp, mem, remote, home, afi>>

\* Mutant: goes on although cleanup_remote raised.
AbandonGoesOn(c) ==
  /\ pc[c] = "release"
  /\ \/ CleanupRemote(mem[c].action, mem[c].host)
     \/ UNCHANGED <<inst, job>>
  /\ Goto(c, "mark")
  /\ UNCHANGED <<stamp, mem, remote, home, afi>>

\* When cleanup_remote fails the command ends and the stamp is kept: that is
\* Interrupt(c), before or after this step.
AbandonRelease(c) ==
  /\ pc[c] = "release"
  /\ CleanupRemote(mem[c].action, mem[c].host)
  /\ Goto(c, "mark")
  /\ UNCHANGED <<stamp, mem, remote, home, afi>>

AbandonMark(c) ==
  /\ pc[c] = "mark"
  /\ stamp' = [mem[c] EXCEPT !.status = "abandoned", !.cleanup_done = TRUE]
  /\ Goto(c, "wipe")
  /\ UNCHANGED <<mem, inst, remote, job, home, afi>>

AbandonWipe(c) ==
  /\ pc[c] = "wipe"
  /\ stamp' = NoStamp
  /\ Goto(c, "rmtree")
  /\ UNCHANGED <<mem, inst, remote, job, home, afi>>

\* The artefacts' directory is the one the stamp lives in, and it goes with
\* whatever stamp has appeared there.
AbandonRmtree(c) ==
  /\ pc[c] = "rmtree"
  /\ stamp' = NoStamp
  /\ Done(c)
  /\ UNCHANGED <<inst, remote, job, home, afi>>

\* Deletes build/ without looking at what is in it.
Clean(c) ==
  /\ "clean" \in Commands
  /\ pc[c] = "idle"
  /\ stamp' = NoStamp
  /\ UNCHANGED <<pc, mem, inst, remote, job, home, afi>>

\* The command ends here, with no step of its own after this one.
Interrupt(c) ==
  /\ pc[c] # "idle"
  /\ Done(c)
  /\ UNCHANGED <<stamp, inst, remote, job, home, afi>>

-----------------------------------------------------------------------------
\* The wrapper script, the machines, and AWS

\* The script writes remote_stamp.yaml before anything else.
WrapperStamps(b) ==
  /\ job[b] = "starting"
  /\ job' = [job EXCEPT ![b] = "running"]
  /\ remote' = [remote EXCEPT ![home[b]].owner = b]
  /\ UNCHANGED <<stamp, pc, mem, inst, home, afi>>

\* Its EXIT trap writes result.yaml; success means the image was submitted.
WrapperExits(b, ok) ==
  /\ job[b] = "running"
  /\ job' = [job EXCEPT ![b] = "exited"]
  /\ remote' = [remote EXCEPT ![home[b]].result = [id |-> b, ok |-> ok]]
  /\ afi' = IF ok THEN [afi EXCEPT ![b] = "pending"] ELSE afi
  /\ UNCHANGED <<stamp, pc, mem, inst, home>>

\* It ends before the trap is set, or is killed: no result.yaml.
WrapperDies(b) ==
  /\ Live(b)
  /\ job' = [job EXCEPT ![b] = "killed"]
  /\ UNCHANGED <<stamp, pc, mem, inst, remote, home, afi>>

AfiSettles(b) ==
  /\ afi[b] = "pending"
  /\ \E outcome \in {"available", "failed"} : afi' = [afi EXCEPT ![b] = outcome]
  /\ UNCHANGED <<stamp, pc, mem, inst, remote, job, home>>

HostGoesDown(h) ==
  /\ GoesDown(h)
  /\ UNCHANGED <<stamp, pc, mem, remote, home, afi>>

OwnerStarts(h) ==
  /\ OwnerStartsIt(h, {stamp} \cup {mem[c] : c \in Cli})
  /\ UNCHANGED <<stamp, pc, mem, remote, job, home, afi>>

-----------------------------------------------------------------------------
LaunchStep(c) ==
  \/ GuardAgain(c)
  \/ RequestEphemeral(c) \/ RequestManaged(c) \/ RequestExternal(c)
  \/ Acquired(c) \/ Setup(c) \/ SetupFails(c) \/ WriteStamp(c)
  \/ LaunchRemoteWrapper(c) \/ VerifyWrapperStarted(c)
  \/ MarkRunning(c) \/ LaunchFails(c)

MonitorStep(c) ==
  \/ Attach(c) \/ AttachRefused(c) \/ Tail(c) \/ ConnectionLost(c)
  \/ Pull(c) \/ Teardown(c) \/ TeardownFails(c) \/ Persist(c)
  \/ Reread(c) \/ PollPending(c) \/ PollSettled(c)

AbandonStep(c) ==
  AbandonRelease(c) \/ AbandonMark(c) \/ AbandonWipe(c) \/ AbandonRmtree(c)

Start(c) == StartBuild(c) \/ StartMonitor(c) \/ StartAbandon(c) \/ Clean(c)

WrapperStep(b) ==
  WrapperStamps(b) \/ WrapperDies(b) \/ \E ok \in BOOLEAN : WrapperExits(b, ok)

HostStep(h) == HostGoesDown(h) \/ OwnerStarts(h)

Next ==
  \/ \E c \in Cli :
       \/ Start(c) \/ LaunchStep(c) \/ MonitorStep(c) \/ AbandonStep(c)
       \/ Interrupt(c)
  \/ \E b \in Job : WrapperStep(b) \/ AfiSettles(b)
  \/ \E h \in Host : HostStep(h)

Spec == Init /\ [][Next]_vars

\* The user runs the monitor again while the stamp is not terminal and does
\* not break it off at the same point for ever; a command that has begun
\* takes its next step; wrappers and AFIs get done.
Fairness ==
  /\ \A c \in Cli :
       /\ WF_vars(AbandonStep(c))
       /\ WF_vars(AttachRefused(c)) /\ WF_vars(ConnectionLost(c))
       /\ SF_vars(StartMonitor(c)) /\ SF_vars(Attach(c)) /\ SF_vars(Tail(c))
       /\ SF_vars(Pull(c)) /\ SF_vars(Teardown(c) \/ TeardownFails(c))
       /\ SF_vars(Persist(c)) /\ SF_vars(Reread(c)) /\ SF_vars(PollSettled(c))
  /\ \A b \in Job :
       /\ WF_vars(\E ok \in BOOLEAN : WrapperExits(b, ok))
       /\ WF_vars(AfiSettles(b))

FairSpec == Spec /\ Fairness

-----------------------------------------------------------------------------
\* Properties of any number of concurrent commands

\* A copy of the stamp, on disk or in memory, that says its machine has been
\* released is right about a machine fslab launched.  Not so for
\* wrapper_failed, which a failed launch writes without releasing anything
\* although cleanup_done is to be "flipped true after cleanup_remote() succeeds".
Sound(s) ==
  s.cleanup_done /\ s.action = "launched" /\ s.status # "wrapper_failed" =>
    inst[s.host] = "terminated"

\* The stamp's cleanup_done is what makes the guard send the user to `fslab
\* clean`, which deletes the only handle on the machine: once it is set, a
\* launched machine is gone, across interrupted and failed releases and
\* commands that overwrite each other's stamp.
CleanupTrusted == Sound(stamp)

\* A stamp that reports success reports the image that this build's own
\* wrapper submitted, and AWS has it, when the machine was launched for it.
SuccessIsOwn ==
  stamp.status = "succeeded" /\ stamp.action = "launched" =>
    stamp.result.id = stamp.id /\ afi[stamp.id] = "available"

\* A monitor is never about to release a launched machine under a wrapper
\* that still works on it, whoever else has written the stamp meanwhile.
TeardownAfterExit ==
  \A c \in Cli :
    pc[c] = "teardown" /\ mem[c].action = "launched" => ~Live(mem[c].id)

\* No command stops a machine that its owner runs: it stays up until he takes
\* it down, whatever builds were started and stopped on it before.
ForeignUntouched ==
  [][\A h \in Host : inst[h] = "foreign" /\ inst'[h] # "foreign" =>
       HostGoesDown(h)]_vars

-----------------------------------------------------------------------------
\* Why they hold: what every copy of the stamp and every process is sure of

\* A build runs on a machine that fslab launched iff its stamp says so.
HostKnown(s) == s.action = "launched" <=> s.host \in Ephemeral

Trusted(s) == HostKnown(s) /\ Sound(s)

\* A process that will write its copy back with another status does not hold
\* one that a failed launch has marked, and what is marked abandoned is gone.
Working == {"acquire", "setup", "staged", "launch", "verify", "commit",
            "attach", "tail", "pull", "poll"}

Careful(c) ==
  /\ pc[c] \in Working => mem[c].status # "wrapper_failed"
  /\ pc[c] = "mark" /\ mem[c].action = "launched" =>
       inst[mem[c].host] = "terminated"

CleanupInv ==
  /\ TypeOK
  /\ Trusted(stamp)
  /\ \A c \in Cli : Trusted(mem[c]) /\ Careful(c)

\* A machine that its owner runs is in no copy of the stamp as one that fslab
\* started, and would have to stop.
MayStop(s, h) == s.host = h /\ s.action = "started"

ForeignInv ==
  /\ CleanupInv
  /\ \A h \in Host :
       inst[h] = "foreign" =>
         /\ h \notin Ephemeral
         /\ ~MayStop(stamp, h)
         /\ \A c \in Cli : ~MayStop(mem[c], h)

\* A launched machine belongs to one launcher at a time, and then to one build.
Claims(c, h) == pc[c] \in {"acquire", "setup", "staged"} /\ mem[c].host = h

HostsAreOwn ==
  /\ \A h \in Ephemeral, c, d \in Cli : Claims(c, h) /\ Claims(d, h) => c = d
  /\ \A h \in Ephemeral, c \in Cli, b \in Job : Claims(c, h) => home[b] # h
  /\ \A a, b \in Job : home[a] = home[b] /\ home[a] \in Ephemeral => a = b
  /\ \A h \in Ephemeral :
       inst[h] = "absent" =>
         /\ \A c \in Cli : ~Claims(c, h)
         /\ \A b \in Job : home[b] # h

\* An id is drawn once, launched once, and known with the machine it runs on.
WithId == {"launch", "verify", "commit", "release", "mark"} \cup MonitorPc

AtHome(s) == s.id # None /\ s.action = "launched" => home[s.id] = s.host

IdsAreOwn ==
  /\ stamp # NoStamp => stamp.id # None
  /\ \A c \in Cli : pc[c] \in WithId => mem[c].id # None
  /\ AtHome(stamp) /\ \A c \in Cli : AtHome(mem[c])
  /\ \A b \in Job : job[b] = "unused" => home[b] = None
  /\ \A c \in Cli : pc[c] = "launch" => job[mem[c].id] = "drawn"
  /\ \A c, d \in Cli :
       pc[c] = "launch" /\ pc[d] = "launch" /\ mem[c].id = mem[d].id => c = d

\* What lies on a launched machine was written there by its own build, and
\* so was what a copy of the stamp says of it.
Over(b) == job[b] \in {"exited", "killed"}

WrittenAt(h) ==
  remote[h].result # NoResult =>
    LET b == remote[h].result.id
    IN  b # None /\ home[b] = h /\ Over(b)

Reported(s) ==
  s.action = "launched" =>
    /\ s.result # NoResult => s.result.id = s.id
    /\ s.status = "finalizing" => s.result # NoResult
    /\ s.status = "succeeded" =>
         s.result.id = s.id /\ s.id # None /\ afi[s.id] = "available"

Settled(c) ==
  mem[c].action = "launched" =>
    /\ pc[c] \in {"acquire", "setup", "staged"} => mem[c].result = NoResult
    /\ pc[c] = "pull" => remote[mem[c].host].result # NoResult
    /\ pc[c] = "teardown" => Over(mem[c].id)
    /\ pc[c] = "poll" => mem[c].status = "finalizing"

ResultsAreOwn ==
  /\ \A b \in Job : afi[b] # "none" => job[b] = "exited"
  /\ \A h \in Ephemeral : WrittenAt(h)
  /\ Reported(stamp)
  /\ \A c \in Cli : Reported(mem[c]) /\ Settled(c)

OwnInv == CleanupInv /\ HostsAreOwn /\ IdsAreOwn /\ ResultsAreOwn

-----------------------------------------------------------------------------
\* Properties of commands that run one after the other

\* The guard keeps one build in flight (design decision D2) on launched
\* machines: no two of them run wrappers, after any sequence of launches that
\* fail or are interrupted, monitors and abandons.
OneBuildInFlight ==
  \A a, b \in Job :
    /\ Live(a) /\ Live(b)
    /\ home[a] \in Ephemeral /\ home[b] \in Ephemeral
    => a = b

Rank(status) ==
  CASE status = "launching"  -> 0
    [] status = "running"    -> 1
    [] status = "finalizing" -> 2
    [] status = "abandoned"  -> 4
    [] OTHER                 -> 3

\* A build's recorded status only moves forward: a terminal one changes only
\* to abandoned, and an abandoned one not at all.
StatusForward ==
  [][stamp'.id = stamp.id /\ stamp # NoStamp /\ stamp' # NoStamp =>
       \/ stamp'.status = stamp.status
       \/ Rank(stamp.status) < Rank(stamp'.status)]_vars

\* The lease on a machine, read off the stamp and the launcher's memory.
LeaseOf(h) ==
  IF inst[h] # "held" THEN "free"
  ELSE IF stamp.host = h /\ stamp.action # "connected" /\ ~stamp.cleanup_done
    THEN IF stamp.status = "launching" THEN "recorded" ELSE "committed"
  ELSE IF \E c \in Cli : /\ pc[c] \in Launching
                         /\ mem[c].host = h /\ mem[c].action # "connected"
    THEN "acquired"
  ELSE "lost"

HL == INSTANCE HostLease WITH lease <- [h \in Host |-> LeaseOf(h)]

\* The pipeline implements HostLease: once a launch is confirmed, the stamp
\* names the machine and says it is unreleased until it really is.
LeaseSpec == HL!Spec

\* A running build on a launched machine does not stay "running" for ever
\* once its wrapper is done: some monitor records the outcome.
RunningSettles ==
  \A b \in Job :
    (stamp.id = b /\ stamp.status = "running" /\ stamp.action = "launched") ~>
      \/ stamp.id # b \/ stamp.status # "running"
      \/ job[b] = "killed" \/ ~Up(home[b])

-----------------------------------------------------------------------------
\* Why they hold

OneAtATime == \A c, d \in Cli : c = d
NoClean == "clean" \notin Commands

\* A stamp on disk or a machine in a launcher's memory is complete.
KnowsHost(s) == s.host \in Host /\ s.action \in Action

Whole(s) ==
  s # NoStamp =>
    /\ KnowsHost(s)
    /\ s.status \in BuildStatus
    /\ s.id \in Job /\ home[s.id] = s.host

\* Nothing is left to release: fslab has stopped the machine, or never had to.
Freed(s) == s.action = "connected" \/ inst[s.host] # "held"

SameBuild(s, t) == s.id = t.id /\ s.host = t.host /\ s.action = t.action

\* How the running command's copy of the stamp relates to the one on disk.
InStep(c) ==
  /\ pc[c] \in Launching \cup {"request", "rmtree"} => stamp = NoStamp
  /\ pc[c] \in Launching => KnowsHost(mem[c]) /\ ~mem[c].cleanup_done
  /\ pc[c] \in {"launch", "verify", "commit", "attach", "tail", "pull", "poll",
                "release", "mark"} =>
       stamp = mem[c] /\ stamp # NoStamp
  /\ pc[c] \in {"launch", "verify", "commit"} => stamp.status = "launching"
  /\ pc[c] = "attach" => stamp.status \in {"launching", "running", "finalizing"}
  /\ pc[c] \in {"tail", "pull"} => stamp.status = "running"
  /\ pc[c] = "poll" => stamp.status = "finalizing"
  /\ pc[c] \in {"teardown", "persist"} =>
       /\ stamp # NoStamp /\ stamp.status = "running"
       /\ SameBuild(stamp, mem[c])
       /\ mem[c].status \in {"finalizing", "wrapper_failed"}
       /\ \/ mem[c].cleanup_done = stamp.cleanup_done
          \/ pc[c] = "persist" /\ mem[c].cleanup_done /\ Freed(stamp)
  /\ pc[c] = "mark" => Freed(stamp)
  /\ pc[c] = "wipe" => stamp.cleanup_done

AloneInv ==
  /\ OwnInv
  /\ Whole(stamp)
  /\ \A c \in Cli : InStep(c)

\* The wrapper that runs on a launched machine is the stamped build's, and
\* there is none any more once the stamp is about to go.
Flying(b) == Live(b) /\ home[b] \in Ephemeral

InFlight ==
  /\ \A b \in Job : Flying(b) => stamp.id = b
  /\ \A c \in Cli, b \in Job : pc[c] \in {"mark", "wipe", "rmtree"} => ~Flying(b)

FlightInv == AloneInv /\ InFlight

-----------------------------------------------------------------------------
\* What the repository says and the code does not do

\* "Stamp stays at `finalizing` so the next monitor run resumes."
FinalizeResumes == (stamp.status = "finalizing") ~> (stamp.status # "finalizing")
=============================================================================
