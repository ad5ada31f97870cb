---------------------------- MODULE ForegroundRun ----------------------------
(***************************************************************************)
(* `fslab sim fpga` in the foreground (runtime/runner.py): one process     *)
(* takes a host, stages the driver and the payloads, clears and loads the  *)
(* FPGA slot, runs the driver over SSH, pulls the results, clears the slot *)
(* and releases the host.  There is no stamp: what the process does not    *)
(* clean up before it ends, nobody does.                                   *)
(*                                                                         *)
(* Any step may raise; the user may press Ctrl+C at any moment; the        *)
(* process may be killed.  A machine that is reused keeps its slot         *)
(* directory and its FPGA slot from one run to the next.  The user edits   *)
(* the payloads while a run waits for its machine.                         *)
(***************************************************************************)
EXTENDS RemoteHosts, Payloads

CONSTANT Project  \* the projects considered: what their files may say

ASSUME ProjectAssumption ==
  Project \subseteq [args : RunnerArgs, local : LocalFiles, manifest : Manifest]

VARIABLES
  args,     \* runner_args of the project
  local,    \* the project's files
  manifest, \* payloads/SHA256SUMS
  pc,       \* the statement of the process
  mem,      \* its locals
  result,   \* run/fpga/results/<ts>/result.yaml, of each run
  slotdir,  \* the slot directory on each host
  slot,     \* FPGA slot 0 of each host
  lost      \* history: machines held when a release failed or never came

project == <<args, local, manifest>>
hosts == <<inst, remote, job, home, lost>>
fpga == <<slotdir, slot>>
vars == <<project, pc, mem, result, hosts, fpga>>

-----------------------------------------------------------------------------
\* Setup: an exception there is a "setup" failure.  Captured: the try block of
\* run_foreground.  Final: its finally clause.
Setup == {"request", "connect", "stage", "upload"}
Captured == {"verify", "clear", "cleared", "load", "loaded", "driver"}
Final == {"pull", "teardown"}
Pc == {"idle", "local_verify"} \cup Setup \cup Captured \cup Final
      \cup {"handler", "release", "write"}

Stage == {"hash_verify_local", "setup", "hash_verify", "agfi_load", "driver"}

\* A result: succeeded, or failed at a stage.
ResultYaml == [ok : BOOLEAN, stage : Stage \cup {None}]
NoYaml == [ok |-> FALSE, stage |-> None]
Succeeded == [ok |-> TRUE, stage |-> None]
Failed(stage) == [ok |-> FALSE, stage |-> stage]

\* The exception under way: KeyboardInterrupt or another one.
Exception == {None, "interrupt", "error"}

Mem == [run : Job \cup {None}, host : Host \cup {None},
        action : Action \cup {None}, todo : SUBSET PayloadConfig,
        yaml : ResultYaml, exc : Exception]

Fresh == [run |-> None, host |-> None, action |-> None, todo |-> {},
          yaml |-> NoYaml, exc |-> None]

SlotState == {"cleared", "clearing", "loading", "loaded"}
Slot == [state : SlotState, image : Job \cup {None}]
Cleared == [state |-> "cleared", image |-> None]

TypeOK ==
  /\ args \in RunnerArgs /\ ValidAxis(args)
  /\ local \in LocalFiles
  /\ manifest \in Manifest
  /\ pc \in Pc
  /\ mem \in Mem
  /\ result \in [Job -> ResultYaml]
  /\ inst \in [Host -> InstState]
  /\ job \in [Job -> JobState]
  /\ home \in [Job -> Host \cup {None}]
  /\ slotdir \in [Host -> SlotDir]
  /\ slot \in [Host -> Slot]
  /\ lost \subseteq Host

Init ==
  /\ HostsInit
  /\ \E p \in Project :
       /\ args = p.args /\ local = p.local /\ manifest = p.manifest
       /\ Resolves(args, local, manifest)
  /\ pc = "idle"
  /\ mem = Fresh
  /\ result = [b \in Job |-> NoYaml]
  /\ slotdir = [h \in Host |-> EmptySlotDir]
  /\ slot = [h \in Host |-> Cleared]
  /\ lost = {}

-----------------------------------------------------------------------------
(* How the process moves on, and how it fails. *)

Goto(label) == pc' = label /\ UNCHANGED mem

End == pc' = "idle" /\ mem' = Fresh

Raise(exc, label) ==
  /\ pc' = label
  /\ mem' = [mem EXCEPT !.exc = exc, !.todo = {}]

\* The except clauses of run_foreground: the outcome is kept, the finally
\* clause comes next.
Capture(stage) ==
  /\ pc' = "pull"
  /\ mem' = [mem EXCEPT !.yaml = Failed(stage)]

\* An exception of the setup reaches run_simulation_foreground at once, one of
\* the try block after the finally clause, one of the finally clause skips the
\* rest of it.
Breaks(exc) ==
  \/ pc \in Setup \cup Final /\ Raise(exc, "handler")
  \/ pc \in Captured /\ Raise(exc, "pull")

-----------------------------------------------------------------------------
(* run_simulation_foreground up to the runner. *)

Start(b) ==
  /\ pc = "idle"
  /\ job[b] = "unused"
  /\ Resolves(args, local, manifest)
  /\ job' = [job EXCEPT ![b] = "drawn"]
  /\ pc' = "local_verify"
  /\ mem' = [Fresh EXCEPT !.run = b]
  /\ UNCHANGED <<project, result, inst, remote, home, lost, fpga>>

LocalVerifies ==
  /\ pc = "local_verify"
  /\ \/ /\ LocalVerify(args, local, manifest)
        /\ Goto("request")
        /\ UNCHANGED result
     \/ /\ ~LocalVerify(args, local, manifest)
        /\ result' = [result EXCEPT ![mem.run] = Failed("hash_verify_local")]
        /\ End
  /\ UNCHANGED <<project, hosts, fpga>>

\* provider.request launches or starts the machine and then waits for it; only
\* when it returns does the caller know the host.
Request(h, action) ==
  /\ pc = "request"
  /\ action = "launched" <=> h \in Ephemeral
  /\ action = "started" => h \in Managed
  /\ IF action = "launched" THEN LaunchInstance(h) ELSE StartOrConnect(h, action)
  /\ \/ /\ pc' = "connect"
        /\ mem' = [mem EXCEPT !.host = h, !.action = action]
        /\ home' = [home EXCEPT ![mem.run] = h]
        /\ UNCHANGED lost
     \/ /\ \E exc \in {"interrupt", "error"} : Raise(exc, "handler")
        /\ lost' = IF action = "connected" THEN lost ELSE lost \cup {h}
        /\ UNCHANGED home
  /\ UNCHANGED <<project, result, remote, job, fpga>>

Connect ==
  /\ pc = "connect"
  /\ Up(mem.host)
  /\ Goto("stage")
  /\ UNCHANGED <<project, result, hosts, fpga>>

\* mkdir, truncation of driver.log, driver, chmod.
StageDriver ==
  /\ pc = "stage"
  /\ Up(mem.host)
  /\ pc' = "upload"
  /\ mem' = [mem EXCEPT !.todo = args.payloads]
  /\ UNCHANGED <<project, result, hosts, fpga>>

\* host.put: the file as it is now; a transfer that breaks off leaves a part.
Upload(p) ==
  /\ pc = "upload"
  /\ p \in mem.todo
  /\ Up(mem.host)
  /\ \/ /\ slotdir' = [slotdir EXCEPT ![mem.host] =
                         UploadPayload(@, p, local[p.dir][p.base])]
        /\ mem' = [mem EXCEPT !.todo = @ \ {p}]
        /\ UNCHANGED pc
     \/ /\ slotdir' = [slotdir EXCEPT ![mem.host] = UploadPayload(@, p, Torn)]
        /\ \E exc \in {"interrupt", "error"} : Raise(exc, "handler")
  /\ UNCHANGED <<project, result, hosts, slot>>

UploadSums ==
  /\ pc = "upload"
  /\ mem.todo = {}
  /\ Up(mem.host)
  /\ slotdir' = IF HasVerification(args, manifest)
                THEN [slotdir EXCEPT ![mem.host] = UploadManifest(@, manifest)]
                ELSE slotdir
  /\ Goto("verify")
  /\ UNCHANGED <<project, result, hosts, slot>>

-----------------------------------------------------------------------------
(* F2Runner.run_foreground, its try block. *)

\* Mutant: sums that the host did not get are no reason to stop; the check is
\* of the local files once more.
RemoteVerifiesLocal ==
  /\ pc = "verify"
  /\ Up(mem.host)
  /\ IF ~LocalVerify(args, local, manifest)
     THEN Capture("hash_verify")
     ELSE Goto("clear")
  /\ UNCHANGED <<project, result, hosts, fpga>>

RemoteVerifies ==
  /\ pc = "verify"
  /\ Up(mem.host)
  /\ IF HasVerification(args, manifest) /\ ~RemoteVerify(slotdir[mem.host])
     THEN Capture("hash_verify")
     ELSE Goto("clear")
  /\ UNCHANGED <<project, result, hosts, fpga>>

\* A slot that is busy refuses every management command.
Busy(h) == slot[h].state \in {"clearing", "loading"}

ClearSlot(h) == slot' = [slot EXCEPT ![h].state = "clearing"]

Clear ==
  /\ pc = "clear"
  /\ Up(mem.host)
  /\ IF Busy(mem.host)
     THEN Capture("agfi_load") /\ UNCHANGED slot
     ELSE Goto("cleared") /\ ClearSlot(mem.host)
  /\ UNCHANGED <<project, result, hosts, slotdir>>

Load ==
  /\ pc = "load"
  /\ Up(mem.host)
  /\ IF Busy(mem.host)
     THEN Capture("agfi_load") /\ UNCHANGED slot
     ELSE /\ Goto("loaded")
          /\ slot' = [slot EXCEPT ![mem.host] =
                        [state |-> "loading", image |-> mem.run]]
  /\ UNCHANGED <<project, result, hosts, slotdir>>

\* Mutant: the management command has returned, so the slot is ready.
WaitForNothing ==
  /\ pc \in {"cleared", "loaded"}
  /\ Up(mem.host)
  /\ Goto(IF pc = "cleared" THEN "load" ELSE "driver")
  /\ job' = IF pc = "loaded" THEN [job EXCEPT ![mem.run] = "running"] ELSE job
  /\ UNCHANGED <<project, result, inst, remote, home, lost, fpga>>

\* Mutant: the poll has no deadline.
WaitForEver ==
  /\ pc \in {"cleared", "loaded"}
  /\ Up(mem.host)
  /\ slot[mem.host].state = pc
  /\ Goto(IF pc = "cleared" THEN "load" ELSE "driver")
  /\ job' = IF pc = "loaded" THEN [job EXCEPT ![mem.run] = "running"] ELSE job
  /\ UNCHANGED <<project, result, inst, remote, home, lost, fpga>>

\* _wait_for_fpga_state: the poll sees the state, or gives up after an hour,
\* whatever the slot does afterwards.
WaitForFpgaState ==
  /\ pc \in {"cleared", "loaded"}
  /\ Up(mem.host)
  /\ \/ /\ slot[mem.host].state = pc
        /\ Goto(IF pc = "cleared" THEN "load" ELSE "driver")
        /\ job' = IF pc = "loaded" THEN [job EXCEPT ![mem.run] = "running"] ELSE job
     \/ /\ slot[mem.host].state # pc
        /\ Capture("agfi_load")
        /\ UNCHANGED job
  /\ UNCHANGED <<project, result, inst, remote, home, lost, fpga>>

\* Mutant: the status is that of tee.
DriverEndsWithTee ==
  /\ pc = "driver"
  /\ \E end \in {"exited", "killed"} :
       job' = [job EXCEPT ![mem.run] =
                 IF job[mem.run] = "running" THEN end ELSE "killed"]
  /\ pc' = "pull"
  /\ mem' = [mem EXCEPT !.yaml = Succeeded]
  /\ UNCHANGED <<project, result, inst, remote, home, lost, fpga>>

\* The driver exits with status 0, which pipefail carries past tee, or fails,
\* or ends with the user's Ctrl+C or the connection.
DriverEnds ==
  /\ pc = "driver"
  /\ \/ /\ job[mem.run] = "running"
        /\ job' = [job EXCEPT ![mem.run] = "exited"]
        /\ pc' = "pull"
        /\ mem' = [mem EXCEPT !.yaml = Succeeded]
     \/ /\ job' = [job EXCEPT ![mem.run] = "killed"]
        /\ Capture("driver")
  /\ UNCHANGED <<project, result, inst, remote, home, lost, fpga>>

\* A command on the host fails: what the try block catches.
CommandFails ==
  /\ pc \in {"verify", "clear", "cleared", "load", "loaded"}
  /\ Capture(IF pc = "verify" THEN "hash_verify" ELSE "agfi_load")
  /\ UNCHANGED <<project, result, hosts, fpga>>

-----------------------------------------------------------------------------
(* The finally clause. *)

\* Files that cannot be pulled are reported, no more.
PullResults ==
  /\ pc = "pull"
  /\ Goto("teardown")
  /\ UNCHANGED <<project, result, hosts, fpga>>

\* The last clear: refused or failed, it is reported, and nothing waits for it.
TearDown ==
  /\ pc = "teardown"
  /\ \/ ~Busy(mem.host) /\ Up(mem.host) /\ ClearSlot(mem.host)
     \/ UNCHANGED slot
  /\ Goto(IF mem.exc = None THEN "release" ELSE "handler")
  /\ UNCHANGED <<project, result, hosts, slotdir>>

-----------------------------------------------------------------------------
(* run_simulation_foreground after the runner. *)

\* An exception is written down at once, before the release; an interrupt
\* replaces the result that is written last.
Handle ==
  /\ pc = "handler"
  /\ \/ /\ mem.exc = "error"
        /\ result' = [result EXCEPT ![mem.run] = Failed("setup")]
        /\ Goto("release")
     \/ /\ mem.exc = "interrupt"
        /\ pc' = "release"
        /\ mem' = [mem EXCEPT !.yaml = Failed("setup")]
        /\ UNCHANGED result
  /\ UNCHANGED <<project, hosts, fpga>>

\* From here on nothing knows that the machine has to be released.
Forget ==
  lost' = IF mem.host # None /\ mem.action # "connected" /\ inst[mem.host] = "held"
          THEN lost \cup {mem.host} ELSE lost

AfterRelease ==
  IF mem.exc = "error" THEN End ELSE Goto("write")

\* Mutant: after an error the machine is kept for a closer look.
ReleaseUnlessError ==
  /\ pc = "release"
  /\ (mem.host # None /\ mem.exc # "error") => CleanupRemote(mem.action, mem.host)
  /\ (mem.host = None \/ mem.exc = "error") => UNCHANGED <<inst, job>>
  /\ AfterRelease
  /\ UNCHANGED <<project, result, remote, home, lost, fpga>>

\* Mutant: a machine that is not terminated is stopped.
ReleaseStops ==
  /\ pc = "release"
  /\ mem.host # None =>
       CleanupRemote(IF mem.host \in Managed THEN "started" ELSE mem.action,
                     mem.host)
  /\ mem.host = None => UNCHANGED <<inst, job>>
  /\ AfterRelease
  /\ UNCHANGED <<project, result, remote, home, lost, fpga>>

\* provider.release, which forgets the machine before it acts and reports its
\* failures, no more: the second call of the error path does nothing.
Release ==
  /\ pc = "release"
  /\ mem.host # None => CleanupRemote(mem.action, mem.host)
  /\ mem.host = None => UNCHANGED <<inst, job>>
  /\ AfterRelease
  /\ UNCHANGED <<project, result, remote, home, lost, fpga>>

ReleaseFails ==
  /\ pc = "release"
  /\ mem.host # None
  /\ Forget
  /\ AfterRelease
  /\ UNCHANGED <<project, result, inst, remote, job, home, fpga>>

\* Mutant: the exception itself is written for the stage it came from.
WriteResultRaw ==
  /\ pc = "write"
  /\ result' = [result EXCEPT ![mem.run] =
                  IF mem.exc = None THEN mem.yaml ELSE Failed(mem.exc)]
  /\ End
  /\ UNCHANGED <<project, hosts, fpga>>

WriteResult ==
  /\ pc = "write"
  /\ result' = [result EXCEPT ![mem.run] = mem.yaml]
  /\ End
  /\ UNCHANGED <<project, hosts, fpga>>

-----------------------------------------------------------------------------
(* What may happen to the process. *)

\* The driver ends with its session.
SessionLost ==
  job' = [b \in Job |-> IF Live(b) THEN "killed" ELSE job[b]]

\* Ctrl+C outside the driver's own handler, or an exception nothing catches.
Break(exc) ==
  /\ pc \in Setup \cup Captured \cup Final
  /\ pc = "driver" => exc = "error"
  /\ Breaks(exc)
  /\ SessionLost
  /\ UNCHANGED <<project, result, inst, remote, home, lost, fpga>>

\* A kill, or Ctrl+C where nothing catches it.
Kill ==
  /\ pc # "idle"
  /\ End
  /\ SessionLost
  /\ Forget
  /\ UNCHANGED <<project, result, inst, remote, home, fpga>>

(* The world around it. *)

SlotSettles(h) ==
  /\ Busy(h)
  /\ slot' = IF slot[h].state = "clearing" THEN [slot EXCEPT ![h] = Cleared]
             ELSE [slot EXCEPT ![h].state = "loaded"]
  /\ UNCHANGED <<project, pc, mem, result, hosts, slotdir>>

HostGoesDown(h) ==
  /\ GoesDown(h)
  /\ slot' = [slot EXCEPT ![h] = Cleared]
  /\ lost' = lost \ {h}
  /\ UNCHANGED <<project, pc, mem, result, remote, home, slotdir>>

OwnerStarts(h) ==
  /\ pc = "idle"
  /\ OwnerStartsIt(h, {})
  /\ UNCHANGED <<project, pc, mem, result, remote, job, home, lost, fpga>>

EditPayload(d, n) ==
  /\ local[d][n] # Absent
  /\ \E c \in Digest \ {local[d][n]} : local' = [local EXCEPT ![d][n] = c]
  /\ UNCHANGED <<args, manifest, pc, mem, result, hosts, fpga>>

-----------------------------------------------------------------------------
\* What the process does while the machine answers.
Step ==
  \/ \E b \in Job : Start(b)
  \/ LocalVerifies
  \/ \E h \in Host, a \in Action : Request(h, a)
  \/ Connect \/ StageDriver
  \/ \E p \in args.payloads : Upload(p)
  \/ UploadSums
  \/ RemoteVerifies \/ Clear \/ Load \/ WaitForFpgaState
  \/ PullResults \/ TearDown \/ Handle \/ Release \/ WriteResult

Next ==
  \/ Step
  \/ DriverEnds \/ CommandFails \/ ReleaseFails
  \/ \E exc \in {"interrupt", "error"} : Break(exc)
  \/ Kill
  \/ \E h \in Host : SlotSettles(h) \/ HostGoesDown(h) \/ OwnerStarts(h)
  \/ \E d \in Dir, n \in Name : EditPayload(d, n)

Spec == Init /\ [][Next]_vars

\* The process runs; SSH and EC2 calls on a machine that is gone end in an
\* error.  Nothing is assumed of the FPGA slot, nor that a driver ever ends, nor
\* that a command on a working machine fails.
FairSpec ==
  /\ Spec
  /\ WF_vars(Step)
  /\ WF_vars(~Up(mem.host) /\ Break("error"))

-----------------------------------------------------------------------------
\* The driver runs only on an FPGA that has finished loading this run's image,
\* whatever an earlier run left in the slot (run_foreground: clear, wait, load,
\* wait, with commands that return before the FPGA is ready).
SlotIsOwn ==
  \A b \in Job : job[b] = "running" =>
    slot[home[b]] = [state |-> "loaded", image |-> b]

\* A result says "succeeded" only if the driver of that very run ended with
\* status 0 (result_dict, which an exception on the way out replaces).
SuccessIsOwn ==
  \A b \in Job : result[b].ok => job[b] = "exited"

\* With the manifest in scope, the driver only ever sees payloads with the
\* digests the manifest gives, whatever was edited or broken off since the
\* local check -- if they keep their name on the host and lie in payloads/.
VerifiedPayload ==
  (\E b \in Job : job[b] = "running") /\ HasVerification(args, manifest) =>
    \A p \in args.payloads : CheckedByName(p) =>
      slotdir[mem.host].file[p.remote] = manifest[p.base]

\* A machine that fslab launched or started is known to the command that will
\* release it, on every way out of the run: only a failed request, a failed
\* release or a kill leaves one behind (run_simulation_foreground).
HeldIsKnown ==
  \A h \in Host : inst[h] = "held" =>
    \/ h \in lost
    \/ mem.host = h /\ mem.action # "connected"

\* A machine that was running before the run is still running after it.
ForeignUntouched ==
  [][\A h \in Host : inst[h] = "foreign" /\ inst'[h] # "foreign" =>
       UNCHANGED <<pc, mem>>]_vars

\* A run waits for nothing for ever but its driver: not for a slot that stays
\* busy, nor for a machine that is gone.
RunEnds == (pc # "idle") ~> (pc \in {"idle", "driver"})

=============================================================================
