# firesim-lab in TLA+

firesim-lab is a command-line tool, `fslab`, that takes an RTL design to an FPGA
simulation: it generates a FireSim target around it, compiles it, has the
bitstream built on a machine on AWS (or one the user owns), and runs the result
on an FPGA. This directory models the parts of it in which several processes,
machines and files have to agree, checks them with TLC, and proves what matters
most with TLAPS. Paths below are relative to `src/fslab-cli/fslab/` unless they
begin with `src/`.

## 1. The system

`fslab` has no daemon. Every command is a process that reads and writes files of
the project, talks to AWS and to a host over SSH, and ends. What outlives it is

| state | where | written by |
|---|---|---|
| build stamp `build/fpga/.fslab/build.yaml` | project | `build fpga`, `monitor build`, `abandon build`, deleted by `clean` |
| run stamp `run/fpga/.fslab/run.yaml` | project | `sim fpga --detach`, `monitor run`, `abandon run` |
| `.fslab/state.json` (hashes, last compile) | project | `generate`, `build`, `sim` |
| machines: launched, started, or only connected to | AWS, the user | `pipeline/host.py` |
| `remote_stamp.yaml`, `result.yaml`, `pid`, logs | host, `<cl_dir>/.fslab` | the wrapper script |
| the HDK tree and its version stamp | host | `bitstream/buildhost.py` |
| FPGA images (AFI) and the FPGA slot | AWS, host | the wrapper, `runtime/runner.py` |

The components, the state they keep, and what makes each correct:

- **Build pipeline** (`bitstream/bitbuilder.py`, `monitor.py`, `build_stamp.py`,
  `commands/abandon.py`). `build fpga` checks that no build is in flight,
  acquires a host, stages it, writes a stamp, starts a wrapper script with
  nohup, waits for the wrapper's own stamp and leaves. `monitor build` attaches
  to the wrapper's log, and at its end pulls the result, releases the machine
  and polls the FPGA image. `abandon build` releases the machine and wipes the
  stamp. Correct when no machine is lost or terminated under a working build,
  what the stamp says is true, one build is in flight, and an outcome is
  recorded. Hard: any command can be interrupted between any two steps, several
  can run at once, and nothing is locked.
- **Host layer** (`pipeline/host.py`, `cloudutils/aws/fpga.py`). Two models: an
  `external` machine the user owns, and `ec2_launch`, which launches an
  instance or, with an `instance_id`, starts or connects to a given one. It
  must undo exactly what it did: terminate what it launched, stop what it
  started, leave what it found running.
- **Remote wrappers** (`templates/remote_build`, `templates/remote_run`).
  Scripts that write their own stamp first and `result.yaml` last, from an EXIT
  trap. Hard: they can be killed, and the monitor reads while they write.
- **Run pipeline** (`runtime/launch.py`, `monitor_run.py`, `runner.py`). The
  same shape for simulations, detached or in the foreground, with FPGA slot
  loading, payload checks and a guard that discards finished stamps. A
  foreground run has no stamp: it must clean up before it ends.
- **Smart generation** (`utils/state.py`, `commands/build.py`, `sim.py`). Skips
  work whose inputs have not changed and refuses to overwrite user edits.
  Correct when `state.json` never claims what is not so, however the commands
  between are broken off.
- **HDK upload** (`bitstream/buildhost.py`). Decides by a version stamp whether
  the platform tree on a host must be uploaded. Hard: an upload breaks off
  half-way and leaves the old stamp.
- **Launch of an instance** (`cloudutils/aws/fpga.py`). A security group shared
  by all commands of an account, created and opened in two calls; volumes
  computed from the AMI's.
- **Payloads** (`runtime/payloads.py`). Which files go along, under which name,
  and the check of their digests before and after the upload.
- **Configuration** (`schemas/`, `buildconfig.py`, `runconfig.py`). Two files
  merged, validated against each other once, and trusted by every later step.
- **Block device bridge** (`src/lib/bridges`). A hardware widget that stalls the
  simulated target and a C++ driver that polls it, with bounded queues between.
- **RTL parser, templates, other bridges, container launcher.** Text generation
  and packaging; no state that two steps could disagree on.

`PROJECT.json` lists every component with what is modelled of it, and the
hazards, each at its line with the properties that watch it.

## 2. Modules

| module | what it is |
|---|---|
| `HostLease` | abstract: what the pipelines promise about the machines they pay for |
| `RemoteHosts` | the machines, and what a command, AWS or an owner may do to them; both pipelines extend it |
| `BuildPipeline` | the build pipeline: launch, monitor, abandon, clean, wrapper |
| `RunPipeline` | detached runs: launch, monitor, abandon, wrapper, the FPGA slot |
| `SmartGeneration` | `generate`, `build`, `sim` and `clean` around `state.json` |
| `Payloads` | operators: which payloads a run has, how they are uploaded and checked |
| `ForegroundRun` | `sim fpga` in the foreground; extends `RemoteHosts` and `Payloads` |
| `HdkTree`, `PlatformHdk` | an HDK on a disk; the policy and the steps of its upload |
| `Volumes`, `Ec2Launch` | operators: the volumes of an instance; `launch_instance` by several commands |
| `Configuration` | one process: load, merge, validate, resolve |
| `BlockStore` | abstract: a transaction takes effect at one instant |
| `BlockDevice` | the block device's widget and driver, step by step |
| `Preparation` | `Ec2Launch`, `PlatformHdk` and `Configuration` side by side, one of them per behaviour |
| `MC...` | constants and symmetry for TLC |
| `BuildPipelineProofs`, `RunPipelineProofs` | the safety properties of the pipelines and the refinements of `HostLease`, for every instance |
| `BlockDeviceProofs` | types, the widget's assertion, and the refinement of `BlockStore` |
| `PreparationProofs` | `Configuration`, and the types of the three preparations together |
| `SmartGenerationProofs`, `ForegroundRunProofs`, `PlatformHdkProofs`, `Ec2LaunchProofs` | the safety properties of these modules |

Both pipelines are instances of one pattern, and `HostLease` says what both
promise: a machine that was acquired is recorded once the launch is confirmed,
and stays so until it is released. `BuildPipeline` and `RunPipeline` implement
it by the same refinement mapping, the lease as it can be read off the stamp and
the launcher's memory (`LeaseOf`).

### RemoteHosts and the code

| variable or operator | code |
|---|---|
| `inst[h]` | the machine's state: `held` runs because fslab launched or started it, `foreign` for another reason |
| `remote[h]` | the `.fslab` of the job directory on the host: whose wrapper stamp and `result.yaml` lie there |
| `job[b]`, `home[b]` | the wrapper of build or run `b`, the machine it was sent to |
| `LaunchInstance`, `StartOrConnect` | `_acquire_ephemeral`, `_acquire_managed` in `pipeline/host.py` |
| `CleanupRemote` | `cleanup_from_state` (and `release`, which does the same) |
| `GoesDown`, `OwnerStartsIt` | spot reclaim; what the owner of a machine does to it |

### BuildPipeline and the code

A step is what one command does between two points where something outside it
can change: a call to AWS or to the host, or an access to the stamp file. What
a command computes in between is part of the step.

| variable | code |
|---|---|
| `stamp` | `build.yaml`; `NoStamp` when `read_stamp` returns None. Writes are atomic (`write_stamp` renames) |
| `pc[c]` | where process `c` is in `build_bitstream`, `monitor_build` or `cmd_abandon_build` |
| `mem[c]` | the `BuildStamp` object the command holds; before it exists, `_lifecycle` |
| `afi[b]` | the image that the wrapper of build `b` submitted |

| actions | code |
|---|---|
| `StartBuild`, `GuardAgain` | the guard before the compile and after it (`build.py:491`, `bitbuilder.py:764`) |
| `RequestEphemeral/Managed/External`, `Acquired` | `provider.request`, split where the instance exists but is not reachable yet |
| `Setup`, `SetupFails` | connect to `stage_for_remote_build`; the `except` branch without a stamp |
| `WriteStamp`, `LaunchRemoteWrapper`, `VerifyWrapperStarted`, `MarkRunning`, `LaunchFails` | `bitbuilder.py:788-800`; the `except` branch with a stamp |
| `StartMonitor`, `Attach`, `AttachRefused` | `monitor_build` up to and including `verify_remote_id` and the promotion to running |
| `Tail`, `ConnectionLost`, `Pull`, `Teardown`, `TeardownFails`, `Persist`, `Reread` | `_attach_to_running`, `_on_wrapper_exit`, the re-read |
| `PollPending`, `PollSettled` | `_finalize_poll_loop`, `check_post_wrapper_status` |
| `StartAbandon`, `AbandonRelease/Mark/Wipe/Rmtree` | `cmd_abandon_build` |
| `Clean` | `cmd_clean`: removes `build/` with the stamp in it |
| `Interrupt` | Ctrl+C, SIGKILL, a lost session, an uncaught exception, at any point |
| `WrapperStamps/Exits/Dies`, `AfiSettles`, `HostGoesDown`, `OwnerStarts` | the script, AWS, spot reclaim, the machine's owner |

`build fpga` without `--detach` goes on to monitor the build; that is
`StartMonitor` by the same process. Abstracted: what is uploaded and built, time
(a time-out is a failure that may happen whenever the awaited event has not been
seen), ids (`make_build_id` never draws one twice), and the AWS client's retries.

One assumption is about the owner of a managed machine. He may stop it at any
time, but starts it again only when no copy of a stamp says that fslab started
it (`OwnerStarts`). Without that, a stamp left by an interrupted build would have
fslab stop a machine its owner runs: the code keeps "we started it" and cannot
see that it has been stopped and started since.

### RunPipeline and the code

Steps, processes and interruptions are as in `BuildPipeline`. What differs is in
the code: no phase after the wrapper, a failed launch that leaves its machine to
`abandon`, and finished stamps that the guard and the monitor delete.

| variable | code |
|---|---|
| `stamp`, `mem[c]`, `pc[c]` | `run.yaml`, the `RunStamp` a command holds, where it is |
| `stage[b]` | `CURRENT_STAGE` of the wrapper, its `agfi_load` split at the two waits |
| `slot[h]` | FPGA slot 0 of the host: a clear or a load is queued by one step and carried out by another (`SlotSettles`), and a busy slot refuses commands |

| actions | code |
|---|---|
| `StartSim`, `Heal` | `check_no_existing_run`, the deletion of a finished stamp as a step of its own |
| `RequestEphemeral/Managed/External`, `Acquired`, `Setup`, `SetupFails` | `launch_detached` up to the stamp; the `except` branch without one |
| `WriteStamp`, `LaunchRemoteWrapper`, `VerifyWrapperStarted`, `MarkRunning`, `LaunchFails` | `launch.py:187-205`; the `except` branch with a stamp |
| `StartMonitor`, `Attach`, `AttachRefused`, `Tail`, `ConnectionLost` | `monitor_run`, `_attach_to_running` |
| `Pull`, `Teardown`, `TeardownFails`, `Persist` | `_on_wrapper_exit` |
| `Reread`, `Discard` | the re-read and `_maybe_wipe_terminal_stamp`, read and unlink as two steps |
| `StartAbandon`, `AbandonRelease/Mark/Wipe` | `cmd_abandon_run` |
| `WrapperStamps/Clears/Loads/Drives/Exits/Dies` | the wrapper script, `set -e` and its EXIT trap |

Abstracted: the payloads and their hashes (a failed check is one of the ways the
wrapper exits), the local staging directory, time-outs (a wait that fails at any
time), and the EXIT trap, whose write of `result.yaml` and clear of the slot are
one step. In both pipelines the failure handler of a launch reads the stamp and
writes it back in one step; nothing but the two file accesses lies between.

### SmartGeneration and the code

| variable | code |
|---|---|
| `yaml`, `registry` | the input files; a hash is the content of `fslab.yaml` (see section 4) |
| `file[t]` | a rendered file: the configuration it was rendered from, the user's text, half a file, or none |
| `state` | `.fslab/state.json`: the hash, `generated_files`, the three keys of the gate |
| `product[p]` | `generated-src/` and `build/fpga`: the hash they are of, torn or absent; no gate is about the other build directories |
| `job` | the command that runs: step, options, configuration, hash |

| actions | code |
|---|---|
| `Load`, `CheckHash`, `CheckEdits`, `Render`, `Rendered`, `SaveGeneration` | `_run_generate` with `check_and_maybe_skip_generation` and `_render_templates`, one step per template |
| `Compile`, `SaveCompile` | the steps of `cmd_compile` and its last save; `_ensure_compiled` in `sim.py` |
| `Clean`, `Interrupt`, `EditYaml`, `EditRegistry`, `EditFile` | `cmd_clean`; Ctrl+C or a kill at any step; the user |

`fslab clean` removes the products and, without `--all`, leaves `state.json`, so
the gate of `--skip-compile` stays open; the next step of the build fails for
want of files. One command runs at a time: nothing in the code is meant for two.

### ForegroundRun and the code

`pc` is the statement of the one process, `mem` its locals (`host`, the action
that `release` undoes, the result dictionary, the exception on its way out).
`Setup`, `Captured` and `Final` are the parts of `run_foreground` before its
`try`, inside it, and in its `finally`; `Breaks` says where an exception goes
from each. `handler`, `release` and `write` are the clauses of
`run_simulation_foreground`. The FPGA slot is that of `RunPipeline`. `slotdir`
is the directory on the host, which a reused machine keeps; payloads go there
one by one and a broken transfer leaves a part. Time-outs of the two waits are
taken at any time while the slot has not reached the awaited state.

### PlatformHdk, Ec2Launch and Configuration and the code

`PlatformHdk` is `ensure_platform` and what it calls on one machine, build after
build. A tree is the set of versions its files come from: rsync replaces file by
file, so an upload that breaks off adds its version to the set. `Ec2Launch` is
`launch_instance` and `wait_for_ssh`, one action per AWS call. `Configuration`
is `_internal_load_and_validate` in its order (project file, registry, merge,
cross-checks, references) and then `from_validated` of either configuration; a
check of a single field is the Boolean `fields` of its block, while ids, host
types, paths and references are kept. `load_and_validate` caches its result for
the process, which is `LoadAgain`. The three share no state; `Preparation`
is any one of them, so that one run checks all.

### BlockDevice and the code

A step of the target is one cycle of the widget (`Cycle`), which happens only
when the widget `Fires`. A step of the driver is one access to the widget's
registers, or one iteration of a loop of `tick` that touches its own state; so
target cycles fall between any two. `job[t]` is the target's side of tag `t`.
`writesDue` and `readsDue` are the latency pipes: latency is programmable, so a
transaction may become due at any later cycle, in order within its pipe.
`BlockDevice` implements `BlockStore`: a read takes effect when the driver reads
the file, a write when it writes it (`Phase`, `Answer`).

## 3. Properties and runs

| run | instance | shows |
|---|---|---|
| `build_single` | 1 process, 2 builds, 2 launchable machines; fair | `TypeOK`; `OneBuildInFlight`; `StatusForward`; `RunningSettles` |
| `build_reuse` | 1 process, 2 builds, one launched, one managed, one external machine | `ForeignUntouched`; `LeaseSpec` |
| `build_crowd` | 2 processes, 2 builds, 2 launchable machines, and `clean` | `CleanupTrusted`; `SuccessIsOwn`; `TeardownAfterExit` |
| `build_finalize` | 1 process, 1 build, no abandon; fair | violates `FinalizeResumes` |
| `run_single` | 1 process, 2 runs, 2 launchable machines; fair | `TypeOK`; `HandleKept`; `LeaseSpec`; `RunningSettles` |
| `run_reuse` | 1 process, 2 runs, one managed and one external machine | `LeaseSpec` |
| `run_crowd` | 2 processes, 2 runs, 2 launchable machines | `CleanupTrusted`; `SuccessIsOwn`; `TeardownAfterExit`; `SlotIsOwn` |
| `generation` | 2 contents of `fslab.yaml` and of the registries, 2 templates, 2 build types | `TypeOK`; `GateIsOwn`; `TrackedIsRendered`; `EditsGuarded` |
| `generation_edits` | 1 template, 1 build type | violates `EditsSurvive` |
| `foreground` | 2 runs, one launched and one managed machine, one verified payload with 2 contents; fair | `TypeOK`; `SlotIsOwn`; `SuccessIsOwn`; `VerifiedPayload`; `HeldIsKnown`; `ForeignUntouched`; `RunEnds` |
| `preparation` | 2 launching commands, 2 VPCs, 5 AMIs; or 2 HDK versions, 2 paths, all host models; or one process with the projects and registries of `MCPreparation` | `PreparationTypeOK`; `ClosedIsPending`; `VolumesAsAsked`; `BuildsOnItsHdk`; `StampIsEarned`; `ValidatedResolves`; `TrackersAddressed` |
| `blockdev` | 2 tags, 2 beats a sector, buffers of one item; fair | `TypeOK`; `DataIsExpected`; `ActsAsStore`; `TransactionsEnd` |

In the build pipeline `CleanupTrusted` excepts failed launches; in the run
pipeline, whose handler does not touch `cleanup_done`, it holds without
exception. `HandleKept` is the property the guard's self-healing lives by: the
stamp of a machine is neither deleted nor replaced while the machine is held.
`SlotIsOwn` speaks of launched machines: on others the slot is shared with
whoever else uses the machine, an abandoned run's wrapper included.

The properties of the other modules, and what they except:

- `GateIsOwn`: an open gate of `--skip-compile` never stands for products of
  another configuration. Products may be torn or gone, since a failed recompile
  leaves the gate open, and a compile with `--skip-rtl` or `--skip-driver` opens
  it for whatever was there.
- `EditsGuarded`: a file whose record in `state.json` differs from it is not
  written without `--force`. `EditsSurvive`, which does not ask for a record, is
  what the code's docstring says, and false (section 4).
- `HeldIsKnown`: a machine that fslab holds is known to the process that will
  release it. A request that fails after it launched the machine, a release that
  fails, and a kill are excepted; `lost` records them.
- `VerifiedPayload` speaks of payloads that keep their name on the host and lie
  in `payloads/`: of others the two checks look at another file.
- `RunEnds`: every run ends or is in its driver, whatever the slot does.
- `BuildsOnItsHdk`, `StampIsEarned`: a build goes ahead on the complete HDK of
  its version, although the only evidence is a stamp. Excepted are external
  machines without a stamp, where the user vouches for the tree, and paths on
  which an upload of another version broke off: going back to the stamped
  version there skips the upload of a mixed tree.
- `ClosedIsPending`: a security group that is not open has a command about to
  open it, or one was cut off just there, which leaves it closed for good.
- `VolumesAsAsked`: sizes, types, encryption and IOPS of all volumes, and a
  filesystem that fills what was grown.
- `ValidatedResolves`: what passed validation resolves, on platforms with a
  bitbuilder; on others `target.run` is not looked at and may crash later.
- `TrackersAddressed`: tags are wide enough for the trackers, in designs that
  declare parameters; others are not checked.
- `ActsAsStore`: the block device is an atomic store; `TransactionsEnd`: stalls
  and full queues never wait for each other in a circle. `DataIsExpected`: the
  widget's assertion on unexpected beats holds.

Why the bounds are enough. Two builds are what it takes for one build's stamp,
result or machine to be taken for another's; a third adds no new pair. Two
processes give every race of two commands. The `single` and `reuse` runs have
one process because their properties are about commands that run one after the
other, broken off anywhere: with two at a time the first of them is false
(section 4). Ids and launchable machines are used
up, which bounds the number of builds and runs; the system then stops, so the
runs where that happens check no deadlock (`CHECK_DEADLOCK FALSE`).

In `generation` two contents are the old and the new one, two templates one that
is modified and one that is not, two build types share `generated-src/`. Two
runs of `foreground` are the earlier one that leaves its traces on a reused
machine and the later one. In `preparation` two commands give the races for the group, two VPCs the
one asked for and the default one, two versions a move and the way back; the
AMIs are the shapes the code tells apart (no data volume, several, one, a root
that is not EBS-backed). Buffers of one item make every stall of the block
device happen, and two beats make a transaction that can be torn; the real
depths (10, 32, 32, 4) and 64 beats only make full buffers rarer.

Fairness (`FairSpec`). Every command's next step is taken unless the user breaks
it off: weak fairness for abandon, strong for the monitor's steps, since a user
who detaches comes back and the pipeline is made for that. Wrappers and images
get done. No fairness is assumed of launching, of cleaning up successfully, or
of abandoning, and none of `Interrupt` or a machine going down. A foreground
run (`FairSpec` of `ForegroundRun`) takes its steps, and an SSH or EC2 call on a
machine that is gone ends in an error; nothing is assumed of the FPGA slot or
the driver. In `BlockDevice` the simulation loop calls `tick` for ever (weak
fairness of `Driver`), and the target accepts responses, sends the beats it owes
and lets latencies end again and again (strong fairness of `Responds`, `Sends`
and `TakesUp`, since a stalled widget disables them for a while).

`RunningSettles` excludes a wrapper that was killed and a machine that is down:
then nothing writes `result.yaml`, and the build stays at running until it is
abandoned, as the code intends.

## 4. What the code does not do

Two runs show the code at odds with its own documents; the quotes are in
`PROJECT.json`. A build at finalizing cannot be resumed once its machine is
gone, which is always the case for a launched one (`build_finalize`). After any
build `state.json` has no record of the rendered files, so the next generation
overwrites the user's edits unasked (`generation_edits`).

Other departures that modelling brought up. The properties above except them by
name, or the instance of their run leaves them out:

- A failed launch of a build records `cleanup_done` without cleaning up
  (`bitstream/bitbuilder.py:825`, the call above it is commented out).
- `result.yaml` is believed without its `build_id`: on a machine that is reused,
  the wrapper of an abandoned build can report for the next one
  (`bitstream/monitor.py:187`).
- The guard against a second build is a check without a lock: two launchers that
  pass it run two builds (`bitstream/bitbuilder.py:764`).
- The slower of two monitors of one run overwrites the stamp of the next run
  (`runtime/monitor_run.py:202`).
- `abandon run` does not end a run on a machine that fslab neither launched nor
  started (`commands/abandon.py:278`).
- A renamed payload is checked under its local basename, not as the file the
  driver reads (`runtime/payloads.py:345`).
- Registry files never enter the hash: `_collect_registry_paths` looks for
  attributes that the merged registry does not have (`commands/build.py:945`).
- `advanced.custom_registries` is always refused: the validator makes a list of
  it, which the annotation does not admit (`schemas/project.py:422`).
- In the widget, the first beat of a write in the very cycle of its request is
  taken for the last beat of the previous write of that tag, since the counter
  keeps its 1 (`BlockDeviceBridgeModule.scala:104`). With `SameCycle = TRUE` TLC
  finds `DataIsExpected` violated, and a deadlock behind the assertion; types and
  `ActsAsStore` hold either way (section 5). `blockdev` is about targets that
  send the request first.

## 5. What is proved

`BuildPipelineProofs` proves, for any sets of processes, builds and machines:

- `TypeCorrect`: `Spec => []TypeOK`.
- `CleanupTrustedAlways`: `Spec => []CleanupTrusted`. The property speaks of
  the stamp on disk, but any process may write its own copy there, so the
  inductive invariant `CleanupInv` says it of every copy (`Trusted`), and
  `Careful` says who may hold which copy: a process that will write its copy
  back with another status holds none that a failed launch has marked, and one
  about to mark a build abandoned has seen its machine terminated. A terminated
  machine stays so (`TerminatedStays`), which is what makes old copies harmless.
- `SuccessIsOwnAlways`: `Spec => []SuccessIsOwn`.
- `TeardownAfterExitAlways`: `Spec => []TeardownAfterExit`.

  Neither the monitor nor the puller looks at whose `result.yaml` it has found
  (on a machine that was not launched that is a bug, see section 4). On a
  launched one it is nevertheless the build's own, and `OwnInv` says why:
  the machine belongs to one launcher at a time and then to one build for ever
  (`HostsAreOwn`), an id is drawn once, launched once by the process that drew
  it, and kept with its machine by every copy of the stamp (`IdsAreOwn`); so
  what lies on the machine was written by that build's wrapper, after which it
  is over, and a copy of the stamp repeats nothing else (`ResultsAreOwn`). The
  proof has a lemma for what may change each variable (`JobsChange`,
  `HomesChange`, `RemotesChange`, `ImagesChange`), one for each fact that is
  never undone (`JobsOneWay`, `HomeStays`, `ImageStays`, `AbsentLeft`), and one
  (`OwnOneStep`) that reduces the step of a command to what it writes itself.
  TLC checked `OwnInv` on the instance of `build_crowd` before it was proved.
- `ForeignUntouchedAlways`: `Spec => ForeignUntouched`. `ForeignInv` says that
  no copy of a stamp, on disk or in memory, names a machine its owner runs as
  one that fslab started (`MayStop`); only such a copy leads to a stop.

The other three are about commands that run one after the other, each broken
off anywhere, for any numbers of builds and machines:

- `OneBuildInFlightAlways`: `OneAtATime /\ NoClean /\ Spec => []OneBuildInFlight`.
- `StatusForwardAlways`: `OneAtATime /\ Spec => StatusForward`.
- `LeaseSpecAlways`: `OneAtATime /\ NoClean /\ Spec => LeaseSpec`.

  The hypotheses are needed: of two processes TLC finds all three violated, and
  of one process with `clean`, which deletes the stamp of whatever runs, the
  first and the last. `AloneInv` relates the one copy in memory to the stamp
  (`InStep`): they are equal, but for the outcome and the release that the
  monitor has yet to write (`teardown`, `persist`), and a launcher has no stamp
  against it. `FlightInv` adds that a wrapper that still runs on a launched
  machine is the stamped build's, and that there is none when `abandon` wipes
  the stamp. For the refinement, a machine's lease is read off whoever names it
  (`LeaseCases`), a step of `HostLease` moves one lease (`LeaseMoves`), and each
  action is one of a few kinds of steps: it takes a machine (`TakeStep`),
  records it (`RecordStep`), confirms it (`ConfirmStep`), releases it
  (`CleanupLease`, `UnnameStep`), forgets it (`WipeStep`, `LoseStep`) or leaves
  all leases alone (`QuietStep`). TLC checked `AloneInv`, `FlightInv` and
  `ForeignInv` on the instances of `build_single` and `build_reuse`.

`RunPipelineProofs` proves of `RunPipeline`, for the same parameters:

- `TypeCorrect`: `Spec => []TypeOK`.
- `CleanupTrustedAlways`: `Spec => []CleanupTrusted`, here without exception.
  `CleanupInv` says again that every copy is right, and of a process about to
  mark a run abandoned that its machine is terminated; `LaunchedOnce` makes old
  copies harmless, and `CleanupOneStep` leaves of a command's step only the
  stamp and the memory of that command to look at.
- `SlotIsOwnAlways`: `Spec => []SlotIsOwn`. `HostsAreOwn` says that a launched
  machine belongs to one launcher, then to one run (`NoNewClaim`: only the
  launch and the draw of an id give it to anyone), so that nobody else's clear
  or load comes between; `LoadIsOwn` says what the slot holds from the moment
  the load is queued, which is what makes the wait for "loaded" a wait for this
  run's image. TLC checked both on the instances of `run_crowd` and `run_reuse`.
- `SuccessIsOwnAlways`, `TeardownAfterExitAlways`: `OwnInv` is that of the builds,
  with two differences that the code makes. A run has no phase after its
  wrapper, so success must be traced to the exit of the driver itself
  (`Reported`, `WrittenAt`); and the removal of what an earlier run left on the
  machine may fail unnoticed (`Setup`), which does no harm on a launched one,
  since nobody else has written there.
- `HandleKeptAlways`: `OneAtATime /\ Spec => HandleKept`, and `LeaseSpecAlways`:
  `OneAtATime /\ Spec => LeaseSpec`, again of commands that run one after the
  other; with two processes TLC refutes both. `AloneInv` is that of the builds,
  and says besides that `cleanup_done` is right of started machines, too, which
  is why a finished stamp may be deleted (`heal`, `discard`, `wipe`).

`SmartGenerationProofs` proves type correctness, `GateIsOwn`,
`TrackedIsRendered` and `EditsGuarded` of `SmartGeneration`, for any contents,
templates and build types. The invariant `GenInv` follows a command through its
steps: the hash it holds is of the configuration it rendered (`HashKnown`),
`state.json` has that hash from the first save on (`HashSaved`), what it has
rendered or compiled so far is of that hash (`RenderTold`, `CompileTold`), and
the files it has still to write are unmodified (`EditsChecked`).

`ForegroundRunProofs` proves `TypeOK`, `SlotIsOwn`, `SuccessIsOwn`,
`HeldIsKnown`, `VerifiedPayload` and `ForeignUntouched` of `ForegroundRun`, for
any runs, machines and projects, so also for the payload sets and verification
modes that the run's instance leaves out. `RunInv` says which wrapper belongs to
the process at each statement (`JobsTold`), what the slot holds once the load
has been queued (`SlotTold`), what the slot directory holds once the uploads are
done (`SumsTold`), that what the process will release is not foreign
(`NotForeign`), and that after the release nothing is held (`Released`).
`RunKnownStep` is proved first; the other parts build on it, each by a lemma
that names the actions that disturb it and one that disposes of the rest
(`SlotIdleKeeps`, `SumsIdleKeeps`, `HeldIdleKeeps`).

`PlatformHdkProofs` proves type correctness, `StampIsEarned` and
`BuildsOnItsHdk`, for any versions and paths. `StampsTold` is the stronger form
of the former that an upload in progress preserves, `UploadTold` says what the
steps behind it have written, `AmiWhole` that a baked AMI comes from a finished
build, `Checked` carries the property over the check of prerequisites.

`Ec2LaunchProofs` proves `ClosedIsPending` for any commands and VPCs, and
`VolumesAsAsked` for every AMI and request: `VolumeFacts`, about the operators of
`Volumes`, is the computation, `LaunchInv` the little that the steps need.

`PreparationProofs` proves of `Configuration`, for any registries and projects,
`ValidatedResolves` and `TrackersAddressed`. `ResolveInv` and `TagInv` carry what
validation has found over the changes that merging, synchronising and resolving
make to the project (`MergeKeeps`, `SyncKeeps`, `SourcedShape`). Its theorem
`TrackersAddressedAlways` has a hypothesis, `BitsSuffice(Nat)`: n is below 2 to
the power of its bit length, and of anything greater. That is induction over the
numbers, which the provers cannot do; TLC evaluates it up to 20
(`BitsSufficeHere`). `PreparationTypeCorrect` puts the types of the three
preparations together.

`BlockDeviceProofs` proves of `BlockDevice`, for any tags, values, beats and
depths of the buffers:

- `TypeCorrect`: `Spec => []TypeOK`, so no side writes to a full buffer. `Typed`
  says more, among it that a write which owes beats has a counter above 0.
- `DataIsExpectedAlways`: `Spec => []DataIsExpected` if `SameCycle = FALSE`. A
  beat that comes is one that its write still owes, and then the counter is not 0.
- `ActsAsStoreAlways`: `Spec => ActsAsStore`. `StoreInv` says where a transaction
  is: as a request, of which nothing else is on the way (`AskingInv`), as a block
  of answers (`AnswersInv`), as beats that are numbered in the order they were
  sent, the taken ones first (`ComingInv`, `TrackerInv`), or as an
  acknowledgement (`AckedInv`). Each buffer of the widget and the driver's queue
  behind or before it are read as one row (`rows`), and what only passes from one
  to the other is no change (`RowPass`). Then a cycle is the store's `Exchange`
  (`CycleExchanges`), `do_read` and the last beat of `handle_data` are its
  `TakeEffect` (`DoReadTakesEffect`, `HandleDataTakesEffect`), and all else
  stutters (`StoreStutters`). TLC checked `StoreInv` on the instance of
  `blockdev` before it was proved.

The assumptions are the constants' own: the three kinds of machines are
disjoint, and `None` is none of the ids, machines or actions; absent and torn
files are told from contents; sizes are numbers.

Every safety property, action property and refinement that a passing run checks
is stated by one of these theorems. Only model-checked is liveness
(`RunningSettles` of both pipelines, `RunEnds`, `TransactionsEnd`): it depends on
fairness and on when an action is enabled, which is out of the prover's reach. A
theorem with a hypothesis says less than the property without it: the one-process
ones as above, `TrackersAddressedAlways` as long as `BitsSuffice(Nat)` is believed.

## 6. Not modelled

- **The torn read of `result.yaml`.** The wrapper writes it in one step here. The
  monitor leaves the writer one to three seconds; whether that is enough is a
  matter of wall-clock time.
- **Two commands at once in smart generation.** Nothing in the code is meant for
  it, and nothing keeps it from happening.
- **The block device beyond one sector**: offsets and lengths (their sum wraps at
  32 bits in the driver's range check), a target reset in mid-flight (it clears
  the widget's queues, not the driver's), the beat counters' undefined value at
  power-on.
- **UART, loader and top level of the bridges**: bit-level shifting around the
  same kind of queues, and a loop.
- **Single-field validation**, user plug-ins and feature entries of the registry,
  the RTL parser, templates, display, scaffolding, packaging and the container
  launcher: text in, text out, with no state that two steps could disagree on.
- **The publisher**: arguments for the remote wrapper; what it does is a stage of
  the wrapper that succeeds or fails.

Worth proving next: what of the one-process results survives two processes (the
lease of a managed machine, with the races of section 4 excepted by name); that
launchers of both pipelines on one set of machines keep out of each other's way.
