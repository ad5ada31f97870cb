----------------------------- MODULE RemoteHosts -----------------------------
(***************************************************************************)
(* The machines that builds and runs of fslab are sent to, and what every  *)
(* command may do to them: the host models of pipeline/host.py, and the    *)
(* EC2 calls behind them.  BuildPipeline and RunPipeline extend it.        *)
(***************************************************************************)
CONSTANTS
  Job,        \* the ids of builds or runs, each drawn once
  Ephemeral,  \* instances an ec2_launch host without instance_id may launch
  Managed,    \* instances named by the instance_id of an ec2_launch host
  External,   \* machines of the `external` host model
  None        \* no id, no host, no action

Host == Ephemeral \cup Managed \cup External

ASSUME HostKindsDisjoint ==
  /\ Ephemeral \cap Managed = {}
  /\ Ephemeral \cap External = {}
  /\ Managed \cap External = {}

ASSUME NoneIsNew ==
  /\ None \notin Job
  /\ None \notin Host
  /\ None \notin {"launched", "started", "connected"}

VARIABLES
  inst,   \* the state of each host
  remote, \* what is in the job directory's .fslab on each host
  job,    \* the wrapper script of each job
  home    \* the host each wrapper was sent to

-----------------------------------------------------------------------------
\* How fslab came by a machine, which decides how it is released.
Action == {"launched", "started", "connected"}

\* What result.yaml says: whose wrapper wrote it and whether it succeeded.
Result == [id : Job \cup {None}, ok : BOOLEAN]
NoResult == [id |-> None, ok |-> FALSE]

\* <job dir>/.fslab: the wrapper's own stamp and result.yaml.
RemoteDir == [owner : Job \cup {None}, result : Result]
EmptyDir == [owner |-> None, result |-> NoResult]

\* A host that fslab launched or started is "held"; one that runs for another
\* reason is "foreign".
InstState == {"absent", "stopped", "foreign", "held", "terminated"}
JobState == {"unused", "drawn", "starting", "running", "exited", "killed"}

HostsInit ==
  /\ inst \in [Host -> InstState]
  /\ \A h \in Ephemeral : inst[h] = "absent"
  /\ \A h \in Managed : inst[h] \in {"stopped", "foreign"}
  /\ \A h \in External : inst[h] = "foreign"
  /\ remote = [h \in Host |-> EmptyDir]
  /\ job = [b \in Job |-> "unused"]
  /\ home = [b \in Job |-> None]

\* The host answers SSH.
Up(h) == h \in Host /\ inst[h] \in {"held", "foreign"}

Live(b) == job[b] \in {"starting", "running"}

\* Every process on a machine dies with it.
KillJobsOn(h) ==
  job' = [b \in Job |-> IF home[b] = h /\ Live(b) THEN "killed" ELSE job[b]]

-----------------------------------------------------------------------------
\* provider.request

LaunchInstance(h) ==
  /\ inst[h] = "absent"
  /\ inst' = [inst EXCEPT ![h] = "held"]

\* A stopping instance is waited for until it is stopped, a pending one until
\* it runs; so both end in one of these two cases.
StartOrConnect(h, action) ==
  \/ /\ action = "started" /\ inst[h] = "stopped"
     /\ inst' = [inst EXCEPT ![h] = "held"]
  \/ /\ action = "connected" /\ Up(h)
     /\ inst' = inst

\* cleanup_remote: terminate what was launched, stop what was started, leave
\* alone what was found running.  Repeating it changes nothing.
CleanupRemote(action, h) ==
  CASE action = "launched" ->
         /\ inst' = [inst EXCEPT ![h] = "terminated"]
         /\ KillJobsOn(h)
    [] action = "started" /\ Up(h) ->
         /\ inst' = [inst EXCEPT ![h] = "stopped"]
         /\ KillJobsOn(h)
    [] OTHER -> UNCHANGED <<inst, job>>

-----------------------------------------------------------------------------
\* AWS reclaims a spot instance; the owner of another machine stops it.
GoesDown(h) ==
  /\ Up(h)
  /\ inst' = [inst EXCEPT ![h] = IF h \in Ephemeral THEN "terminated"
                                 ELSE "stopped"]
  /\ KillJobsOn(h)

\* The owner starts his machine again, though not one that fslab may still
\* have to stop: no copy of a stamp can tell that from having started it.
OwnerStartsIt(h, copies) ==
  /\ h \notin Ephemeral
  /\ inst[h] = "stopped"
  /\ \A s \in copies : ~(s.host = h /\ s.action = "started")
  /\ inst' = [inst EXCEPT ![h] = "foreign"]
=============================================================================
