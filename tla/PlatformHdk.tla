----------------------------- MODULE PlatformHdk -----------------------------
(***************************************************************************)
(* The platform HDK on a build machine (bitstream/buildhost.py): whether   *)
(* `fslab build fpga` uploads it, in which order the upload writes the     *)
(* tree and the platform stamp, and what an upload that breaks off leaves  *)
(* behind.                                                                 *)
(*                                                                         *)
(* One machine, build after build.  A managed or external machine keeps    *)
(* its disk; an ephemeral one starts from the AMI, which the user may bake *)
(* from the disk of an earlier one.  Between builds the user moves to      *)
(* another HDK version, sets or drops remote_platform_path, or declares no *)
(* version at all.                                                         *)
(***************************************************************************)
EXTENDS HdkTree

VARIABLES
  kind,    \* the host model
  cfg,     \* the project: the HDK it ships, whether it declares its version,
           \* and where the HDK goes
  disk,    \* what is on the machine at each path
  ami,     \* the same of the AMI
  upload,      \* the statement the command is at
  force,   \* --upload-platform
  broken   \* history: at each path, the versions whose uploads broke off
           \* since the last complete one

platformVars == <<kind, cfg, disk, ami, upload, force, broken>>

Kind == {"external", "managed", "ephemeral"}

Config == [hdk : Version, declared : BOOLEAN, path : Path]

UploadLabel == {"idle", "ensure", "base", "template", "bootstrap", "stamp",
          "prereqs", "staged"}

PlatformTypeOK ==
  /\ kind \in Kind
  /\ cfg \in Config
  /\ disk \in [Path -> Hdk]
  /\ ami \in [Path -> Hdk]
  /\ upload \in UploadLabel
  /\ force \in BOOLEAN
  /\ broken \in [Path -> SUBSET Version]

\* Machines of ec2_launch and the AMI start empty; on an external one the user
\* may have put an HDK.
PlatformInit ==
  /\ kind \in Kind
  /\ cfg \in Config
  /\ ami = [p \in Path |-> NoHdk]
  /\ \/ disk = ami
     \/ /\ kind = "external"
        /\ \E v \in Version : disk = [ami EXCEPT ![cfg.path] = Installed(v, Nothing)]
  /\ upload = "idle"
  /\ force = FALSE
  /\ broken = [p \in Path |-> {}]

Here == disk[cfg.path]

-----------------------------------------------------------------------------
(* ensure_platform *)

\* getattr(cfg.host, "aws_fpga_version", None)
Expected == IF cfg.declared THEN cfg.hdk ELSE Nothing

\* The registry ships no default path for an external host.
DefaultConflict ==
  /\ kind # "external"
  /\ cfg.path # Default
  /\ disk[Default].stamp # Nothing

\* stamp.get("aws_fpga_version")
StampVersion == IF Here.stamp = Empty THEN Nothing ELSE Here.stamp

\* Mutant: any version will do.
MismatchUnstamped == Expected # Nothing /\ StampVersion = Nothing

Mismatch == Expected # Nothing /\ StampVersion # Expected

NeedsUpload ==
  \/ force
  \/ /\ ~DefaultConflict
     /\ kind # "external"
     /\ Here.stamp = Nothing \/ Mismatch

\* RegistryDefaultPathConflict, PlatformVersionMismatch.
Refused ==
  /\ ~force
  /\ \/ DefaultConflict
     \/ kind = "external" /\ Here.stamp # Nothing /\ Mismatch

BeginBuild ==
  /\ upload = "idle"
  /\ upload' = "ensure"
  /\ force' \in BOOLEAN
  /\ IF kind = "ephemeral"
     THEN disk' = ami /\ broken' = [p \in Path |-> {}]
     ELSE UNCHANGED <<disk, broken>>
  /\ UNCHANGED <<kind, cfg, ami>>

EnsurePlatform ==
  /\ upload = "ensure"
  /\ upload' = IF NeedsUpload THEN "base" ELSE IF Refused THEN "idle" ELSE "prereqs"
  /\ UNCHANGED <<kind, cfg, disk, ami, force, broken>>

-----------------------------------------------------------------------------
(* _do_upload *)

Put(hdk) == disk' = [disk EXCEPT ![cfg.path] = hdk]

\* An upload that breaks off: files of the new version among what was there.
Partly(files) == [files EXCEPT !.from = @ \cup {cfg.hdk}]

\* The command ends: SSH fails, or Ctrl+C.
BreakOff ==
  /\ upload' = "idle"
  /\ broken' = [broken EXCEPT ![cfg.path] = @ \cup {cfg.hdk}]

\* Mutant: a failed rsync of the base tree is a warning.
UploadBaseWarns ==
  /\ upload = "base"
  /\ Put([Here EXCEPT !.base = FilesOf(cfg.hdk)]) \/ Put([Here EXCEPT !.base = Partly(Here.base)])
  /\ upload' = "template"
  /\ UNCHANGED <<kind, cfg, ami, force, broken>>

UploadBase ==
  /\ upload = "base"
  /\ \/ Put([Here EXCEPT !.base = FilesOf(cfg.hdk)]) /\ upload' = "template" /\ UNCHANGED broken
     \/ Put([Here EXCEPT !.base = Partly(Here.base)]) /\ BreakOff
  /\ UNCHANGED <<kind, cfg, ami, force>>

UploadTemplate ==
  /\ upload = "template"
  /\ \/ Put([Here EXCEPT !.template = FilesOf(cfg.hdk)]) /\ upload' = "bootstrap" /\ UNCHANGED broken
     \/ Put([Here EXCEPT !.template = Partly(Here.template)]) /\ BreakOff
  /\ UNCHANGED <<kind, cfg, ami, force>>

\* The script may fail, which is a warning; uploading the script may not.
RunBootstrap ==
  /\ upload = "bootstrap"
  /\ \/ upload' = "stamp" /\ UNCHANGED broken
     \/ BreakOff
  /\ UNCHANGED <<kind, cfg, disk, ami, force>>

WriteStamp ==
  /\ upload = "stamp"
  /\ \/ /\ Put([Here EXCEPT !.stamp = IF cfg.declared THEN cfg.hdk ELSE Unknown])
        /\ upload' = "prereqs"
        /\ broken' = [broken EXCEPT ![cfg.path] = {}]
     \/ Put([Here EXCEPT !.stamp = Empty]) /\ BreakOff
  /\ UNCHANGED <<kind, cfg, ami, force>>

\* _validate_remote_prereqs asks for the directory of the template, no more.
ValidateRemotePrereqs ==
  /\ upload = "prereqs"
  /\ upload' = IF Here.template.from = {} THEN "idle" ELSE "staged"
  /\ UNCHANGED <<kind, cfg, disk, ami, force, broken>>

Finish ==
  /\ upload = "staged"
  /\ upload' = "idle"
  /\ UNCHANGED <<kind, cfg, disk, ami, force, broken>>

-----------------------------------------------------------------------------
(* The user, between builds. *)

EditConfig ==
  /\ upload = "idle"
  /\ cfg' \in Config
  /\ UNCHANGED <<kind, disk, ami, upload, force, broken>>

\* "run one normal build to completion on a fresh instance, then snapshot that
\* instance into an AMI"
BakeAmi ==
  /\ upload = "staged"
  /\ kind = "ephemeral"
  /\ ami' = disk
  /\ UNCHANGED <<kind, cfg, disk, upload, force, broken>>

PlatformNext ==
  \/ BeginBuild \/ EnsurePlatform
  \/ UploadBase \/ UploadTemplate \/ RunBootstrap \/ WriteStamp
  \/ ValidateRemotePrereqs \/ Finish
  \/ EditConfig \/ BakeAmi

PlatformSpec == PlatformInit /\ [][PlatformNext]_platformVars

-----------------------------------------------------------------------------
\* A build goes ahead on a complete HDK of the very version the project
\* declares, although uploads broke off at any point before it and the check is
\* of the stamp alone -- if the machine has a stamp at all, and no upload
\* of another version broke off since the last complete one.
BuildsOnItsHdk ==
  /\ upload = "staged" /\ cfg.declared
  /\ kind = "external" /\ ~force => Here.stamp # Nothing
  /\ broken[cfg.path] \subseteq {cfg.hdk}
  => Complete(Here, cfg.hdk)

\* A stamp that names a version lies on a complete tree of that version, or on
\* one that a later upload is under way in, or broke off (_write_stamp comes
\* last, and nothing takes the old stamp away first).
StampIsEarned ==
  \A p \in Path : disk[p].stamp \in Version =>
    \/ Complete(disk[p], disk[p].stamp)
    \/ broken[p] # {}
    \/ p = cfg.path /\ upload \in {"template", "bootstrap", "stamp"}
=============================================================================
