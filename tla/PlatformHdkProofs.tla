-------------------------- MODULE PlatformHdkProofs --------------------------
(***************************************************************************)
(* What holds of PlatformHdk for any versions and any values of            *)
(* remote_platform_path: a stamp that names a version is earned, and a     *)
(* build goes ahead on its own HDK.                                        *)
(*                                                                         *)
(* The stamp is written last and never taken away first, so what it says   *)
(* of the tree has to be told together with what broke off since.          *)
(***************************************************************************)
EXTENDS PlatformHdk, TLAPS

-----------------------------------------------------------------------------
\* Types

LEMMA PartlyType ==
  ASSUME NEW files \in Files, NEW v \in Version
  PROVE  [files EXCEPT !.from = @ \cup {v}] \in Files
  BY DEF Files

LEMMA PlatformTypeInit == PlatformInit => PlatformTypeOK
<1> SUFFICES ASSUME PlatformInit PROVE PlatformTypeOK
  OBVIOUS
<1>1. NoHdk \in Hdk
  BY DEF NoHdk, NoFiles, Hdk, Files, Stamp
<1>2. \A v \in Version : Installed(v, Nothing) \in Hdk
  BY DEF Installed, FilesOf, Hdk, Files, Stamp
<1> QED BY <1>1, <1>2 DEF PlatformInit, PlatformTypeOK, UploadLabel

LEMMA PutType ==
  ASSUME PlatformTypeOK, NEW hdk \in Hdk, Put(hdk)
  PROVE  disk' \in [Path -> Hdk]
  BY DEF PlatformTypeOK, Put, Config

LEMMA PlatformTypeStep == PlatformTypeOK /\ [PlatformNext]_platformVars => PlatformTypeOK'
<1> SUFFICES ASSUME PlatformTypeOK, [PlatformNext]_platformVars PROVE PlatformTypeOK'
  OBVIOUS
<1> USE DEF PlatformTypeOK, UploadLabel
<1>1. CASE BeginBuild BY <1>1 DEF BeginBuild
<1>2. CASE EnsurePlatform BY <1>2 DEF EnsurePlatform
<1>3. Here \in Hdk /\ Here.base \in Files /\ Here.template \in Files
  BY DEF Here, Config, Hdk
<1>4. Partly(Here.base) \in Files /\ Partly(Here.template) \in Files
  BY <1>3, PartlyType DEF Partly, Config
<1>5. \A f \in Files : /\ [Here EXCEPT !.base = f] \in Hdk
                       /\ [Here EXCEPT !.template = f] \in Hdk
  BY <1>3 DEF Hdk
<1>6. \A s \in Stamp : [Here EXCEPT !.stamp = s] \in Hdk
  BY <1>3 DEF Hdk
<1>7. FilesOf(cfg.hdk) \in Files
  BY DEF FilesOf, Files, Config
<1>8. BreakOff => upload' \in UploadLabel /\ broken' \in [Path -> SUBSET Version]
  BY DEF BreakOff, Config
<1>9. CASE UploadBase
  <2>1. disk' \in [Path -> Hdk]
    BY <1>4, <1>5, <1>7, <1>9, PutType DEF UploadBase
  <2> QED BY <1>8, <1>9, <2>1 DEF UploadBase
<1>10. CASE UploadTemplate
  <2>1. disk' \in [Path -> Hdk]
    BY <1>4, <1>5, <1>7, <1>10, PutType DEF UploadTemplate
  <2> QED BY <1>8, <1>10, <2>1 DEF UploadTemplate
<1>11. CASE RunBootstrap BY <1>8, <1>11 DEF RunBootstrap
<1>12. CASE WriteStamp
  <2>1. disk' \in [Path -> Hdk]
    BY <1>6, <1>12, PutType DEF WriteStamp, Stamp, Config
  <2> QED BY <1>8, <1>12, <2>1 DEF WriteStamp
<1>13. CASE ValidateRemotePrereqs BY <1>13 DEF ValidateRemotePrereqs
<1>14. CASE Finish BY <1>14 DEF Finish
<1>15. CASE EditConfig BY <1>15 DEF EditConfig
<1>16. CASE BakeAmi BY <1>16 DEF BakeAmi
<1>17. CASE UNCHANGED platformVars BY <1>17 DEF platformVars
<1> QED BY <1>1, <1>2, <1>9, <1>10, <1>11, <1>12, <1>13, <1>14, <1>15, <1>16,
           <1>17 DEF PlatformNext

\* Every variable of the platform HDK has its type in every reachable state.
THEOREM PlatformTypeCorrect == PlatformSpec => []PlatformTypeOK
<1>1. PlatformInit => PlatformTypeOK BY PlatformTypeInit
<1>2. PlatformTypeOK /\ [PlatformNext]_platformVars => PlatformTypeOK' BY PlatformTypeStep
<1> QED BY <1>1, <1>2, PTL DEF PlatformSpec

-----------------------------------------------------------------------------
\* The inductive invariant

Uploading(p) == p = cfg.path /\ upload \in {"template", "bootstrap", "stamp"}

\* A stamped version is complete, unless the upload of another one is under
\* way or broke off.
StampsTold ==
  \A p \in Path :
    disk[p].stamp \in Version /\ broken[p] \subseteq {disk[p].stamp} =>
      \/ Complete(disk[p], disk[p].stamp)
      \/ Uploading(p) /\ cfg.hdk # disk[p].stamp

\* What the upload has behind it.
UploadTold ==
  /\ upload \in {"template", "bootstrap", "stamp"} => Here.base = FilesOf(cfg.hdk)
  /\ upload \in {"bootstrap", "stamp"} => Here.template = FilesOf(cfg.hdk)

\* The AMI has no tale of its own: it is baked from a disk that nothing broke
\* off on since it was booted.
AmiWhole ==
  /\ \A p \in Path : ami[p].stamp \in Version => Complete(ami[p], ami[p].stamp)
  /\ kind = "ephemeral" /\ upload # "idle" => \A p \in Path : broken[p] = {}

\* What the check of the stamp has established.
Checked ==
  /\ upload \in {"prereqs", "staged"} /\ cfg.declared
  /\ kind = "external" /\ ~force => Here.stamp # Nothing
  /\ broken[cfg.path] \subseteq {cfg.hdk}
  => Complete(Here, cfg.hdk)

HdkInv == PlatformTypeOK /\ StampsTold /\ UploadTold /\ AmiWhole /\ Checked

LEMMA HdkInit == PlatformInit => HdkInv
<1> SUFFICES ASSUME PlatformInit PROVE HdkInv
  OBVIOUS
<1>1. PlatformTypeOK BY PlatformTypeInit
<1>2. \A p \in Path : ami[p].stamp \notin Version
  BY NewValues DEF PlatformInit, NoHdk
<1>3. \A p \in Path : disk[p].stamp \notin Version
  <2>1. CASE disk = ami BY <1>2, <2>1
  <2>2. CASE disk # ami
    <3> PICK v \in Version : disk = [ami EXCEPT ![cfg.path] = Installed(v, Nothing)]
      BY <2>2 DEF PlatformInit
    <3> SUFFICES ASSUME NEW p \in Path PROVE disk[p].stamp \notin Version
      OBVIOUS
    <3>1. disk[p] = ami[p] \/ disk[p] = Installed(v, Nothing)
      BY DEF PlatformInit
    <3>2. Installed(v, Nothing).stamp = Nothing BY DEF Installed
    <3> QED BY <1>2, <3>1, <3>2, NewValues
  <2> QED BY <2>1, <2>2
<1>4. StampsTold BY <1>3 DEF StampsTold
<1>5. UploadTold BY DEF PlatformInit, UploadTold
<1>6. AmiWhole BY <1>2 DEF PlatformInit, AmiWhole
<1>7. Checked BY DEF PlatformInit, Checked
<1> QED BY <1>1, <1>4, <1>5, <1>6, <1>7 DEF HdkInv

\* Files of a version among files of the same version change nothing.
LEMMA PartlySame ==
  ASSUME NEW v
  PROVE  [FilesOf(v) EXCEPT !.from = @ \cup {v}] = FilesOf(v)
<1> DEFINE f == FilesOf(v)
<1>1. f \in [from : {{v}}, whole : {TRUE}] /\ f.from = {v}
  BY DEF FilesOf
<1>2. f.from \cup {v} = f.from
  BY <1>1
<1> HIDE DEF f
<1>3. [f EXCEPT !.from = f.from] = f
  BY <1>1
<1>4. [f EXCEPT !.from = @ \cup {v}] = f
  BY <1>2, <1>3
<1> QED BY <1>4 DEF f

\* A write changes one directory.
LEMMA PutFacts ==
  ASSUME PlatformTypeOK, NEW hdk, Put(hdk), UNCHANGED cfg
  PROVE  /\ disk'[cfg.path] = hdk /\ Here' = hdk
         /\ \A p \in Path \ {cfg.path} : disk'[p] = disk[p]
  BY DEF PlatformTypeOK, Put, Here, Config

\* An upload of cfg.hdk that breaks off spoils no stamp of cfg.hdk itself.
LEMMA BrokenOff ==
  ASSUME HdkInv, BreakOff, UNCHANGED <<kind, cfg, ami, force>>,
         upload \notin {"prereqs", "staged", "idle"},
         \A p \in Path \ {cfg.path} : disk'[p] = disk[p],
         disk'[cfg.path].stamp = cfg.hdk =>
           /\ disk[cfg.path].stamp = cfg.hdk \/ upload = "stamp"
           /\ Complete(disk[cfg.path], cfg.hdk) => Complete(disk'[cfg.path], cfg.hdk)
  PROVE  StampsTold' /\ UploadTold' /\ AmiWhole' /\ Checked'
<1> USE DEF HdkInv, PlatformTypeOK
<1>1. cfg.path \in Path /\ cfg.hdk \in Version BY DEF Config
<1>2. /\ broken'[cfg.path] = broken[cfg.path] \cup {cfg.hdk}
      /\ \A p \in Path \ {cfg.path} : broken'[p] = broken[p]
  BY <1>1 DEF BreakOff
<1>3. StampsTold'
  <2> SUFFICES ASSUME NEW p \in Path, disk'[p].stamp \in Version,
                      broken'[p] \subseteq {disk'[p].stamp}
               PROVE  Complete(disk'[p], disk'[p].stamp)
    BY DEF StampsTold
  <2>1. CASE p # cfg.path
    BY <1>2, <2>1 DEF StampsTold, Uploading
  <2>2. CASE p = cfg.path
    <3>1. disk'[p].stamp = cfg.hdk /\ broken[p] \subseteq {cfg.hdk}
      BY <1>2, <2>2
    <3>2. CASE disk[p].stamp = cfg.hdk
      BY <1>1, <2>2, <3>1, <3>2 DEF StampsTold
    <3>3. CASE upload = "stamp"
      BY <2>2, <3>1, <3>3 DEF UploadTold, Complete, Here
    <3> QED BY <2>2, <3>1, <3>2, <3>3
  <2> QED BY <2>1, <2>2
<1>4. upload' = "idle" BY DEF BreakOff
<1> QED BY <1>3, <1>4 DEF UploadTold, AmiWhole, Checked

LEMMA HdkStep == HdkInv /\ [PlatformNext]_platformVars => HdkInv'
<1> SUFFICES ASSUME HdkInv, [PlatformNext]_platformVars
             PROVE  StampsTold' /\ UploadTold' /\ AmiWhole' /\ Checked'
  BY PlatformTypeStep DEF HdkInv
<1> USE DEF HdkInv
<1>0. cfg.path \in Path /\ cfg.hdk \in Version /\ Here = disk[cfg.path]
  BY DEF PlatformTypeOK, Config, Here
<1>1. CASE BeginBuild
  <2> USE <1>1 DEF BeginBuild, PlatformTypeOK
  <2>1. CASE kind = "ephemeral"
    BY <2>1 DEF StampsTold, UploadTold, AmiWhole, Checked
  <2>2. CASE kind # "ephemeral"
    BY <2>2 DEF StampsTold, Uploading, UploadTold, AmiWhole, Checked
  <2> QED BY <2>1, <2>2
<1>2. CASE EnsurePlatform
  <2> USE <1>2 DEF EnsurePlatform
  <2>1. StampsTold' BY DEF StampsTold, Uploading, Complete
  <2>2. UploadTold' /\ AmiWhole' BY DEF UploadTold, AmiWhole
  <2>3. Checked'
    <3> SUFFICES ASSUME upload' = "prereqs", cfg.declared,
                        kind = "external" /\ ~force => Here.stamp # Nothing,
                        broken[cfg.path] \subseteq {cfg.hdk}
                 PROVE  Complete(Here, cfg.hdk)
      BY DEF Checked, Here
    <3>1. ~NeedsUpload /\ ~Refused OBVIOUS
    <3>2. ~Mismatch /\ Here.stamp # Nothing
      BY <3>1 DEF NeedsUpload, Refused, PlatformTypeOK, Kind
    <3>3. Here.stamp = cfg.hdk
      BY <1>0, <3>2, NewValues DEF Mismatch, Expected, StampVersion
    <3> QED BY <1>0, <3>3 DEF StampsTold, Uploading
  <2> QED BY <2>1, <2>2, <2>3
<1>3. CASE UploadBase
  <2> USE <1>3 DEF UploadBase
  <2>1. ASSUME Put([Here EXCEPT !.base = FilesOf(cfg.hdk)]), upload' = "template",
               UNCHANGED broken
        PROVE  StampsTold' /\ UploadTold' /\ AmiWhole' /\ Checked'
    <3> DEFINE hdk == [Here EXCEPT !.base = FilesOf(cfg.hdk)]
    <3>1. /\ disk'[cfg.path] = hdk /\ Here' = hdk
          /\ \A p \in Path \ {cfg.path} : disk'[p] = disk[p]
      BY <2>1, PutFacts
    <3>2. /\ hdk.stamp = Here.stamp /\ hdk.base = FilesOf(cfg.hdk)
          /\ hdk.template = Here.template
      BY <1>0 DEF PlatformTypeOK, Hdk
    <3> HIDE DEF hdk
    <3>3. StampsTold'
      BY <1>0, <2>1, <3>1, <3>2 DEF StampsTold, Uploading, Complete
    <3> QED BY <2>1, <3>1, <3>2, <3>3 DEF UploadTold, AmiWhole, Checked
  <2>2. ASSUME Put([Here EXCEPT !.base = Partly(Here.base)]), BreakOff
        PROVE  StampsTold' /\ UploadTold' /\ AmiWhole' /\ Checked'
    <3> DEFINE hdk == [Here EXCEPT !.base = Partly(Here.base)]
    <3>1. /\ disk'[cfg.path] = hdk
          /\ \A p \in Path \ {cfg.path} : disk'[p] = disk[p]
      BY <2>2, PutFacts
    <3>2. /\ hdk.stamp = Here.stamp /\ hdk.base = Partly(Here.base)
          /\ hdk.template = Here.template
      BY <1>0 DEF PlatformTypeOK, Hdk
    <3>3. Here.base = FilesOf(cfg.hdk) => Partly(Here.base) = FilesOf(cfg.hdk)
      BY PartlySame DEF Partly
    <3> HIDE DEF hdk
    <3>4. Complete(Here, cfg.hdk) => Complete(hdk, cfg.hdk)
      BY <3>2, <3>3 DEF Complete
    <3> QED BY <1>0, <2>2, <3>1, <3>2, <3>4, BrokenOff
  <2> QED BY <2>1, <2>2
<1>4. CASE UploadTemplate
  <2> USE <1>4 DEF UploadTemplate
  <2>1. ASSUME Put([Here EXCEPT !.template = FilesOf(cfg.hdk)]),
               upload' = "bootstrap", UNCHANGED broken
        PROVE  StampsTold' /\ UploadTold' /\ AmiWhole' /\ Checked'
    <3> DEFINE hdk == [Here EXCEPT !.template = FilesOf(cfg.hdk)]
    <3>1. /\ disk'[cfg.path] = hdk /\ Here' = hdk
          /\ \A p \in Path \ {cfg.path} : disk'[p] = disk[p]
      BY <2>1, PutFacts
    <3>2. /\ hdk.stamp = Here.stamp /\ hdk.template = FilesOf(cfg.hdk)
          /\ hdk.base = Here.base
      BY <1>0 DEF PlatformTypeOK, Hdk
    <3> HIDE DEF hdk
    <3>3. StampsTold'
      BY <1>0, <2>1, <3>1, <3>2 DEF StampsTold, Uploading, Complete
    <3> QED BY <2>1, <3>1, <3>2, <3>3 DEF UploadTold, AmiWhole, Checked
  <2>2. ASSUME Put([Here EXCEPT !.template = Partly(Here.template)]), BreakOff
        PROVE  StampsTold' /\ UploadTold' /\ AmiWhole' /\ Checked'
    <3> DEFINE hdk == [Here EXCEPT !.template = Partly(Here.template)]
    <3>1. /\ disk'[cfg.path] = hdk
          /\ \A p \in Path \ {cfg.path} : disk'[p] = disk[p]
      BY <2>2, PutFacts
    <3>2. /\ hdk.stamp = Here.stamp /\ hdk.template = Partly(Here.template)
          /\ hdk.base = Here.base
      BY <1>0 DEF PlatformTypeOK, Hdk
    <3>3. Here.template = FilesOf(cfg.hdk) =>
            Partly(Here.template) = FilesOf(cfg.hdk)
      BY PartlySame DEF Partly
    <3> HIDE DEF hdk
    <3>4. Complete(Here, cfg.hdk) => Complete(hdk, cfg.hdk)
      BY <3>2, <3>3 DEF Complete
    <3> QED BY <1>0, <2>2, <3>1, <3>2, <3>4, BrokenOff
  <2> QED BY <2>1, <2>2
<1>5. CASE RunBootstrap
  <2>1. CASE BreakOff BY <1>5, <2>1, BrokenOff DEF RunBootstrap
  <2>2. CASE upload' = "stamp" /\ UNCHANGED broken
    BY <1>5, <2>2 DEF RunBootstrap, StampsTold, Uploading, UploadTold, AmiWhole,
       Checked, Here
  <2> QED BY <1>5, <2>1, <2>2 DEF RunBootstrap
<1>6. CASE WriteStamp
  <2> USE <1>6 DEF WriteStamp
  <2>1. ASSUME Put([Here EXCEPT !.stamp = Empty]), BreakOff
        PROVE  StampsTold' /\ UploadTold' /\ AmiWhole' /\ Checked'
    <3>1. /\ disk'[cfg.path] = [Here EXCEPT !.stamp = Empty]
          /\ \A p \in Path \ {cfg.path} : disk'[p] = disk[p]
      BY <2>1, PutFacts
    <3>2. disk'[cfg.path].base = Here.base /\ disk'[cfg.path].template = Here.template
      BY <1>0, <3>1 DEF PlatformTypeOK, Hdk
    <3> QED BY <1>0, <2>1, <3>1, <3>2, BrokenOff DEF Complete
  <2>2. ASSUME Put([Here EXCEPT !.stamp = IF cfg.declared THEN cfg.hdk ELSE Unknown]),
               upload' = "prereqs", broken' = [broken EXCEPT ![cfg.path] = {}]
        PROVE  StampsTold' /\ UploadTold' /\ AmiWhole' /\ Checked'
    <3> DEFINE hdk == [Here EXCEPT !.stamp = IF cfg.declared THEN cfg.hdk
                                             ELSE Unknown]
    <3>1. /\ disk'[cfg.path] = hdk /\ Here' = hdk
          /\ \A p \in Path \ {cfg.path} : disk'[p] = disk[p]
      BY <2>2, PutFacts
    <3>2. /\ hdk.stamp \in {cfg.hdk, Unknown}
          /\ hdk.base = Here.base /\ hdk.template = Here.template
      BY <1>0 DEF PlatformTypeOK, Hdk
    <3> HIDE DEF hdk
    <3>3. Complete(hdk, cfg.hdk)
      BY <3>2 DEF UploadTold, Complete
    <3>4. /\ broken'[cfg.path] = {}
          /\ \A p \in Path \ {cfg.path} : broken'[p] = broken[p]
      BY <1>0, <2>2 DEF PlatformTypeOK
    <3>5. StampsTold'
      BY <1>0, <2>2, <3>1, <3>2, <3>3, <3>4, NewValues DEF StampsTold, Uploading
    <3>6. AmiWhole'
      BY <1>0, <3>4 DEF AmiWhole
    <3> QED BY <2>2, <3>1, <3>3, <3>5, <3>6 DEF UploadTold, Checked
  <2> QED BY <2>1, <2>2
<1>7. CASE ValidateRemotePrereqs \/ Finish
  <2>1. /\ UNCHANGED <<kind, cfg, disk, ami, force, broken>>
        /\ upload \in {"prereqs", "staged"} /\ upload' \in {"idle", "staged"}
        /\ upload' = "staged" => upload = "prereqs"
    BY <1>7 DEF ValidateRemotePrereqs, Finish
  <2> QED BY <2>1 DEF StampsTold, Uploading, UploadTold, AmiWhole, Checked, Here
<1>8. CASE EditConfig
  BY <1>8 DEF EditConfig, StampsTold, Uploading, UploadTold, AmiWhole, Checked
<1>9. CASE BakeAmi
  BY <1>9 DEF BakeAmi, StampsTold, Uploading, UploadTold, AmiWhole, Checked, Here
<1>10. CASE UNCHANGED platformVars
  BY <1>10 DEF platformVars, StampsTold, Uploading, UploadTold, AmiWhole, Checked, Here
<1> QED BY <1>1, <1>2, <1>3, <1>4, <1>5, <1>6, <1>7, <1>8, <1>9, <1>10 DEF PlatformNext

LEMMA HdkInvariant == PlatformSpec => []HdkInv
<1>1. PlatformInit => HdkInv BY HdkInit
<1>2. HdkInv /\ [PlatformNext]_platformVars => HdkInv' BY HdkStep
<1> QED BY <1>1, <1>2, PTL DEF PlatformSpec

-----------------------------------------------------------------------------
\* A stamp that names a version lies on a complete tree of it, or an upload is
\* under way there or broke off: _write_stamp is the last write of an upload.
THEOREM StampIsEarnedAlways == PlatformSpec => []StampIsEarned
<1>1. HdkInv => StampIsEarned
  BY DEF HdkInv, StampsTold, StampIsEarned, Uploading
<1> QED BY <1>1, HdkInvariant, PTL

\* A build that is staged works on a complete HDK of the version its project
\* declares, through any sequence of broken uploads, edits and baked AMIs
\* (ensure_platform asks the stamp alone).
THEOREM BuildsOnItsHdkAlways == PlatformSpec => []BuildsOnItsHdk
<1>1. HdkInv => BuildsOnItsHdk
  BY DEF HdkInv, Checked, BuildsOnItsHdk
<1> QED BY <1>1, HdkInvariant, PTL
=============================================================================
