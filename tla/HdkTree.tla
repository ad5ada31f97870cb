------------------------------- MODULE HdkTree -------------------------------
(***************************************************************************)
(* A platform HDK as it lies on a build machine: two trees of files and    *)
(* the platform stamp beside them (bitstream/buildhost.py).                *)
(***************************************************************************)
CONSTANTS
  Version,     \* versions of the HDK
  OtherPath,   \* values of remote_platform_path other than the registry's
  Default,     \* the registry's remote_platform_path for ec2_launch
  Unknown,     \* the version a stamp names when the project declares none
  Nothing         \* no version, no stamp, no machine in use

ASSUME PathAssumption == Default \notin OtherPath /\ Nothing \notin OtherPath
ASSUME NewValues == Unknown \notin Version /\ Nothing \notin Version /\ Unknown # Nothing

Path == OtherPath \cup {Default}

\* A directory: the versions its files come from, and whether none is missing.
\* rsync replaces one file after the other; without --delete, files that only
\* an older version had stay, and count for nothing here.
Files == [from : SUBSET Version, whole : BOOLEAN]
NoFiles == [from |-> {}, whole |-> FALSE]
FilesOf(v) == [from |-> {v}, whole |-> TRUE]

\* An installation.  A stamp whose write broke off is empty: it parses to {},
\* which names no version but is not Nothing.
Empty == "empty"
Stamp == Version \cup {Unknown, Empty, Nothing}
Hdk == [base : Files, template : Files, stamp : Stamp]
NoHdk == [base |-> NoFiles, template |-> NoFiles, stamp |-> Nothing]
Installed(v, stamp) ==
  [base |-> FilesOf(v), template |-> FilesOf(v), stamp |-> stamp]

Complete(hdk, v) == hdk.base = FilesOf(v) /\ hdk.template = FilesOf(v)
==============================================================================
