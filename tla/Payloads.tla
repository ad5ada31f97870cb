------------------------------ MODULE Payloads ------------------------------
(***************************************************************************)
(* The files a run stages beside its driver: their resolution and the      *)
(* check of their digests (runtime/payloads.py, schemas/runner_args.py).   *)
(* The contents of a file are its digest.                                  *)
(***************************************************************************)
EXTENDS FiniteSets

CONSTANTS
  Dir,        \* directories of the project; "payloads" holds the manifest
  Name,       \* basenames
  Reserved,   \* remote names of the framework's own files, and the driver's
  Digest,     \* contents of a file
  Torn,       \* a file that an upload broke off in
  Absent      \* no file, no entry, no manifest

ASSUME NamesAssumption == "payloads" \in Dir /\ Name \cap Reserved = {}

\* A payload as configured; `remote` is its remote_name or, by default, base.
PayloadConfig == [dir : Dir, base : Name, remote : Name \cup Reserved]

VerifyHash == {"NO", "IF_PRESENT", "YES"}

RunnerArgs == [payloads : SUBSET PayloadConfig, verify_hash : VerifyHash]

\* The project's files, and payloads/SHA256SUMS.
LocalFiles == [Dir -> [Name -> Digest \cup {Absent}]]
Manifest == [Name -> Digest \cup {Absent}] \cup {Absent}

\* _validate_payload_axis: PAY-02 and PAY-03.
ValidAxis(args) ==
  \A p \in args.payloads :
    /\ p.remote \notin Reserved
    /\ \A q \in args.payloads : q.remote = p.remote => q = p

\* _locate_manifest: whether the manifest is in scope.
HasVerification(args, manifest) ==
  args.verify_hash # "NO" /\ args.payloads # {} /\ manifest # Absent

\* resolve_payloads: PAY-01, PAY-04 and PAY-05.  The manifest is asked for the
\* basename of a payload, wherever that payload lies.
Resolves(args, local, manifest) ==
  /\ ValidAxis(args)
  /\ \A p \in args.payloads : local[p.dir][p.base] # Absent
  /\ args.verify_hash = "YES" /\ args.payloads # {} => manifest # Absent
  /\ HasVerification(args, manifest) =>
       \A p \in args.payloads : manifest[p.base] # Absent

\* sha256sum -c SHA256SUMS, in a directory: every entry, used or not.
Sha256sumOk(files, manifest) ==
  \A n \in Name : manifest[n] # Absent => files[n] = manifest[n]

\* local_verify, in payloads/.
LocalVerify(args, local, manifest) ==
  HasVerification(args, manifest) => Sha256sumOk(local["payloads"], manifest)

\* A slot directory: what was uploaded, by remote name, and the manifest.
SlotDir == [file : [Name -> Digest \cup {Torn, Absent}], sums : Manifest]

EmptySlotDir == [file |-> [n \in Name |-> Absent], sums |-> Absent]

\* upload_pairs: one payload, under its remote name, and the manifest.
UploadPayload(slotdir, p, contents) ==
  [slotdir EXCEPT !.file[p.remote] = contents]

UploadManifest(slotdir, manifest) == [slotdir EXCEPT !.sums = manifest]

\* remote_verify_command: the same check in the slot directory.
RemoteVerify(slotdir) == Sha256sumOk(slotdir.file, slotdir.sums)

\* A payload that keeps its name and lies in payloads/ is the file that both
\* checks look at.
CheckedByName(p) == p.dir = "payloads" /\ p.remote = p.base
=============================================================================
