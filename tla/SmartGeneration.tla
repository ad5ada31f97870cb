-------------------------- MODULE SmartGeneration --------------------------
(***************************************************************************)
(* Smart generation: the commands `fslab generate`, `build`, `sim` and     *)
(* `clean` around .fslab/state.json (utils/state.py, commands/build.py,    *)
(* commands/sim.py).                                                       *)
(*                                                                         *)
(* A command loads the configuration, hashes its input, renders the        *)
(* templates over the project's files when the hash has changed, saves the *)
(* hash with the digests of what it rendered, runs the compile steps, and  *)
(* saves again.  Any step may fail and any command may be interrupted; the *)
(* user edits the inputs and the rendered files meanwhile.                 *)
(*                                                                         *)
(* A configuration is a pair: the contents of fslab.yaml and of the        *)
(* registries.  The hash is that of fslab.yaml alone: the merged registry  *)
(* object has none of the attributes _collect_registry_paths looks for.    *)
(***************************************************************************)
EXTENDS Naturals

CONSTANTS
  Yaml,        \* contents fslab.yaml may have
  Registry,    \* contents the registries may have
  Template,    \* the templates of the render plan
  BuildType,   \* targets of make: "metasim", "driver", "fpgasim", "fpga"
  Edited, Torn, Missing,  \* a file with the user's text, half a file, none
  None         \* no value

ASSUME InputsAssumption ==
  /\ Yaml # {} /\ Registry # {}
  /\ {Torn, None} \cap Yaml = {}
  /\ {Edited, Torn, Missing, None} \cap (Yaml \X Registry) = {}
  /\ None \notin {Edited, Torn, Missing}
  /\ Missing \notin {Edited, Torn}

ASSUME BuildTypeAssumption ==
  /\ BuildType \subseteq {"metasim", "driver", "fpgasim", "fpga"}
  /\ None \notin {"metasim", "driver", "fpgasim", "fpga"}

VARIABLES
  yaml,      \* fslab.yaml on disk
  registry,  \* the registry files on disk
  file,      \* the rendered files in the project, by template
  state,     \* .fslab/state.json
  product,   \* generated-src/ ("rtl") and build/fpga, by the hash they are of
  job        \* the command that runs

vars == <<yaml, registry, file, state, product, job>>

-----------------------------------------------------------------------------
(* What the files hold. *)

\* A rendering of a configuration, the user's own text, half a file, or none.
Content == (Yaml \X Registry) \cup {Edited, Torn, Missing}

Exists(t) == file[t] # Missing

\* state.json, or no (readable) state.json.  `tracked` is generated_files.
State == [hash : Yaml, tracked : [Template -> Content \cup {None}],
          compiled : BuildType \cup {None},
          skipRtl : BOOLEAN, skipDriver : BOOLEAN]

NoState == [hash |-> None]

Untracked == [t \in Template |-> None]

\* Of build/<type> only the one a bitstream is built from: no gate is about the
\* other ones back.
Product == {"rtl", "fpga"}

Outcome == Yaml \cup {None, Torn}

-----------------------------------------------------------------------------
(* Commands. *)

Option == [cmd : {"generate"}, force : BOOLEAN, dry : BOOLEAN,
           type : {None}, skipRtl : {TRUE}, skipDriver : {TRUE}]
          \cup
          [cmd : {"build"}, force : BOOLEAN, dry : {FALSE},
           type : BuildType, skipRtl : BOOLEAN, skipDriver : BOOLEAN]
          \cup
          [cmd : {"sim"}, force : BOOLEAN, dry : {FALSE},
           type : BuildType \cap {"metasim"}, skipRtl : BOOLEAN,
           skipDriver : BOOLEAN]

Pc == {"load", "hash", "check", "render", "save", "sbt", "chisel",
       "goldengate", "cmake", "make", "saveCompile"}

Job == [pc : Pc, opt : Option, config : (Yaml \X Registry) \cup {None},
        hash : Yaml \cup {None}, todo : SUBSET Template, ok : BOOLEAN]

NoJob == [pc |-> "idle"]

TypeOK ==
  /\ yaml \in Yaml
  /\ registry \in Registry
  /\ file \in [Template -> Content]
  /\ state \in State \cup {NoState}
  /\ product \in [Product -> Outcome]
  /\ job \in Job \cup {NoJob}

Init ==
  /\ yaml \in Yaml
  /\ registry \in Registry
  /\ file = [t \in Template |-> Missing]
  /\ state = NoState
  /\ product = [p \in Product |-> None]
  /\ job = NoJob

Goto(pc) == job' = [job EXCEPT !.pc = pc]

End == job' = NoJob

-----------------------------------------------------------------------------
(* The user.  Edits fall between commands or beside a compile, which takes *)
(* minutes, but not into the moments in which a command generates.         *)

Generating == job.pc \in {"load", "hash", "check", "render", "save"}

EditYaml ==
  /\ ~Generating
  /\ yaml' \in Yaml \ {yaml}
  /\ UNCHANGED <<registry, file, state, product, job>>

EditRegistry ==
  /\ ~Generating
  /\ registry' \in Registry \ {registry}
  /\ UNCHANGED <<yaml, file, state, product, job>>

EditFile(t) ==
  /\ ~Generating
  /\ \E c \in {Edited, Missing} \ {file[t]} : file' = [file EXCEPT ![t] = c]
  /\ UNCHANGED <<yaml, registry, state, product, job>>

Start(opt) ==
  /\ job = NoJob
  /\ job' = [pc |-> "load", opt |-> opt, config |-> None, hash |-> None,
             todo |-> {}, ok |-> TRUE]
  /\ UNCHANGED <<yaml, registry, file, state, product>>

\* `fslab clean` removes generated-src/ and build/, and .fslab/ with --all.
Clean(all) ==
  /\ job = NoJob
  /\ product' = [p \in Product |-> None]
  /\ state' = IF all THEN NoState ELSE state
  /\ UNCHANGED <<yaml, registry, file, job>>

-----------------------------------------------------------------------------
(* Generation. *)

\* The configuration is read and validated once, and cached for the process.
Load ==
  /\ job.pc = "load"
  /\ \/ job' = [job EXCEPT !.pc = "hash", !.config = <<yaml, registry>>]
     \/ End
  /\ UNCHANGED <<yaml, registry, file, state, product>>

\* is_generation_needed: the first run, or another hash.
Needed(hash) == state.hash # hash

AfterGeneration ==
  CASE job.opt.cmd = "generate" -> "idle"
    [] ~job.opt.skipRtl -> "sbt"
    [] job.opt.skipRtl /\ ~job.opt.skipDriver -> "cmake"
    [] OTHER -> "saveCompile"

Proceed(j) ==
  job' = IF AfterGeneration = "idle" THEN NoJob
         ELSE [j EXCEPT !.pc = AfterGeneration]

\* Mutant: the hash is compared and not kept for the save.
CheckHashForgets ==
  /\ job.pc = "hash"
  /\ \/ /\ ~job.opt.dry /\ (job.opt.force \/ Needed(yaml))
        /\ Goto("check")
     \/ /\ job.opt.dry \/ (~job.opt.force /\ ~Needed(yaml))
        /\ Proceed(job)
  /\ UNCHANGED <<yaml, registry, file, state, product>>

\* check_and_maybe_skip_generation: --force skips the comparison, --dry-run
\* ends the command without a write.
CheckHash ==
  /\ job.pc = "hash"
  /\ \/ /\ ~job.opt.dry /\ (job.opt.force \/ Needed(yaml))
        /\ job' = [job EXCEPT !.pc = "check", !.hash = yaml]
     \/ /\ job.opt.dry \/ (~job.opt.force /\ ~Needed(yaml))
        /\ Proceed([job EXCEPT !.hash = yaml])
  /\ UNCHANGED <<yaml, registry, file, state, product>>

\* check_user_modifications: a tracked file is gone or differs.
Modified(t) ==
  /\ state # NoState
  /\ state.tracked[t] \notin {None, file[t]}

\* Mutant: the check stops at the first file that is as it was.
CheckEditsFirst ==
  /\ job.pc = "check"
  /\ \/ /\ \A t \in Template : Modified(t)
        /\ ~job.opt.force
        /\ End
     \/ /\ job.opt.force \/ \E t \in Template : ~Modified(t)
        /\ job' = [job EXCEPT !.pc = "render", !.todo = Template]
  /\ UNCHANGED <<yaml, registry, file, state, product>>

CheckEdits ==
  /\ job.pc = "check"
  /\ \/ /\ \E t \in Template : Modified(t)
        /\ ~job.opt.force
        /\ End
     \/ /\ job.opt.force \/ \A t \in Template : ~Modified(t)
        /\ job' = [job EXCEPT !.pc = "render", !.todo = Template]
  /\ UNCHANGED <<yaml, registry, file, state, product>>

\* A template that is missing or does not parse is skipped; the loop goes on.
Render(t) ==
  /\ job.pc = "render"
  /\ t \in job.todo
  /\ \/ /\ file' = [file EXCEPT ![t] = job.config]
        /\ job' = [job EXCEPT !.todo = @ \ {t}]
     \/ /\ job' = [job EXCEPT !.todo = @ \ {t}, !.ok = FALSE]
        /\ UNCHANGED file
  /\ UNCHANGED <<yaml, registry, state, product>>

\* Mutant: a template that failed is reported, no more.
RenderedAnyway ==
  /\ job.pc = "render"
  /\ job.todo = {}
  /\ Goto("save")
  /\ UNCHANGED <<yaml, registry, file, state, product>>

Rendered ==
  /\ job.pc = "render"
  /\ job.todo = {}
  /\ IF job.ok THEN Goto("save") ELSE End
  /\ UNCHANGED <<yaml, registry, file, state, product>>

\* compute_generated_files_state
FilesState == [t \in Template |-> IF Exists(t) THEN file[t] ELSE None]

\* Mutant: the save merges into the record that is there.
SaveGenerationMerged ==
  /\ job.pc = "save"
  /\ state' = IF state = NoState
              THEN [hash |-> job.hash, tracked |-> FilesState, compiled |-> None,
                    skipRtl |-> FALSE, skipDriver |-> FALSE]
              ELSE [state EXCEPT !.hash = job.hash, !.tracked = FilesState]
  /\ Proceed(job)
  /\ UNCHANGED <<yaml, registry, file, product>>

\* StateManager.save writes a whole new record: what a caller does not pass
\* is gone.
SaveGeneration ==
  /\ job.pc = "save"
  /\ state' = [hash |-> job.hash, tracked |-> FilesState, compiled |-> None,
               skipRtl |-> FALSE, skipDriver |-> FALSE]
  /\ Proceed(job)
  /\ UNCHANGED <<yaml, registry, file, product>>

-----------------------------------------------------------------------------
(* Compilation. *)

AfterStep(pc) ==
  CASE pc = "sbt" -> "chisel"
    [] pc = "chisel" -> "goldengate"
    [] pc = "goldengate" -> IF job.opt.skipDriver THEN "saveCompile" ELSE "cmake"
    [] pc = "cmake" -> "make"
    [] pc = "make" -> "saveCompile"

\* What a step writes: GoldenGateMain generated-src/, make build/<type>.
Written(pc) ==
  CASE pc = "goldengate" -> {"rtl"}
    [] pc = "make" -> {job.opt.type}
    [] OTHER -> {}

Writes(pc, outcome) ==
  product' = [p \in Product |-> IF p \in Written(pc) THEN outcome ELSE product[p]]

Steps == {"sbt", "chisel", "goldengate", "cmake", "make"}

\* run_or_die: the next step, or the command ends with half an output.
Compile ==
  /\ job.pc \in Steps
  /\ \/ Writes(job.pc, job.hash) /\ Goto(AfterStep(job.pc))
     \/ Writes(job.pc, Torn) /\ End
  /\ UNCHANGED <<yaml, registry, file, state>>

\* The last save of `build` passes the hash and the keys that gate
\* --skip-compile, that of `sim` the hash only; neither passes the files.
SaveCompile ==
  /\ job.pc = "saveCompile"
  /\ state' =
       IF job.opt.cmd = "build"
       THEN [hash |-> job.hash, tracked |-> Untracked,
             compiled |-> job.opt.type, skipRtl |-> job.opt.skipRtl,
             skipDriver |-> job.opt.skipDriver]
       ELSE [hash |-> job.hash, tracked |-> Untracked, compiled |-> None,
             skipRtl |-> FALSE, skipDriver |-> FALSE]
  /\ End
  /\ UNCHANGED <<yaml, registry, file, product>>

\* Ctrl+C, a kill or an exception: a file being written is left half written.  state.json
\* is replaced by a rename and is never torn.
Interrupt ==
  /\ job # NoJob
  /\ Writes(job.pc, Torn)
  /\ \/ UNCHANGED file
     \/ /\ job.pc = "render"
        /\ \E t \in job.todo : file' = [file EXCEPT ![t] = Torn]
  /\ End
  /\ UNCHANGED <<yaml, registry, state>>

-----------------------------------------------------------------------------
Next ==
  \/ EditYaml
  \/ EditRegistry
  \/ \E t \in Template : EditFile(t)
  \/ \E opt \in Option : Start(opt)
  \/ \E all \in BOOLEAN : Clean(all)
  \/ Load
  \/ CheckHash
  \/ CheckEdits
  \/ \E t \in Template : Render(t)
  \/ Rendered
  \/ SaveGeneration
  \/ Compile
  \/ SaveCompile
  \/ Interrupt

Spec == Init /\ [][Next]_vars

-----------------------------------------------------------------------------
(* Properties. *)

\* The state.json half of the gate of `build fpga --skip-compile`.
GateOpen == state # NoState /\ state.compiled = "fpga"

\* An open gate never lets a bitstream be built from another configuration's
\* compile: unless the compile skipped a step, what generated-src/ and
\* build/fpga hold is of the recorded hash, torn, or removed.  The commands
\* in between, failed, interrupted or of another type, share the products,
\* and every one of them writes state.json whole.
GateIsOwn ==
  GateOpen /\ ~state.skipRtl /\ ~state.skipDriver =>
    \A p \in {"rtl", "fpga"} : product[p] \in {state.hash, None, Torn}

\* What state.json tracks is what was rendered from the fslab.yaml it has the
\* hash of, never a file left by a template that failed or the user's text.
TrackedIsRendered ==
  state # NoState =>
    \A t \in Template :
      state.tracked[t] # None =>
        \E r \in Registry : state.tracked[t] = <<state.hash, r>>

\* A tracked file that the user has edited or removed is written only with
\* --force: the check of all files precedes the first write to any.
EditsGuarded ==
  [][\A t \in Template :
       job.pc = "render" /\ ~job.opt.force /\ file'[t] # file[t] => ~Modified(t)]_vars

\* The docstring of check_user_modifications: no user's edit of a file that
\* was generated before is overwritten without --force.
EditsSurvive ==
  [][\A t \in Template :
       /\ job.pc = "render" /\ ~job.opt.force
       /\ state # NoState /\ file[t] = Edited
       => file'[t] = file[t]]_vars
=============================================================================
