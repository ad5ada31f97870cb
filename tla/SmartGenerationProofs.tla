------------------------ MODULE SmartGenerationProofs ------------------------
(***************************************************************************)
(* What holds of SmartGeneration for any configurations and templates: the *)
(* types, that state.json tracks what was rendered, that an open gate is   *)
(* of its own compile, and that a tracked file the user has edited is only *)
(* written with --force.                                                   *)
(***************************************************************************)
EXTENDS SmartGeneration, TLAPS

-----------------------------------------------------------------------------
\* The inductive invariant, part by part.

Compiling == Steps \cup {"saveCompile"}

\* The command has a configuration once it is loaded, and its hash once that is
\* compared; the hash is that of the configuration while it generates.
HashKnown ==
  /\ job.pc = "hash" => job.config = <<yaml, registry>>
  /\ job.pc \in {"check", "render", "save"} =>
       job.hash \in Yaml /\ \E r \in Registry : job.config = <<job.hash, r>>
  /\ job.pc \in Compiling => job.hash \in Yaml

\* A command that compiles has found or saved the hash it compiles.
HashSaved == job.pc \in Compiling => state # NoState /\ state.hash = job.hash

\* What was rendered so far, without a failure.
RenderTold ==
  /\ job.pc = "render" /\ job.ok =>
       \A t \in Template \ job.todo : file[t] = job.config
  /\ job.pc = "save" => \A t \in Template : file[t] = job.config

\* What was compiled so far.
CompileTold ==
  /\ job.pc \in {"cmake", "make", "saveCompile"} /\ ~job.opt.skipRtl =>
       product["rtl"] = job.hash
  /\ job.pc = "saveCompile" /\ ~job.opt.skipDriver /\ job.opt.type = "fpga" =>
       product["fpga"] = job.hash

\* What is still to be rendered was checked.
EditsChecked ==
  job.pc = "render" /\ ~job.opt.force => \A t \in job.todo : ~Modified(t)

GenInv ==
  /\ TypeOK /\ HashKnown /\ HashSaved /\ RenderTold /\ CompileTold
  /\ EditsChecked /\ GateIsOwn /\ TrackedIsRendered

-----------------------------------------------------------------------------
\* Facts about the values.

LEMMA NoJobFacts == NoJob.pc = "idle" /\ NoJob \notin Job
  BY DEF NoJob, Job, Pc

LEMMA RunningJob ==
  ASSUME TypeOK, job.pc # "idle" \/ job # NoJob
  PROVE  job \in Job
  BY NoJobFacts DEF TypeOK

LEMMA NoStateFacts == NoState.hash = None /\ NoState \notin State
  BY InputsAssumption DEF NoState, State

LEMMA JobType ==
  ASSUME NEW j \in Job
  PROVE  /\ j.pc \in Pc /\ j.opt \in Option /\ j.ok \in BOOLEAN
         /\ j.hash \in Yaml \cup {None} /\ j.todo \in SUBSET Template
         /\ j.config \in (Yaml \X Registry) \cup {None}
         /\ \A pc \in Pc : [j EXCEPT !.pc = pc] \in Job
  BY DEF Job

LEMMA OptionFacts ==
  ASSUME NEW o \in Option
  PROVE  /\ o.dry => o.cmd = "generate"
         /\ o.cmd = "generate" => o.skipRtl /\ o.skipDriver
         /\ o.cmd # "generate" => o.type \in BuildType
         /\ o.cmd \in {"generate", "build", "sim"}
         /\ o.force \in BOOLEAN /\ o.dry \in BOOLEAN
         /\ o.skipRtl \in BOOLEAN /\ o.skipDriver \in BOOLEAN
  BY DEF Option

LEMMA AfterGenerationFacts ==
  ASSUME job \in Job
  PROVE  /\ AfterGeneration \in {"idle", "sbt", "cmake", "saveCompile"}
         /\ AfterGeneration = "idle" <=> job.opt.cmd = "generate"
         /\ AfterGeneration \in {"cmake", "saveCompile"} => job.opt.skipRtl
         /\ AfterGeneration = "saveCompile" => job.opt.skipDriver
<1> /\ job.opt.skipRtl \in BOOLEAN /\ job.opt.skipDriver \in BOOLEAN
    /\ job.opt.cmd = "generate" => job.opt.skipRtl /\ job.opt.skipDriver
  BY JobType, OptionFacts
<1>1. CASE job.opt.cmd = "generate" BY <1>1 DEF AfterGeneration
<1>2. CASE job.opt.cmd # "generate" /\ ~job.opt.skipRtl
  BY <1>2 DEF AfterGeneration
<1>3. CASE job.opt.cmd # "generate" /\ job.opt.skipRtl /\ ~job.opt.skipDriver
  BY <1>3 DEF AfterGeneration
<1>4. CASE job.opt.cmd # "generate" /\ job.opt.skipRtl /\ job.opt.skipDriver
  BY <1>4 DEF AfterGeneration
<1> QED BY <1>1, <1>2, <1>3, <1>4

LEMMA GenInit == Init => GenInv
<1> SUFFICES ASSUME Init PROVE GenInv
  OBVIOUS
<1>1. job.pc = "idle" BY NoJobFacts DEF Init
<1>2. TypeOK BY DEF Init, TypeOK, Content, Outcome
<1> QED BY <1>1, <1>2 DEF Init, GenInv, HashKnown, HashSaved, RenderTold, CompileTold,
           EditsChecked, GateIsOwn, GateOpen, TrackedIsRendered, Compiling, Steps

\* A command that has ended, or that has not begun, has nothing to tell.
LEMMA Ended ==
  ASSUME job'.pc \in {"idle", "load"}
  PROVE  HashKnown' /\ HashSaved' /\ RenderTold' /\ CompileTold' /\ EditsChecked'
  BY DEF HashKnown, HashSaved, RenderTold, CompileTold, EditsChecked, Compiling, Steps

\* As long as state.json stays, the record in it stays what it was.
LEMMA RecordKept ==
  ASSUME TrackedIsRendered, UNCHANGED state
  PROVE  TrackedIsRendered'
  BY DEF TrackedIsRendered

LEMMA GateKept ==
  ASSUME GateIsOwn, UNCHANGED state,
         \A p \in {"rtl", "fpga"} :
           GateOpen => product'[p] \in {product[p], state.hash, None, Torn}
  PROVE  GateIsOwn'
  BY DEF GateIsOwn, GateOpen

\* The products that an open gate speaks of.
LEMMA GateProducts == {"rtl", "fpga"} \subseteq Product
  BY DEF Product

-----------------------------------------------------------------------------
\* The steps.

LEMMA UserStep ==
  ASSUME GenInv,
         \/ EditYaml \/ EditRegistry
         \/ \E t \in Template : EditFile(t)
  PROVE  GenInv'
<1> USE DEF GenInv
<1>1. job.pc \notin {"load", "hash", "check", "render", "save"}
  BY DEF EditYaml, EditRegistry, EditFile, Generating
<1>2. UNCHANGED <<state, product, job>>
  BY DEF EditYaml, EditRegistry, EditFile
<1>3. TypeOK'
  BY <1>2 DEF EditYaml, EditRegistry, EditFile, TypeOK, Content
<1>4. HashKnown' /\ HashSaved' /\ RenderTold' /\ CompileTold' /\ EditsChecked'
  BY <1>1, <1>2 DEF HashKnown, HashSaved, RenderTold, CompileTold, EditsChecked
<1>5. GateIsOwn' /\ TrackedIsRendered'
  BY <1>2, RecordKept, GateKept
<1> QED BY <1>3, <1>4, <1>5

LEMMA CommandStep ==
  ASSUME GenInv,
         \/ \E opt \in Option : Start(opt)
         \/ \E all \in BOOLEAN : Clean(all)
         \/ Load
  PROVE  GenInv'
<1> USE DEF GenInv
<1>1. ASSUME NEW opt \in Option, Start(opt) PROVE GenInv'
  <2>1. job' \in Job /\ job'.pc = "load"
    BY <1>1 DEF Start, Job, Pc
  <2>2. UNCHANGED <<yaml, registry, file, state, product>> BY <1>1 DEF Start
  <2> QED BY <2>1, <2>2, Ended, RecordKept, GateKept DEF TypeOK
<1>2. ASSUME NEW all \in BOOLEAN, Clean(all) PROVE GenInv'
  <2>1. job'.pc = "idle" BY <1>2, NoJobFacts DEF Clean, TypeOK
  <2>2. TypeOK' BY <1>2 DEF Clean, TypeOK, Outcome
  <2>3. \A p \in Product : product'[p] = None BY <1>2 DEF Clean
  <2>4. CASE state' = NoState
    BY <2>1, <2>2, <2>4, Ended DEF GateIsOwn, GateOpen, TrackedIsRendered
  <2>5. CASE UNCHANGED state
    <3>1. GateIsOwn' BY <2>3, <2>5, GateProducts, GateKept
    <3> QED BY <2>1, <2>2, <2>5, <3>1, Ended, RecordKept
  <2> QED BY <1>2, <2>4, <2>5 DEF Clean
<1>3. CASE Load
  <2>1. UNCHANGED <<yaml, registry, file, state, product>> /\ job.pc = "load"
    BY <1>3 DEF Load
  <2>2. GateIsOwn' /\ TrackedIsRendered'
    BY <2>1, RecordKept, GateKept
  <2>3. CASE End
    BY <2>1, <2>2, <2>3, NoJobFacts, Ended DEF End, TypeOK
  <2>4. CASE job' = [job EXCEPT !.pc = "hash", !.config = <<yaml, registry>>]
    <3>1. job \in Job BY <2>1, RunningJob
    <3>2. /\ job' \in Job /\ job'.pc = "hash"
          /\ job'.config = <<yaml, registry>>
      BY <2>4, <3>1 DEF Job, Pc, TypeOK
    <3>3. HashKnown' /\ HashSaved' /\ RenderTold' /\ CompileTold' /\ EditsChecked'
      BY <2>1, <3>2 DEF HashKnown, HashSaved, RenderTold, CompileTold,
         EditsChecked, Compiling, Steps
    <3> QED BY <2>1, <2>2, <3>2, <3>3 DEF TypeOK
  <2> QED BY <1>3, <2>3, <2>4 DEF Load
<1> QED BY <1>1, <1>2, <1>3

\* Where a command goes from generation: it ends, or compiles.
LEMMA Proceeds ==
  ASSUME NEW j \in Job, job \in Job, j.opt = job.opt, j.hash \in Yaml, Proceed(j),
         TypeOK, job.pc \in {"hash", "save"}, UNCHANGED <<yaml, registry, file, product>>,
         job.opt.cmd # "generate" => state' # NoState /\ state'.hash = j.hash
  PROVE  /\ job' \in Job \cup {NoJob}
         /\ HashKnown' /\ HashSaved' /\ RenderTold' /\ CompileTold' /\ EditsChecked'
<1>1. CASE AfterGeneration = "idle"
  BY <1>1, NoJobFacts, Ended DEF Proceed
<1>2. CASE AfterGeneration # "idle"
  <2>1. AfterGeneration \in {"sbt", "cmake", "saveCompile"}
    BY <1>2, AfterGenerationFacts
  <2>2. job' = [j EXCEPT !.pc = AfterGeneration]
    BY <1>2 DEF Proceed
  <2>3. /\ job' \in Job /\ job'.pc = AfterGeneration /\ job'.hash = j.hash
        /\ job'.opt = job.opt
    BY <2>1, <2>2 DEF Job, Pc
  <2>4. HashKnown' BY <2>1, <2>3 DEF HashKnown
  <2>5. HashSaved' BY <1>2, <2>3, AfterGenerationFacts DEF HashSaved
  <2>6. CompileTold' BY <2>1, <2>3, AfterGenerationFacts DEF CompileTold
  <2>7. RenderTold' /\ EditsChecked' BY <2>1, <2>3 DEF RenderTold, EditsChecked
  <2> QED BY <2>3, <2>4, <2>5, <2>6, <2>7
<1> QED BY <1>1, <1>2

LEMMA CheckStep ==
  ASSUME GenInv, CheckHash \/ CheckEdits
  PROVE  GenInv'
<1> USE DEF GenInv
<1>0. job \in Job /\ job.opt \in Option
  BY RunningJob, JobType DEF CheckHash, CheckEdits
<1>1. UNCHANGED <<yaml, registry, file, state, product>>
  BY DEF CheckHash, CheckEdits
<1>2. GateIsOwn' /\ TrackedIsRendered'
  BY <1>1, RecordKept, GateKept
<1>3. ASSUME CheckHash, job' = [job EXCEPT !.pc = "check", !.hash = yaml]
      PROVE  GenInv'
  <2>1. /\ job' \in Job /\ job'.pc = "check" /\ job'.hash = yaml
        /\ job'.config = job.config
    BY <1>0, <1>3 DEF Job, Pc, TypeOK
  <2>2. job.config = <<yaml, registry>> /\ yaml \in Yaml /\ registry \in Registry
    BY <1>3 DEF CheckHash, HashKnown, TypeOK
  <2>3. HashKnown' BY <1>1, <2>1, <2>2 DEF HashKnown, Compiling, Steps
  <2>4. HashSaved' /\ RenderTold' /\ CompileTold' /\ EditsChecked'
    BY <2>1 DEF HashSaved, RenderTold, CompileTold, EditsChecked, Compiling, Steps
  <2> QED BY <1>1, <1>2, <2>1, <2>3, <2>4 DEF TypeOK
<1>4. ASSUME job.pc = "hash", Proceed([job EXCEPT !.hash = yaml]),
             job.opt.dry \/ (~job.opt.force /\ ~Needed(yaml))
      PROVE  GenInv'
  <2> DEFINE j == [job EXCEPT !.hash = yaml]
  <2>1. j \in Job /\ j.opt = job.opt /\ j.hash = yaml /\ yaml \in Yaml
    BY <1>0 DEF Job, TypeOK
  <2>2. job.opt.cmd # "generate" => state.hash = yaml
    BY <1>0, <1>4, OptionFacts DEF Needed
  <2>3. job.opt.cmd # "generate" => state # NoState
    BY <2>1, <2>2, NoStateFacts, InputsAssumption
  <2> HIDE DEF j
  <2>4. Proceed(j) BY <1>4 DEF j
  <2>5. /\ job' \in Job \cup {NoJob}
        /\ HashKnown' /\ HashSaved' /\ RenderTold' /\ CompileTold' /\ EditsChecked'
    BY <1>0, <1>1, <1>4, <2>1, <2>2, <2>3, <2>4, Proceeds
  <2> QED BY <1>1, <1>2, <2>5 DEF TypeOK
<1>5. ASSUME CheckEdits, End PROVE GenInv'
  <2>1. job' = NoJob /\ job'.pc = "idle" BY <1>5, NoJobFacts DEF End
  <2> QED BY <1>1, <1>2, <2>1, Ended DEF TypeOK
<1>6. ASSUME CheckEdits, job' = [job EXCEPT !.pc = "render", !.todo = Template],
             job.opt.force \/ \A t \in Template : ~Modified(t)
      PROVE  GenInv'
  <2>1. /\ job' \in Job /\ job'.pc = "render" /\ job'.todo = Template
        /\ job'.hash = job.hash /\ job'.config = job.config /\ job'.opt = job.opt
    BY <1>0, <1>6 DEF Job, Pc
  <2>2. job.pc = "check" BY <1>6 DEF CheckEdits
  <2>3. HashKnown' BY <1>1, <2>1, <2>2 DEF HashKnown, Compiling, Steps
  <2>4. EditsChecked' BY <1>1, <1>6, <2>1 DEF EditsChecked, Modified
  <2>5. HashSaved' /\ RenderTold' /\ CompileTold'
    BY <2>1 DEF HashSaved, RenderTold, CompileTold, Compiling, Steps
  <2> QED BY <1>1, <1>2, <2>1, <2>3, <2>4, <2>5 DEF TypeOK
<1> QED BY <1>3, <1>4, <1>5, <1>6 DEF CheckHash, CheckEdits

LEMMA RenderStep ==
  ASSUME GenInv, Rendered \/ \E t \in Template : Render(t)
  PROVE  GenInv'
<1> USE DEF GenInv
<1>0. job \in Job /\ job.pc = "render"
  BY RunningJob DEF Render, Rendered
<1>1. UNCHANGED <<yaml, registry, state, product>>
  BY DEF Render, Rendered
<1>2. GateIsOwn' /\ TrackedIsRendered'
  BY <1>1, RecordKept, GateKept
<1>3. job.config \in Yaml \X Registry
  BY <1>0 DEF HashKnown
<1>4. ASSUME NEW t \in Template, t \in job.todo, NEW ok \in {job.ok, FALSE},
             job' = [job EXCEPT !.todo = @ \ {t}, !.ok = ok],
             ok => file' = [file EXCEPT ![t] = job.config],
             UNCHANGED file \/ file' = [file EXCEPT ![t] = job.config]
      PROVE  GenInv'
  <2>1. /\ job' \in Job /\ job'.pc = "render" /\ job'.todo = job.todo \ {t}
        /\ job'.hash = job.hash /\ job'.config = job.config /\ job'.opt = job.opt
        /\ job'.ok = ok
    BY <1>0, <1>4 DEF Job
  <2>2. file' \in [Template -> Content] BY <1>3, <1>4 DEF TypeOK, Content
  <2>3. \A u \in Template \ {t} : file'[u] = file[u] BY <1>4 DEF TypeOK
  <2>4. ok => file'[t] = job.config BY <1>4 DEF TypeOK
  <2>5. HashKnown' BY <1>0, <1>1, <2>1 DEF HashKnown, Compiling, Steps
  <2>6. RenderTold' BY <1>0, <1>4, <2>1, <2>3, <2>4 DEF RenderTold
  <2>7. job.todo \subseteq Template BY <1>0 DEF Job
  <2>8. EditsChecked'
    BY <1>0, <1>1, <2>1, <2>3, <2>7 DEF EditsChecked, Modified
  <2>9. HashSaved' /\ CompileTold'
    BY <2>1 DEF HashSaved, CompileTold, Compiling, Steps
  <2> QED BY <1>1, <1>2, <2>1, <2>2, <2>5, <2>6, <2>8, <2>9 DEF TypeOK
<1>5. ASSUME NEW t \in Template, Render(t) PROVE GenInv'
  <2>1. t \in job.todo BY <1>5 DEF Render
  <2>2. CASE /\ file' = [file EXCEPT ![t] = job.config]
             /\ job' = [job EXCEPT !.todo = @ \ {t}]
    <3>1. job' = [job EXCEPT !.todo = @ \ {t}, !.ok = job.ok]
      BY <1>0, <2>2 DEF Job
    <3> QED BY <1>4, <2>1, <2>2, <3>1
  <2>3. CASE UNCHANGED file /\ job' = [job EXCEPT !.todo = @ \ {t}, !.ok = FALSE]
    BY <1>4, <2>1, <2>3
  <2> QED BY <1>5, <2>2, <2>3 DEF Render
<1>6. CASE Rendered
  <2>1. UNCHANGED file /\ job.todo = {} BY <1>6 DEF Rendered
  <2>2. CASE job.ok
    <3>1. /\ job' \in Job /\ job'.pc = "save" /\ job'.hash = job.hash
          /\ job'.config = job.config
      BY <1>0, <1>6, <2>2 DEF Rendered, Goto, Job, Pc
    <3>2. RenderTold' BY <1>0, <2>1, <2>2, <3>1 DEF RenderTold
    <3>3. HashKnown' BY <1>0, <1>1, <3>1 DEF HashKnown, Compiling, Steps
    <3>4. HashSaved' /\ CompileTold' /\ EditsChecked'
      BY <3>1 DEF HashSaved, CompileTold, EditsChecked, Compiling, Steps
    <3> QED BY <1>1, <1>2, <2>1, <3>1, <3>2, <3>3, <3>4 DEF TypeOK
  <2>3. CASE ~job.ok
    <3>1. job' = NoJob /\ job'.pc = "idle"
      BY <1>6, <2>3, NoJobFacts DEF Rendered, End
    <3> QED BY <1>1, <1>2, <2>1, <3>1, Ended DEF TypeOK
  <2> QED BY <2>2, <2>3
<1> QED BY <1>5, <1>6

LEMMA SaveStep ==
  ASSUME GenInv, SaveGeneration
  PROVE  GenInv'
<1> USE DEF GenInv
<1>0. /\ job \in Job /\ job.pc = "save" /\ Proceed(job)
      /\ UNCHANGED <<yaml, registry, file, product>>
  BY RunningJob DEF SaveGeneration
<1>1. state' = [hash |-> job.hash, tracked |-> FilesState, compiled |-> None,
                skipRtl |-> FALSE, skipDriver |-> FALSE]
  BY DEF SaveGeneration
<1>2. PICK r \in Registry : job.config = <<job.hash, r>>
  BY <1>0 DEF HashKnown
<1>3. job.hash \in Yaml BY <1>0 DEF HashKnown
<1>4. FilesState \in [Template -> Content \cup {None}]
  BY DEF FilesState, TypeOK
<1>5. \A t \in Template : FilesState[t] \in {None, job.config}
  BY <1>0 DEF FilesState, RenderTold
<1>6. state' \in State /\ state'.hash = job.hash /\ state'.tracked = FilesState
      /\ state'.compiled = None
  BY <1>1, <1>3, <1>4 DEF State
<1>7. TrackedIsRendered' BY <1>2, <1>5, <1>6 DEF TrackedIsRendered
<1>8. GateIsOwn' BY <1>6, BuildTypeAssumption DEF GateIsOwn, GateOpen
<1>9. state' # NoState BY <1>6, NoStateFacts
<1>10. /\ job' \in Job \cup {NoJob}
       /\ HashKnown' /\ HashSaved' /\ RenderTold' /\ CompileTold' /\ EditsChecked'
  BY <1>0, <1>3, <1>6, <1>9, Proceeds
<1> QED BY <1>0, <1>6, <1>7, <1>8, <1>10 DEF TypeOK

\* What a step, complete or broken off, writes.
LEMMA WritesFacts ==
  ASSUME TypeOK, job \in Job, NEW outcome \in Yaml \cup {Torn},
         job.pc \in Compiling => job.hash \in Yaml, Writes(job.pc, outcome)
  PROVE  /\ product' \in [Product -> Outcome]
         /\ \A p \in Product :
              product'[p] = IF p \in Written(job.pc) THEN outcome ELSE product[p]
  BY DEF Writes, TypeOK, Outcome

\* A command that compiles writes its own hash, which is that of state.json, or
\* half a product: an open gate stays right.
LEMMA GateWrites ==
  ASSUME GenInv, job \in Job, NEW outcome \in {job.hash, Torn}, UNCHANGED state,
         outcome # Torn => job.pc \in Compiling,
         Writes(job.pc, outcome)
  PROVE  GateIsOwn'
<1> USE DEF GenInv
<1>1. ASSUME GateOpen, NEW p \in {"rtl", "fpga"}
      PROVE  product'[p] \in {product[p], state.hash, None, Torn}
  <2>1. p \in Product BY <1>1, GateProducts
  <2>2. product'[p] \in {product[p], outcome}
    BY <2>1 DEF Writes, TypeOK
  <2> QED BY <2>2 DEF HashSaved
<1> QED BY <1>1, GateKept

LEMMA CompileStep ==
  ASSUME GenInv, Compile
  PROVE  GenInv'
<1> USE DEF GenInv
<1>0. job.pc \in Steps /\ UNCHANGED <<yaml, registry, file, state>>
  BY DEF Compile
<1>1. job \in Job /\ job.opt \in Option /\ job.hash \in Yaml
  BY <1>0, RunningJob, JobType DEF Steps, HashKnown, Compiling
<1>2. TrackedIsRendered' BY <1>0, RecordKept
<1>3. ASSUME Writes(job.pc, job.hash), Goto(AfterStep(job.pc)) PROVE GenInv'
  <2>1. GateIsOwn' BY <1>0, <1>1, <1>3, GateWrites DEF Compiling
  <2>2. /\ product' \in [Product -> Outcome]
        /\ \A p \in Product :
             product'[p] = IF p \in Written(job.pc) THEN job.hash ELSE product[p]
    BY <1>1, <1>3, WritesFacts
  <2>3. AfterStep(job.pc) \in {"chisel", "goldengate", "cmake", "make", "saveCompile"}
    BY <1>0 DEF AfterStep, Steps
  <2>4. /\ job' \in Job /\ job'.pc = AfterStep(job.pc)
        /\ job'.hash = job.hash /\ job'.opt = job.opt
    BY <1>1, <1>3, <2>3 DEF Goto, Job, Pc
  <2>5. HashKnown' BY <1>0, <1>1, <2>3, <2>4 DEF HashKnown
  <2>6. HashSaved' BY <1>0, <2>3, <2>4 DEF HashSaved, Compiling
  <2>7. RenderTold' /\ EditsChecked' BY <2>3, <2>4 DEF RenderTold, EditsChecked
  <2>8. "rtl" \in Product BY DEF Product
  <2>9. ASSUME job'.pc \in {"cmake", "make", "saveCompile"}, ~job'.opt.skipRtl
        PROVE  product'["rtl"] = job'.hash
    <3>1. CASE job.pc = "goldengate"
      BY <2>2, <2>4, <2>8, <3>1 DEF Written
    <3>2. CASE job.pc \in {"cmake", "make"}
      BY <2>2, <2>4, <2>8, <2>9, <3>2 DEF CompileTold
    <3>3. CASE job.pc \in {"sbt", "chisel"}
      BY <2>4, <2>9, <3>3 DEF AfterStep
    <3> QED BY <1>0, <3>1, <3>2, <3>3 DEF Steps
  <2>10. ASSUME job'.pc = "saveCompile", ~job'.opt.skipDriver,
                job'.opt.type = "fpga"
         PROVE  product'["fpga"] = job'.hash
    <3>1. job.pc = "make"
      BY <1>0, <2>4, <2>10 DEF AfterStep, Steps
    <3>2. "fpga" \in Product BY DEF Product
    <3> QED BY <2>2, <2>4, <2>10, <3>1, <3>2 DEF Written
  <2>11. CompileTold' BY <2>9, <2>10 DEF CompileTold
  <2> QED BY <1>0, <1>2, <2>1, <2>2, <2>4, <2>5, <2>6, <2>7, <2>11 DEF TypeOK
<1>4. ASSUME Writes(job.pc, Torn), End PROVE GenInv'
  <2>1. GateIsOwn' BY <1>0, <1>1, <1>4, GateWrites
  <2>2. product' \in [Product -> Outcome] BY <1>1, <1>4, WritesFacts
  <2>3. job' = NoJob /\ job'.pc = "idle" BY <1>4, NoJobFacts DEF End
  <2> QED BY <1>0, <1>2, <2>1, <2>2, <2>3, Ended DEF TypeOK
<1> QED BY <1>3, <1>4 DEF Compile

LEMMA SaveCompileStep ==
  ASSUME GenInv, SaveCompile
  PROVE  GenInv'
<1> USE DEF GenInv
<1>0. job.pc = "saveCompile" /\ UNCHANGED <<yaml, registry, file, product>>
  BY DEF SaveCompile
<1>1. job \in Job /\ job.opt \in Option /\ job.hash \in Yaml
  BY <1>0, RunningJob, JobType DEF HashKnown, Compiling
<1>2. job' = NoJob /\ job'.pc = "idle" BY NoJobFacts DEF SaveCompile, End
<1>3. Untracked \in [Template -> Content \cup {None}]
      /\ \A t \in Template : Untracked[t] = None
  BY DEF Untracked
<1>4. CASE job.opt.cmd = "build"
  <2>1. state' = [hash |-> job.hash, tracked |-> Untracked,
                  compiled |-> job.opt.type, skipRtl |-> job.opt.skipRtl,
                  skipDriver |-> job.opt.skipDriver]
    BY <1>4 DEF SaveCompile
  <2>2. /\ state' \in State /\ state'.hash = job.hash /\ state'.tracked = Untracked
        /\ state'.compiled = job.opt.type /\ state'.skipRtl = job.opt.skipRtl
        /\ state'.skipDriver = job.opt.skipDriver
    BY <1>1, <1>3, <1>4, <2>1, OptionFacts DEF State
  <2>3. GateIsOwn' BY <1>0, <2>2 DEF GateIsOwn, GateOpen, CompileTold
  <2>4. TrackedIsRendered' BY <1>3, <2>2 DEF TrackedIsRendered
  <2> QED BY <1>0, <1>2, <2>2, <2>3, <2>4, Ended DEF TypeOK
<1>5. CASE job.opt.cmd # "build"
  <2>1. state' = [hash |-> job.hash, tracked |-> Untracked, compiled |-> None,
                  skipRtl |-> FALSE, skipDriver |-> FALSE]
    BY <1>5 DEF SaveCompile
  <2>2. /\ state' \in State /\ state'.tracked = Untracked
        /\ state'.compiled = None
    BY <1>1, <1>3, <2>1 DEF State
  <2>3. GateIsOwn' BY <2>2, BuildTypeAssumption DEF GateIsOwn, GateOpen
  <2>4. TrackedIsRendered' BY <1>3, <2>2 DEF TrackedIsRendered
  <2> QED BY <1>0, <1>2, <2>2, <2>3, <2>4, Ended DEF TypeOK
<1> QED BY <1>4, <1>5

LEMMA InterruptStep ==
  ASSUME GenInv, Interrupt
  PROVE  GenInv'
<1> USE DEF GenInv
<1>0. /\ job \in Job /\ UNCHANGED <<yaml, registry, state>>
      /\ Writes(job.pc, Torn) /\ job' = NoJob
  BY RunningJob DEF Interrupt, End
<1>1. file' \in [Template -> Content]
  BY DEF Interrupt, TypeOK, Content
<1>2. product' \in [Product -> Outcome]
  BY <1>0, WritesFacts DEF HashKnown
<1>3. GateIsOwn' BY <1>0, GateWrites
<1>4. TrackedIsRendered' BY <1>0, RecordKept
<1>5. job'.pc = "idle" BY <1>0, NoJobFacts
<1> QED BY <1>0, <1>1, <1>2, <1>3, <1>4, <1>5, Ended DEF TypeOK

LEMMA GenStep == GenInv /\ [Next]_vars => GenInv'
<1> SUFFICES ASSUME GenInv, [Next]_vars PROVE GenInv'
  OBVIOUS
<1>1. CASE UNCHANGED vars
  BY <1>1 DEF vars, GenInv, TypeOK, HashKnown, HashSaved, RenderTold, CompileTold,
     EditsChecked, Modified, GateIsOwn, GateOpen, TrackedIsRendered
<1> QED BY <1>1, UserStep, CommandStep, CheckStep, RenderStep, SaveStep,
           CompileStep, SaveCompileStep, InterruptStep DEF Next

LEMMA GenInvariant == Spec => []GenInv
<1>1. Init => GenInv BY GenInit
<1>2. GenInv /\ [Next]_vars => GenInv' BY GenStep
<1> QED BY <1>1, <1>2, PTL DEF Spec

-----------------------------------------------------------------------------
\* Every variable has its type in every reachable state.
THEOREM TypeCorrect == Spec => []TypeOK
<1>1. GenInv => TypeOK BY DEF GenInv
<1> QED BY <1>1, GenInvariant, PTL

\* What generated-src/ and build/fpga hold is of the hash that an open gate of
\* `build fpga --skip-compile` records, torn, or removed (commands/build.py).
THEOREM GateIsOwnAlways == Spec => []GateIsOwn
<1>1. GenInv => GateIsOwn BY DEF GenInv
<1> QED BY <1>1, GenInvariant, PTL

\* generated_files only has digests of renderings of the recorded fslab.yaml
\* (StateManager.save after a loop over templates that may each fail).
THEOREM TrackedIsRenderedAlways == Spec => []TrackedIsRendered
<1>1. GenInv => TrackedIsRendered BY DEF GenInv
<1> QED BY <1>1, GenInvariant, PTL

\* No command writes a tracked file that the user changed, without --force
\* (check_user_modifications before the first render).
THEOREM EditsGuardedAlways == Spec => EditsGuarded
<1>1. ASSUME GenInv, [Next]_vars
      PROVE  [\A t \in Template :
                job.pc = "render" /\ ~job.opt.force /\ file'[t] # file[t] =>
                  ~Modified(t)]_vars
  <2> SUFFICES ASSUME Next, NEW t \in Template, job.pc = "render", ~job.opt.force,
                      file'[t] # file[t]
               PROVE  t \in job.todo
    BY <1>1 DEF GenInv, EditsChecked
  <2> USE <1>1 DEF GenInv, TypeOK
  <2>1. ASSUME NEW u \in Template, Render(u) PROVE t \in job.todo
    BY <2>1 DEF Render
  <2>2. CASE Interrupt
    BY <2>2 DEF Interrupt
  <2>3. ASSUME NEW u \in Template, EditFile(u) PROVE FALSE
    BY <2>3 DEF EditFile, Generating
  <2>4. ASSUME \/ EditYaml \/ EditRegistry \/ Load \/ CheckHash \/ CheckEdits
               \/ Rendered \/ SaveGeneration \/ Compile \/ SaveCompile
               \/ \E opt \in Option : Start(opt)
               \/ \E all \in BOOLEAN : Clean(all)
        PROVE  FALSE
    BY <2>4 DEF EditYaml, EditRegistry, Load, CheckHash, CheckEdits, Rendered,
       SaveGeneration, Compile, SaveCompile, Start, Clean
  <2> QED BY <2>1, <2>2, <2>3, <2>4 DEF Next
<1> QED BY <1>1, GenInvariant, PTL DEF Spec, EditsGuarded
=============================================================================
