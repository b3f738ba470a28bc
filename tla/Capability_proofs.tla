-------------------------- MODULE Capability_proofs --------------------------
(***************************************************************************)
(* Proofs about Capability, for any templates, uptimes, processes,         *)
(* generations and upsets.  The argument: a generation is never reused and *)
(* a revision numbers the contract, so a verdict stored late meets a row   *)
(* that has moved on; and as long as two starts are far enough apart to be *)
(* told from the wavering of one start, all evidence of one generation is  *)
(* of one process or of later ones.                                        *)
(***************************************************************************)
EXTENDS Capability, TLAPS

----------------------------------------------------------------------------
(* The inductive invariant of the gate.                                    *)

Validating == {"probe", "validate", "bind", "complete"}

\* No generation is from the future; a creation that read a shut gate holds
\* a generation that has passed.
GenSound ==
    /\ \A t \in Templates : tpl[t].vgen <= inst.gen
    /\ run.gen <= inst.gen
    /\ create.pc = "instance" /\ ~create.open /\ create.vgen > 0 => create.vgen < inst.gen

\* A validation in progress read its contract with its revision, and only
\* ValidateTemplate finds anything compatible.
RunSound ==
    /\ run.pc \in Validating =>
          /\ run.t \in Templates /\ run.rev <= tpl[run.t].rev
          /\ run.rev = tpl[run.t].rev => run.contract = tpl[run.t].contract
    /\ run.verdict = "compatible" => run.pc \in {"bind", "complete"}
    /\ run.pc = "invalidate" => \A t \in Templates : tpl[t].vgen <= run.gen

Fits(r) == r.vgen > 0 => r.for = r.contract

\* Evidence fits its row while the row, or the edit that will write it back,
\* says compatible.
FitSound ==
    /\ edit = NoEdit \/ edit.t \in Templates
    /\ \A t \in Templates :
       (tpl[t].state = "compatible" \/ (edit.t = t /\ edit.state = "compatible")) => Fits(tpl[t])

CapabilityInv ==
    CapabilityTypeOK /\ GenSound /\ RunSound /\ FitSound /\ AdmittedByOpenGate

----------------------------------------------------------------------------
(* The model's operators.                                                  *)

LEMMA Constants ==
  /\ NoTemplate \notin Templates /\ Gap \in Nat /\ MaxAge \in Nat
  /\ MaxProc \in Nat /\ MaxProc >= 1 /\ MaxGeneration \in Nat /\ MaxGeneration >= 1
  /\ MaxUpsets \in Nat
  BY CapabilityAssumption

LEMMA Times ==
  ASSUME NEW p \in Nat
  PROVE  Gap * p \in Nat
  BY Constants

LEMMA Types ==
  ASSUME CapabilityTypeOK
  PROVE  /\ xr \in Process /\ inst \in Instance
         /\ tpl \in [Templates -> Template] /\ run \in Run
         /\ col \in Collector /\ edit \in Edit /\ create \in Create
         /\ queue \subseteq Templates /\ full \subseteq Templates
         /\ degraded \in BOOLEAN /\ upsets \in 0 .. MaxUpsets /\ known \in Procs
         /\ (run.who = "none") <=> (run.pc = "free")
  BY DEF CapabilityTypeOK

LEMMA NoObsType == NoObs \in Observation
  BY Constants DEF NoObs, Observation, Seconds, Procs

LEMMA FreeType == Free \in Run
  BY Constants, NoObsType DEF Free, Run, Phases, States, Procs

LEMMA IdleTypes == NoRound \in Collector /\ NoCreate \in Create /\ NoEdit \in Edit
  BY Constants, NoObsType DEF NoRound, Collector, NoCreate, Create, NoEdit, Edit, States

LEMMA ProbedType ==
  ASSUME CapabilityTypeOK
  PROVE  Probed \in Observation /\ Probed.proc = xr.proc
  <1>1. xr.proc \in Procs /\ xr.proc \in Nat /\ xr.age \in Nat
    BY Types, Constants DEF Process, Procs
  <1>2. Gap * xr.proc \in Nat
    BY <1>1, Times
  <1>3. xr.age % 2 \in {0, 1}
    BY <1>1
  <1>4. Gap * xr.proc + (xr.age % 2) \in Nat
    BY <1>2, <1>3
  <1> QED BY <1>1, <1>4 DEF Probed, Observation, Seconds

\* AdvanceCapabilityGeneration.
LEMMA AdvancedType ==
  ASSUME NEW i \in Instance, NEW obs \in Observation, NEW suspect \in BOOLEAN,
         InBounds(Advanced(i, obs, suspect))
  PROVE  Advanced(i, obs, suspect) \in Instance /\ i.gen <= Advanced(i, obs, suspect).gen
  <1>0. i.gen <= i.gen /\ obs.epoch \in Seconds /\ obs.uptime \in Seconds
    BY Constants DEF Instance, Observation
  <1>1. CASE i.anchor = -1
    <2>1. Advanced(i, obs, suspect) = [i EXCEPT !.anchor = obs.epoch, !.uptime = obs.uptime]
      BY <1>1 DEF Advanced
    <2>2. [i EXCEPT !.anchor = obs.epoch, !.uptime = obs.uptime] \in Instance
      BY <1>0 DEF Instance
    <2>3. Advanced(i, obs, suspect).gen = i.gen
      BY <2>1 DEF Instance
    <2> QED BY <1>0, <2>1, <2>2, <2>3
  <1>2. CASE i.anchor # -1 /\ Restarted(i, obs, suspect)
    BY <1>2, Constants DEF Advanced, Instance, Observation, InBounds
  <1>3. CASE i.anchor # -1 /\ ~Restarted(i, obs, suspect)
    BY <1>3, Constants DEF Advanced, Instance, Observation
  <1> QED BY <1>1, <1>2, <1>3

LEMMA ReturnType ==
  ASSUME CapabilityTypeOK
  PROVE  Return \in Run /\ (Return.who = "none" <=> Return.pc = "free") /\ Return.gen = 0
         /\ Return.pc \in {"free", "next"} /\ Return.verdict = "unverified"
         /\ Return.obs = NoObs
  <1>1. run.todo \in SUBSET Templates
    BY Types DEF Run
  <1> QED BY <1>1, FreeType, Constants DEF Return, Free, Run, Phases

LEMMA JudgedType ==
  ASSUME CapabilityTypeOK, NEW r \in Template
  PROVE  Judged(r) \in Template
  <1>1. run.verdict \in States /\ run.gen \in 0 .. MaxGeneration /\ run.on \in Procs /\ run.contract \in Nat
    BY Types DEF Run
  <1>2. 0 \in 0 .. MaxGeneration /\ 0 \in Procs /\ 0 \in Nat
    BY Constants DEF Procs
  <1> QED BY <1>1, <1>2 DEF Judged, Template

\* A verdict keeps the revision and the contract.
LEMMA JudgedFacts ==
  ASSUME CapabilityTypeOK, NEW r \in Template
  PROVE  /\ Judged(r).rev = r.rev /\ Judged(r).contract = r.contract
         /\ Judged(r).state = run.verdict
         /\ run.verdict = "compatible" =>
               Judged(r).vgen = run.gen /\ Judged(r).for = run.contract /\ Judged(r).on = run.on
         /\ run.verdict # "compatible" => Judged(r).vgen = 0
  BY DEF Judged, Template

\* UpdateTemplate, Revalidate and InvalidateStaleCapabilityEvidence.
LEMMA WrittenFacts ==
  ASSUME CapabilityTypeOK, NEW r \in Template, NEW c \in BOOLEAN
  PROVE  /\ Written(r, c) \in Template /\ Written(r, c).rev = r.rev + 1
         /\ Written(r, c).vgen = r.vgen /\ Written(r, c).on = r.on /\ Written(r, c).for = r.for
         /\ ~c => Written(r, c).contract = r.contract
         /\ Written(r, c).state = IF c THEN "unverified" ELSE edit.state
  <1>1. edit.state \in States /\ "unverified" \in States
    BY Types DEF Edit, States
  <1>2. r.rev + 1 \in Nat /\ r.contract + 1 \in Nat
    BY DEF Template
  <1>3. CASE c
    BY <1>1, <1>2, <1>3 DEF Written, Template
  <1>4. CASE ~c
    BY <1>1, <1>2, <1>4 DEF Written, Template
  <1> QED BY <1>3, <1>4

LEMMA RequestedFacts ==
  ASSUME NEW r \in Template
  PROVE  /\ Requested(r) \in Template /\ Requested(r).rev = r.rev + 1
         /\ Requested(r).vgen = r.vgen /\ Requested(r).on = r.on /\ Requested(r).for = r.for
         /\ Requested(r).contract = r.contract /\ Requested(r).state = "unverified"
  <1>1. r.rev + 1 \in Nat /\ "unverified" \in States
    BY DEF Template, States
  <1> QED BY <1>1 DEF Requested, Template

LEMMA InvalidatedFacts ==
  ASSUME NEW r \in Template
  PROVE  /\ Invalidated(r) \in Template /\ Invalidated(r).rev = r.rev + 1
         /\ Invalidated(r).vgen = 0 /\ Invalidated(r).state = "unverified"
  <1>1. r.rev + 1 \in Nat /\ "unverified" \in States
    BY DEF Template, States
  <1>2. 0 \in 0 .. MaxGeneration /\ 0 \in Procs /\ 0 \in Nat
    BY Constants DEF Procs
  <1> QED BY <1>1, <1>2 DEF Invalidated, Template

LEMMA UpsetType ==
  ASSUME CapabilityTypeOK, UNCHANGED upsets \/ Upset
  PROVE  upsets' \in 0 .. MaxUpsets
  BY Types, Constants DEF Upset

LEMMA EnqueuedType ==
  ASSUME CapabilityTypeOK, NEW t \in Templates, Enqueued(t)
  PROVE  queue' \subseteq Templates
  BY Types DEF Enqueued

LEMMA BumpedFacts ==
  ASSUME CapabilityTypeOK, NEW ts, Bumped(ts)
  PROVE  edit' \in Edit /\ edit' \in {edit, NoEdit} /\ (edit.t \in ts => edit' = NoEdit)
  BY Types, IdleTypes DEF Bumped

----------------------------------------------------------------------------
(* What a step may do to each part of the invariant.                       *)

LEMMA GenMoves ==
  ASSUME CapabilityInv, CapabilityTypeOK', inst.gen <= inst'.gen,
         \A t \in Templates : tpl'[t].vgen \in {0, tpl[t].vgen, inst.gen, run.gen},
         run'.gen <= inst'.gen, create' \in {create, NoCreate}
  PROVE  GenSound' /\ AdmittedByOpenGate'
  <1>1. inst.gen \in Nat /\ inst'.gen \in Nat /\ run.gen \in Nat /\ create.vgen \in Nat
    BY Types, Constants DEF CapabilityInv, CapabilityTypeOK, Instance, Run, Create
  <1>2. \A t \in Templates : tpl[t].vgen \in Nat /\ tpl[t].vgen <= inst.gen
    BY Types, Constants DEF CapabilityInv, GenSound, Template
  <1>3. run.gen <= inst.gen
    BY DEF CapabilityInv, GenSound
  <1>4. \A t \in Templates : tpl'[t].vgen <= inst'.gen
    BY <1>1, <1>2, <1>3
  <1>5. create'.pc = "instance" /\ ~create'.open /\ create'.vgen > 0 => create'.vgen < inst'.gen
    BY <1>1 DEF CapabilityInv, GenSound, NoCreate
  <1> QED BY <1>4, <1>5 DEF GenSound, AdmittedByOpenGate, CapabilityInv, NoCreate

\* Rows keep the contract of a revision.
RowsMove ==
    \A t \in Templates :
       /\ tpl[t].rev <= tpl'[t].rev
       /\ tpl'[t].rev = tpl[t].rev => tpl'[t].contract = tpl[t].contract

LEMMA RowsStay ==
  ASSUME CapabilityInv, UNCHANGED tpl
  PROVE  RowsMove
  BY Types DEF CapabilityInv, RowsMove, Template

StartsOver == run'.pc \notin Validating \cup {"invalidate"} /\ run'.verdict = "unverified"
GoesOn ==
    /\ run.pc \in Validating /\ run'.pc \in Validating
    /\ run'.t = run.t /\ run'.rev = run.rev /\ run'.contract = run.contract
    /\ run'.verdict = "compatible" => run'.pc \in {"bind", "complete"}
Waits == run' = run /\ \A t \in Templates : tpl'[t].vgen <= tpl[t].vgen

LEMMA RunMoves ==
  ASSUME CapabilityInv, CapabilityTypeOK', RowsMove, StartsOver \/ GoesOn \/ Waits
  PROVE  RunSound'
  <1>0. \A t \in Templates : /\ tpl[t].rev \in Nat /\ tpl'[t].rev \in Nat
                             /\ tpl[t].vgen \in Nat /\ tpl'[t].vgen \in Nat
    BY Types, Constants DEF CapabilityInv, CapabilityTypeOK, Template
  <1>1. run.rev \in Nat /\ run.gen \in Nat
    BY Types, Constants DEF CapabilityInv, Run
  <1>2. CASE StartsOver
    BY <1>2 DEF RunSound, StartsOver
  <1>3. ASSUME run.pc \in Validating, run'.t = run.t, run'.rev = run.rev, run'.contract = run.contract
        PROVE  /\ run'.t \in Templates /\ run'.rev <= tpl'[run'.t].rev
               /\ run'.rev = tpl'[run'.t].rev => run'.contract = tpl'[run'.t].contract
    BY <1>0, <1>1, <1>3 DEF CapabilityInv, RunSound, RowsMove
  <1>4. CASE GoesOn
    BY <1>3, <1>4 DEF GoesOn, RunSound, Validating
  <1>5. CASE Waits
    <2>1. run'.pc = "invalidate" => \A t \in Templates : tpl'[t].vgen <= run'.gen
      BY <1>0, <1>1, <1>5 DEF Waits, CapabilityInv, RunSound
    <2> QED BY <1>3, <1>5, <2>1 DEF Waits, RunSound, CapabilityInv
  <1> QED BY <1>2, <1>4, <1>5

LEMMA FitMoves ==
  ASSUME CapabilityInv, UNCHANGED tpl, edit' \in {edit, NoEdit}
  PROVE  FitSound'
  BY Constants DEF CapabilityInv, FitSound, NoEdit, Fits

\* A step of the parts that the gate only reads.
LEMMA QuietStep ==
  ASSUME CapabilityInv, UNCHANGED <<tpl, run, inst>>, create' \in {create, NoCreate}, edit' \in {edit, NoEdit},
         xr' \in Process, col' \in Collector, queue' \subseteq Templates,
         degraded' \in BOOLEAN, upsets' \in 0 .. MaxUpsets, full' \subseteq Templates, known' = known
  PROVE  CapabilityInv'
  <1>1. CapabilityTypeOK'
    BY Types, IdleTypes DEF CapabilityInv, CapabilityTypeOK
  <1>2. inst.gen <= inst'.gen /\ run'.gen <= inst'.gen
    BY Types, Constants DEF CapabilityInv, Instance, GenSound
  <1>3. GenSound' /\ AdmittedByOpenGate'
    BY <1>1, <1>2, GenMoves
  <1>4. Waits
    BY Types, Constants DEF Waits, Template, CapabilityInv
  <1> QED BY <1>1, <1>3, <1>4, RowsStay, RunMoves, FitMoves DEF CapabilityInv

\* A step of the mutex's holder that leaves the rows alone.
LEMMA HolderStep ==
  ASSUME CapabilityInv, UNCHANGED <<xr, tpl, known, full>>,
         edit' \in {edit, NoEdit}, create' \in {create, NoCreate}, col' \in Collector,
         run' \in Run, run'.who = "none" <=> run'.pc = "free",
         inst' \in Instance, inst.gen <= inst'.gen, run'.gen <= inst'.gen,
         RunSound', queue' \subseteq Templates, degraded' \in BOOLEAN, upsets' \in 0 .. MaxUpsets
  PROVE  CapabilityInv'
  <1>1. CapabilityTypeOK'
    BY Types, IdleTypes DEF CapabilityInv, CapabilityTypeOK
  <1>2. GenSound' /\ AdmittedByOpenGate'
    BY <1>1, GenMoves
  <1> QED BY <1>1, <1>2, FitMoves DEF CapabilityInv

LEMMA RunMovesAlone ==
  ASSUME CapabilityInv, UNCHANGED tpl, StartsOver \/ GoesOn
  PROVE  RunSound'
  <1>1. CASE StartsOver
    BY <1>1 DEF RunSound, StartsOver
  <1>2. CASE GoesOn
    BY <1>2 DEF RunSound, GoesOn, CapabilityInv, Validating
  <1> QED BY <1>1, <1>2

LEMMA Bounds ==
  ASSUME CapabilityInv
  PROVE  inst.gen \in Nat /\ 1 <= inst.gen /\ run.gen \in Nat /\ run.gen <= inst.gen
         /\ inst.gen <= inst.gen /\ 0 <= inst.gen
  BY Types, Constants DEF CapabilityInv, GenSound, Instance, Run

----------------------------------------------------------------------------
(* The environment.                                                        *)

LEMMA TickStep ==
  ASSUME CapabilityInv, Tick
  PROVE  CapabilityInv'
  <1>1. xr' \in Process
    BY Types, Constants DEF CapabilityInv, Tick, Process
  <1> QED BY <1>1, Types, QuietStep DEF Tick, CapabilityInv

LEMMA XrayRestartStep ==
  ASSUME CapabilityInv, XrayRestart
  PROVE  CapabilityInv'
  <1>1. xr' \in Process
    BY Types, Constants DEF CapabilityInv, XrayRestart, Process, Procs
  <1> QED BY <1>1, Types, QuietStep DEF XrayRestart, CapabilityInv

LEMMA PanelRestartStep ==
  ASSUME CapabilityInv, PanelRestart
  PROVE  CapabilityInv'
  <1>1. StartsOver /\ run'.gen = 0 /\ run'.who = "none" /\ run'.pc = "free"
    BY DEF PanelRestart, StartsOver, Free, Validating
  <1>2. RunSound'
    BY <1>1, RunMovesAlone DEF PanelRestart
  <1>3. upsets' \in 0 .. MaxUpsets
    BY UpsetType DEF PanelRestart, CapabilityInv
  <1> QED BY <1>1, <1>2, <1>3, Bounds, Types, FreeType, IdleTypes, HolderStep DEF PanelRestart, CapabilityInv

LEMMA PoolStep ==
  ASSUME CapabilityInv, NEW t \in Templates, TakeLastPort(t) \/ FreePort(t)
  PROVE  CapabilityInv'
  <1>1. upsets' \in 0 .. MaxUpsets
    BY UpsetType DEF TakeLastPort, FreePort, CapabilityInv
  <1>2. full' \subseteq Templates
    BY Types DEF TakeLastPort, FreePort, CapabilityInv
  <1> QED BY <1>1, <1>2, Types, QuietStep DEF TakeLastPort, FreePort, CapabilityInv

----------------------------------------------------------------------------
(* RunValidation.                                                          *)

LEMMA ValidationProbeStep ==
  ASSUME CapabilityInv, ValidationProbe
  PROVE  CapabilityInv'
  <1>0. run \in Run /\ run.pc = "probe" /\ run.who # "none"
    BY Types DEF CapabilityInv, ValidationProbe, Holds
  <1>1. run' \in Run /\ run'.who = run.who /\ run'.pc # "free" /\ run'.gen = run.gen
    BY <1>0, ProbedType DEF ValidationProbe, Run, Phases, States, CapabilityInv
  <1>2. GoesOn
    BY <1>0 DEF ValidationProbe, GoesOn, Validating, Run, CapabilityInv, RunSound
  <1>3. RunSound'
    BY <1>2, RunMovesAlone DEF ValidationProbe
  <1>4. upsets' \in 0 .. MaxUpsets
    BY UpsetType DEF ValidationProbe, CapabilityInv
  <1> QED BY <1>0, <1>1, <1>3, <1>4, Bounds, Types, HolderStep DEF ValidationProbe, CapabilityInv

LEMMA ValidateTemplateStep ==
  ASSUME CapabilityInv, ValidateTemplate
  PROVE  CapabilityInv'
  <1>0. run \in Run /\ run.pc = "validate" /\ run.who # "none" /\ xr.proc \in Procs
    BY Types DEF CapabilityInv, ValidateTemplate, Holds, Process
  <1>1. PICK v \in States : run' = [run EXCEPT !.pc = "bind", !.on = xr.proc, !.verdict = v]
    BY DEF ValidateTemplate, States
  <1>2. run' \in Run /\ run'.who = run.who /\ run'.pc = "bind" /\ run'.gen = run.gen
    BY <1>0, <1>1 DEF Run, Phases
  <1>3. GoesOn
    BY <1>0, <1>1 DEF GoesOn, Validating, Run
  <1>4. RunSound'
    BY <1>3, RunMovesAlone DEF ValidateTemplate
  <1>5. upsets' \in 0 .. MaxUpsets
    BY UpsetType DEF ValidateTemplate, CapabilityInv
  <1> QED BY <1>0, <1>2, <1>4, <1>5, Bounds, Types, HolderStep DEF ValidateTemplate, CapabilityInv

LEMMA BindGenerationStep ==
  ASSUME CapabilityInv, BindGeneration
  PROVE  CapabilityInv'
  <1> DEFINE i == Advanced(inst, run.obs, FALSE)
  <1>0. run \in Run /\ run.pc = "bind" /\ run.who # "none" /\ run.obs \in Observation /\ inst \in Instance
    BY Types DEF CapabilityInv, BindGeneration, Holds, Run
  <1>1. i \in Instance /\ inst.gen <= i.gen
    BY <1>0, AdvancedType DEF BindGeneration
  <1>2. inst' = i /\ run' = [run EXCEPT !.pc = "complete", !.obs = NoObs, !.gen = i.gen]
    BY DEF BindGeneration
  <1> HIDE DEF i
  <1>3. i.gen \in 0 .. MaxGeneration /\ i.gen <= i.gen
    BY <1>1, Constants DEF Instance
  <1>4. run' \in Run /\ run'.who = run.who /\ run'.pc = "complete" /\ run'.gen = i.gen
    BY <1>0, <1>2, <1>3, NoObsType DEF Run, Phases
  <1>5. GoesOn
    BY <1>0, <1>2 DEF GoesOn, Validating, Run
  <1>6. RunSound'
    BY <1>5, RunMovesAlone DEF BindGeneration
  <1> QED BY <1>0, <1>1, <1>2, <1>3, <1>4, <1>6, Types, HolderStep DEF BindGeneration, CapabilityInv

LEMMA CompleteTemplateValidationStep ==
  ASSUME CapabilityInv, CompleteTemplateValidation
  PROVE  CapabilityInv'
  <1>0. run.pc = "complete" /\ run.t \in Templates /\ tpl[run.t] \in Template
    BY Types DEF CapabilityInv, CompleteTemplateValidation, Holds, RunSound, Validating
  <1>1. /\ tpl' \in [Templates -> Template]
        /\ \A t \in Templates : \/ tpl'[t] = tpl[t]
                                \/ t = run.t /\ Unedited(tpl[t]) /\ tpl'[t] = Judged(tpl[t])
    BY <1>0, Types, JudgedType DEF CapabilityInv, CompleteTemplateValidation
  <1>2. CapabilityTypeOK'
    BY <1>1, Types, ReturnType DEF CapabilityInv, CapabilityTypeOK, CompleteTemplateValidation
  <1>3. \A t \in Templates : tpl'[t].vgen \in {0, tpl[t].vgen, inst.gen, run.gen}
    BY <1>1, Types, JudgedFacts DEF CapabilityInv
  <1>4. GenSound' /\ AdmittedByOpenGate'
    BY <1>2, <1>3, ReturnType, Bounds, GenMoves DEF CompleteTemplateValidation, CapabilityInv
  <1>5. RowsMove
    BY <1>1, Types, JudgedFacts DEF RowsMove, CapabilityInv, Template
  <1>6. StartsOver
    BY ReturnType DEF CompleteTemplateValidation, CapabilityInv, StartsOver, Validating
  <1>7. RunSound'
    BY <1>2, <1>5, <1>6, RunMoves
  <1>8. ASSUME NEW t \in Templates,
               tpl'[t].state = "compatible" \/ (edit'.t = t /\ edit'.state = "compatible")
        PROVE  Fits(tpl'[t])
    <2>1. CASE tpl'[t] = tpl[t]
      BY <1>8, <2>1 DEF CapabilityInv, FitSound, CompleteTemplateValidation
    <2>2. CASE t = run.t /\ Unedited(tpl[t]) /\ tpl'[t] = Judged(tpl[t])
      <3>1. run.contract = tpl[t].contract
        BY <1>0, <2>2 DEF CapabilityInv, RunSound, Unedited, Validating
      <3>2. run.verdict \in States
        BY Types DEF CapabilityInv, Run
      <3> QED BY <2>2, <3>1, <3>2, <1>0, JudgedFacts DEF Fits, CapabilityInv
    <2> QED BY <1>1, <2>1, <2>2
  <1>9. edit' = NoEdit \/ edit'.t \in Templates
    BY DEF CapabilityInv, FitSound, CompleteTemplateValidation
  <1> QED BY <1>2, <1>4, <1>7, <1>8, <1>9 DEF CapabilityInv, FitSound

\* The record is read: revision and contract are of one row.
LEMMA StartValidationFacts ==
  ASSUME CapabilityInv, NEW t \in Templates, NEW r \in Run, r.verdict # "compatible", UNCHANGED tpl,
         StartValidation(t, r)
  PROVE  RunSound' /\ run' \in Run /\ run'.pc = "probe" /\ run'.who = r.who /\ run'.gen = r.gen
  <1>1. tpl[t].rev \in Nat /\ tpl[t].contract \in Nat
    BY Types DEF CapabilityInv, Template
  <1>2. run' \in Run
    BY <1>1 DEF StartValidation, Run, Phases
  <1>3. /\ run'.pc = "probe" /\ run'.who = r.who /\ run'.gen = r.gen /\ run'.t = t
        /\ run'.rev = tpl[t].rev /\ run'.contract = tpl[t].contract /\ run'.verdict = r.verdict
    BY DEF StartValidation, Run
  <1> QED BY <1>1, <1>2, <1>3 DEF RunSound

LEMMA ValidateNowStep ==
  ASSUME CapabilityInv, NEW t \in Templates, ValidateNow(t)
  PROVE  CapabilityInv'
  <1> DEFINE r == [Free EXCEPT !.who = "validator"]
  <1>1. r \in Run /\ r.verdict = "unverified" /\ r.gen = 0 /\ r.who = "validator"
    BY FreeType DEF Run, Free
  <1>2. RunSound' /\ run' \in Run /\ run'.pc = "probe" /\ run'.who = "validator" /\ run'.gen = 0
    BY <1>1, StartValidationFacts DEF ValidateNow
  <1>3. queue' \subseteq Templates
    BY Types DEF ValidateNow, CapabilityInv
  <1> QED BY <1>2, <1>3, Bounds, Types, HolderStep DEF ValidateNow, CapabilityInv

----------------------------------------------------------------------------
(* The reconciler's round.                                                 *)

LEMMA BeginRoundStep ==
  ASSUME CapabilityInv, BeginRound
  PROVE  CapabilityInv'
  <1>0. upsets' \in 0 .. MaxUpsets /\ degraded' \in BOOLEAN /\ degraded \in BOOLEAN
    BY UpsetType, Types DEF BeginRound, CapabilityInv
  <1>1. CASE UNCHANGED run
    BY <1>0, <1>1, Types, QuietStep DEF BeginRound, CapabilityInv
  <1>2. CASE run' = [Free EXCEPT !.who = "reconciler", !.pc = "list", !.obs = Probed, !.suspect = degraded]
    <2>1. run' \in Run
      BY <1>0, <1>2, FreeType, ProbedType DEF Run, Phases, CapabilityInv
    <2>2. run'.pc = "list" /\ run'.who = "reconciler" /\ run'.gen = 0 /\ run'.verdict = "unverified"
      BY <1>2 DEF Free
    <2>3. RunSound'
      BY <2>2, RunMovesAlone DEF BeginRound, StartsOver, Validating
    <2> QED BY <1>0, <2>1, <2>2, <2>3, Bounds, Types, HolderStep DEF BeginRound, CapabilityInv
  <1> QED BY <1>1, <1>2 DEF BeginRound

LEMMA ListNodeStep ==
  ASSUME CapabilityInv, ListNode
  PROVE  CapabilityInv'
  <1>0. /\ upsets' \in 0 .. MaxUpsets /\ degraded' \in BOOLEAN
        /\ run \in Run /\ run.pc = "list" /\ run.who # "none"
        /\ run.verdict \in States /\ run.verdict # "compatible"
    BY UpsetType, Types DEF ListNode, CapabilityInv, RunSound, Holds, Run
  <1> DEFINE behind == {t \in Templates : run.suspect /\ tpl[t].state = "unreachable"}
  <1>1. CASE run' = [run EXCEPT !.pc = "advance", !.todo = behind]
    <2>1. behind \in SUBSET Templates
      OBVIOUS
    <2> HIDE DEF behind
    <2>2. run' \in Run /\ run'.pc = "advance" /\ run'.who = run.who /\ run'.gen = run.gen /\ run'.verdict = run.verdict
      BY <1>0, <1>1, <2>1 DEF Run, Phases
    <2>3. RunSound'
      BY <1>0, <2>2 DEF RunSound, Validating
    <2> QED BY <1>0, <2>2, <2>3, Bounds, Types, HolderStep DEF ListNode, CapabilityInv
  <1>2. CASE run' = [run EXCEPT !.pc = "advance", !.suspect = TRUE]
    <2>1. run' \in Run /\ run'.pc = "advance" /\ run'.who = run.who /\ run'.gen = run.gen /\ run'.verdict = run.verdict
      BY <1>0, <1>2 DEF Run, Phases
    <2>2. RunSound'
      BY <1>0, <2>1 DEF RunSound, Validating
    <2> QED BY <1>0, <2>1, <2>2, Bounds, Types, HolderStep DEF ListNode, CapabilityInv
  <1>3. CASE run' = Free
    <2>1. RunSound' /\ run'.pc = "free" /\ run'.who = "none" /\ run'.gen = 0
      BY <1>3, RunMovesAlone DEF StartsOver, Free, Validating, ListNode
    <2> QED BY <1>0, <1>3, <2>1, FreeType, Bounds, Types, HolderStep DEF ListNode, CapabilityInv
  <1> QED BY <1>1, <1>2, <1>3 DEF ListNode

LEMMA AdvanceForRoundStep ==
  ASSUME CapabilityInv, AdvanceForRound
  PROVE  CapabilityInv'
  <1> DEFINE i == Advanced(inst, run.obs, run.suspect)
  <1>0. /\ run \in Run /\ run.pc = "advance" /\ run.who # "none" /\ run.obs \in Observation
        /\ run.suspect \in BOOLEAN /\ inst \in Instance /\ run.verdict # "compatible"
    BY Types DEF CapabilityInv, AdvanceForRound, Holds, Run, RunSound
  <1>1. i \in Instance /\ inst.gen <= i.gen
    BY <1>0, AdvancedType DEF AdvanceForRound
  <1>2. inst' = i /\ run' = [run EXCEPT !.pc = "invalidate", !.gen = i.gen, !.suspect = FALSE]
    BY DEF AdvanceForRound
  <1> HIDE DEF i
  <1>3. i.gen \in 0 .. MaxGeneration /\ i.gen \in Nat /\ i.gen <= i.gen
    BY <1>1, Constants DEF Instance
  <1>4. /\ run' \in Run /\ run'.who = run.who /\ run'.pc = "invalidate" /\ run'.gen = i.gen
        /\ run'.verdict = run.verdict
    BY <1>0, <1>2, <1>3 DEF Run, Phases
  <1>5. \A t \in Templates : tpl[t].vgen <= i.gen
    <2>1. \A t \in Templates : tpl[t].vgen \in Nat
      BY Types, Constants DEF CapabilityInv, Template
    <2> QED BY <2>1, <1>1, <1>3, Bounds DEF CapabilityInv, GenSound
  <1>6. RunSound'
    BY <1>0, <1>4, <1>5 DEF RunSound, Validating, AdvanceForRound
  <1> QED BY <1>0, <1>1, <1>2, <1>3, <1>4, <1>6, Types, HolderStep DEF AdvanceForRound, CapabilityInv

LEMMA InvalidateStaleStep ==
  ASSUME CapabilityInv, InvalidateStale
  PROVE  CapabilityInv'
  <1> DEFINE stale == {t \in Templates : Stale(tpl[t], run.gen)}
  <1>0. /\ run.pc = "invalidate" /\ run.obs.proc \in Procs
        /\ tpl' = [t \in Templates |-> IF t \in stale THEN Invalidated(tpl[t]) ELSE tpl[t]]
        /\ run' = [Return EXCEPT !.todo = Return.todo \cup stale]
        /\ Bumped(stale) /\ stale \in SUBSET Templates
    BY Types DEF InvalidateStale, Holds, CapabilityInv, Run, Observation
  <1> HIDE DEF stale
  <1>1. /\ tpl' \in [Templates -> Template]
        /\ \A t \in Templates : /\ t \in stale => tpl'[t] = Invalidated(tpl[t])
                                /\ t \notin stale => tpl'[t] = tpl[t]
    BY <1>0, Types, InvalidatedFacts DEF CapabilityInv
  <1>2. /\ run' \in Run /\ run'.who = Return.who /\ run'.pc = Return.pc /\ run'.gen = 0
        /\ run'.verdict = "unverified"
    BY <1>0, ReturnType DEF Run, CapabilityInv
  <1>3. CapabilityTypeOK'
    <2>1. edit' \in Edit /\ known' \in Procs
      BY <1>0, BumpedFacts DEF CapabilityInv, InvalidateStale
    <2> QED BY <1>1, <1>2, <2>1, Types, ReturnType DEF CapabilityInv, CapabilityTypeOK, InvalidateStale
  <1>4. GenSound' /\ AdmittedByOpenGate'
    <2>1. \A t \in Templates : tpl'[t].vgen \in {0, tpl[t].vgen, inst.gen, run.gen}
      BY <1>1, Types, InvalidatedFacts DEF CapabilityInv
    <2> QED BY <1>2, <1>3, <2>1, Bounds, GenMoves DEF InvalidateStale
  <1>5. RowsMove
    <2>1. \A t \in Templates : tpl[t] \in Template /\ tpl[t].rev \in Nat
      BY Types DEF CapabilityInv, Template
    <2>2. \A t \in Templates : tpl'[t].rev = tpl[t].rev + 1 \/ tpl'[t] = tpl[t]
      BY <1>1, <2>1, InvalidatedFacts
    <2> QED BY <2>1, <2>2 DEF RowsMove
  <1>6. RunSound'
    BY <1>2, <1>3, <1>5, ReturnType, RunMoves DEF StartsOver, Validating, CapabilityInv
  <1>7. FitSound'
    <2>1. edit' \in {edit, NoEdit}
      BY <1>0, BumpedFacts DEF CapabilityInv
    <2>2. \A t \in Templates : tpl'[t] = tpl[t] \/ Fits(tpl'[t])
      BY <1>1, Types, InvalidatedFacts DEF Fits, CapabilityInv
    <2> QED BY <2>1, <2>2, Constants DEF FitSound, CapabilityInv, NoEdit
  <1> QED BY <1>3, <1>4, <1>6, <1>7 DEF CapabilityInv

LEMMA RevalidateStep ==
  ASSUME CapabilityInv, Revalidate
  PROVE  CapabilityInv'
  <1>0. /\ run \in Run /\ run.pc = "next" /\ run.who # "none" /\ run.todo \in SUBSET Templates
        /\ run.verdict # "compatible"
    BY Types DEF CapabilityInv, Revalidate, Holds, Run, RunSound
  <1>1. CASE run' = Free
    <2>1. RunSound' /\ run'.pc = "free" /\ run'.who = "none" /\ run'.gen = 0
      BY <1>1, RunMovesAlone DEF StartsOver, Free, Validating, Revalidate
    <2> QED BY <1>1, <2>1, FreeType, Bounds, Types, HolderStep DEF Revalidate, CapabilityInv
  <1>2. ASSUME NEW t \in run.todo, StartValidation(t, [run EXCEPT !.todo = run.todo \ {t}])
        PROVE  CapabilityInv'
    <2> DEFINE r == [run EXCEPT !.todo = run.todo \ {t}]
    <2>1. r \in Run /\ r.who = run.who /\ r.gen = run.gen /\ r.verdict = run.verdict
      BY <1>0 DEF Run
    <2>2. StartValidation(t, r) /\ t \in Templates
      BY <1>0, <1>2
    <2> HIDE DEF r
    <2>3. RunSound' /\ run' \in Run /\ run'.pc = "probe" /\ run'.who = r.who /\ run'.gen = r.gen
      BY <1>0, <2>1, <2>2, StartValidationFacts DEF Revalidate
    <2> QED BY <1>0, <2>1, <2>3, Bounds, Types, HolderStep DEF Revalidate, CapabilityInv
  <1> QED BY <1>1, <1>2 DEF Revalidate

----------------------------------------------------------------------------
(* The collector, the synchronizer and administrators.                     *)

LEMMA CollectReadStep ==
  ASSUME CapabilityInv, CollectRead
  PROVE  CapabilityInv'
  <1>1. col' \in Collector
    BY ProbedType DEF CapabilityInv, CollectRead, Collector
  <1> QED BY <1>1, Types, QuietStep DEF CollectRead, CapabilityInv

LEMMA CollectNextBatchStep ==
  ASSUME CapabilityInv, CollectNextBatch
  PROVE  CapabilityInv'
  <1>1. [Probed EXCEPT !.uptime = 0] \in Observation
    BY ProbedType DEF CapabilityInv, Observation, Seconds
  <1>2. col' \in Collector
    BY <1>1, Types DEF CapabilityInv, CollectNextBatch, Collector
  <1> QED BY <1>2, Types, QuietStep DEF CollectNextBatch, CapabilityInv

LEMMA CollectAdvanceStep ==
  ASSUME CapabilityInv, CollectAdvance
  PROVE  CapabilityInv'
  <1>1. col.obs \in Observation /\ col.suspect \in BOOLEAN /\ inst \in Instance
    BY Types DEF CapabilityInv, Collector
  <1>2. inst' \in Instance /\ inst.gen <= inst'.gen
    BY <1>1, AdvancedType DEF CollectAdvance
  <1>3. run'.gen <= inst'.gen
    BY <1>2, Bounds, Constants DEF CollectAdvance, Instance
  <1>4. RunSound'
    BY DEF CapabilityInv, RunSound, CollectAdvance
  <1> QED BY <1>2, <1>3, <1>4, Types, IdleTypes, HolderStep DEF CollectAdvance, CapabilityInv

LEMMA ProfileRecoveredStep ==
  ASSUME CapabilityInv, NEW t \in Templates, ProfileRecovered(t)
  PROVE  CapabilityInv'
  BY Types, EnqueuedType, QuietStep DEF ProfileRecovered, CapabilityInv

\* Rows that change under nobody's mutex.
LEMMA RowStep ==
  ASSUME CapabilityInv, UNCHANGED <<xr, inst, run, col, create, degraded, known, full>>,
         tpl' \in [Templates -> Template], edit' \in Edit, queue' \subseteq Templates,
         upsets' \in 0 .. MaxUpsets, RowsMove, FitSound',
         \A t \in Templates : tpl'[t].vgen = tpl[t].vgen
  PROVE  CapabilityInv'
  <1>1. CapabilityTypeOK'
    BY Types DEF CapabilityInv, CapabilityTypeOK
  <1>2. GenSound' /\ AdmittedByOpenGate'
    BY <1>1, Bounds, GenMoves
  <1>3. Waits
    BY Types, Constants DEF Waits, CapabilityInv, Template
  <1> QED BY <1>1, <1>2, <1>3, RunMoves DEF CapabilityInv

LEMMA TrackDriftStep ==
  ASSUME CapabilityInv, NEW t \in Templates, TrackDrift(t)
  PROVE  CapabilityInv'
  <1>1. PICK s \in {"incompatible", "unreachable"} : tpl' = [tpl EXCEPT ![t].state = s]
    BY DEF TrackDrift
  <1>2. s \in States
    BY DEF States
  <1>3. tpl[t] \in Template /\ [tpl[t] EXCEPT !.state = s] \in Template
    BY <1>2, Types DEF CapabilityInv, Template
  <1>4. /\ tpl' \in [Templates -> Template]
        /\ \A x \in Templates : tpl'[x] = IF x = t THEN [tpl[t] EXCEPT !.state = s] ELSE tpl[x]
    BY <1>1, <1>3, Types DEF CapabilityInv
  <1>5. \A x \in Templates : /\ tpl'[x].rev = tpl[x].rev /\ tpl'[x].contract = tpl[x].contract
                             /\ tpl'[x].vgen = tpl[x].vgen /\ tpl'[x].for = tpl[x].for
                             /\ tpl'[x].state = "compatible" => tpl[x].state = "compatible"
    BY <1>3, <1>4 DEF Template
  <1>6. RowsMove
    BY <1>5, Types DEF RowsMove, CapabilityInv, Template
  <1>7. FitSound'
    BY <1>5 DEF FitSound, Fits, CapabilityInv, TrackDrift
  <1>8. upsets' \in 0 .. MaxUpsets
    BY UpsetType DEF TrackDrift, CapabilityInv
  <1> QED BY <1>4, <1>5, <1>6, <1>7, <1>8, Types, RowStep DEF TrackDrift, CapabilityInv

LEMMA BeginEditStep ==
  ASSUME CapabilityInv, NEW t \in Templates, BeginEdit(t)
  PROVE  CapabilityInv'
  <1>1. edit' \in Edit
    BY Types DEF CapabilityInv, BeginEdit, Edit, Template
  <1>2. FitSound'
    BY DEF CapabilityInv, FitSound, BeginEdit, Fits
  <1>3. upsets' \in 0 .. MaxUpsets
    BY UpsetType DEF BeginEdit, CapabilityInv
  <1> QED BY <1>1, <1>2, <1>3, RowsStay, Types, RowStep DEF BeginEdit, CapabilityInv

LEMMA UpdateTemplateStep ==
  ASSUME CapabilityInv, UpdateTemplate
  PROVE  CapabilityInv'
  <1>0. edit.t \in Templates /\ tpl[edit.t] \in Template
    BY Types DEF CapabilityInv, FitSound, UpdateTemplate
  <1>1. PICK c \in BOOLEAN : /\ tpl' = [tpl EXCEPT ![edit.t] = Written(tpl[edit.t], c)]
                            /\ IF c THEN Enqueued(edit.t) ELSE UNCHANGED queue
    BY DEF UpdateTemplate
  <1> DEFINE w == Written(tpl[edit.t], c)
  <1>2. /\ w \in Template /\ w.rev = tpl[edit.t].rev + 1 /\ w.vgen = tpl[edit.t].vgen /\ w.for = tpl[edit.t].for
        /\ ~c => w.contract = tpl[edit.t].contract
        /\ w.state = IF c THEN "unverified" ELSE edit.state
    BY <1>0, WrittenFacts DEF CapabilityInv
  <1> HIDE DEF w
  <1>3. /\ tpl' \in [Templates -> Template]
        /\ \A x \in Templates : tpl'[x] = IF x = edit.t THEN w ELSE tpl[x]
    BY <1>0, <1>1, <1>2, Types DEF CapabilityInv, w
  <1>4. RowsMove
    BY <1>0, <1>2, <1>3, Types DEF RowsMove, CapabilityInv, Template
  <1>5. FitSound'
    <2>1. ASSUME NEW x \in Templates, tpl'[x].state = "compatible"
          PROVE  Fits(tpl'[x])
      <3>1. CASE x = edit.t
        <4>1. tpl'[x] = w /\ ~c /\ edit.state = "compatible"
          BY <1>2, <1>3, <2>1, <3>1
        <4>2. Fits(tpl[x])
          BY <3>1, <4>1 DEF CapabilityInv, FitSound
        <4> QED BY <1>2, <3>1, <4>1, <4>2 DEF Fits
      <3>2. CASE x # edit.t
        BY <1>3, <2>1, <3>2 DEF CapabilityInv, FitSound, Fits
      <3> QED BY <3>1, <3>2
    <2> QED BY <2>1, Constants DEF FitSound, UpdateTemplate, NoEdit
  <1>6. queue' \subseteq Templates
    BY <1>0, <1>1, Types, EnqueuedType DEF CapabilityInv
  <1>7. edit' \in Edit
    BY IdleTypes DEF UpdateTemplate
  <1>8. \A x \in Templates : tpl'[x].vgen = tpl[x].vgen
    BY <1>2, <1>3
  <1> QED BY <1>3, <1>4, <1>5, <1>6, <1>7, <1>8, Types, RowStep DEF UpdateTemplate, CapabilityInv

LEMMA RequestRevalidationStep ==
  ASSUME CapabilityInv, NEW t \in Templates, RequestRevalidation(t)
  PROVE  CapabilityInv'
  <1> DEFINE w == Requested(tpl[t])
  <1>0. tpl[t] \in Template /\ Bumped({t}) /\ Enqueued(t)
    BY Types DEF CapabilityInv, RequestRevalidation
  <1>1. /\ w \in Template /\ w.rev = tpl[t].rev + 1 /\ w.vgen = tpl[t].vgen
        /\ w.contract = tpl[t].contract /\ w.for = tpl[t].for /\ w.state = "unverified"
    BY <1>0, RequestedFacts
  <1>2. tpl' = [tpl EXCEPT ![t] = w]
    BY DEF RequestRevalidation
  <1> HIDE DEF w
  <1>3. /\ tpl' \in [Templates -> Template]
        /\ \A x \in Templates : tpl'[x] = IF x = t THEN w ELSE tpl[x]
    BY <1>1, <1>2, Types DEF CapabilityInv
  <1>4. RowsMove
    BY <1>0, <1>1, <1>3, Types DEF RowsMove, CapabilityInv, Template
  <1>5. edit' \in Edit /\ edit' \in {edit, NoEdit} /\ (edit.t = t => edit' = NoEdit)
    BY <1>0, BumpedFacts DEF CapabilityInv
  <1>6. FitSound'
    BY <1>1, <1>3, <1>5, Constants DEF FitSound, Fits, CapabilityInv, NoEdit
  <1>7. queue' \subseteq Templates /\ upsets' \in 0 .. MaxUpsets
    BY <1>0, EnqueuedType, UpsetType DEF CapabilityInv, RequestRevalidation
  <1>8. \A x \in Templates : tpl'[x].vgen = tpl[x].vgen
    BY <1>1, <1>3
  <1> QED BY <1>3, <1>4, <1>5, <1>6, <1>7, <1>8, Types, RowStep DEF RequestRevalidation, CapabilityInv

\* CreateUser changes nothing else that the gate is about.
LEMMA CreateStep ==
  ASSUME CapabilityInv, UNCHANGED <<xr, inst, tpl, run, col, edit, queue, degraded, known, full>>,
         create' \in Create, upsets' \in 0 .. MaxUpsets, AdmittedByOpenGate',
         create'.pc = "instance" /\ ~create'.open /\ create'.vgen > 0 => create'.vgen < inst.gen
  PROVE  CapabilityInv'
  <1>1. CapabilityTypeOK'
    BY Types DEF CapabilityInv, CapabilityTypeOK
  <1>2. GenSound'
    BY DEF CapabilityInv, GenSound
  <1>3. RunSound' /\ FitSound'
    BY DEF CapabilityInv, RunSound, FitSound
  <1> QED BY <1>1, <1>2, <1>3 DEF CapabilityInv

LEMMA CreateReadTemplateStep ==
  ASSUME CapabilityInv, NEW t \in Templates, CreateReadTemplate(t)
  PROVE  CapabilityInv'
  <1> DEFINE o == GateOpen(tpl[t], inst)
  <1>0. o \in BOOLEAN
    BY DEF GateOpen
  <1>1. tpl[t].vgen \in 0 .. MaxGeneration /\ tpl[t].vgen \in Nat /\ tpl[t].vgen <= inst.gen
    BY Types, Constants DEF CapabilityInv, Template, GenSound
  <1>2. ~o /\ tpl[t].vgen > 0 => tpl[t].vgen < inst.gen
    BY <1>1, Bounds DEF GateOpen, CreateReadTemplate
  <1>3. create' = [pc |-> "instance", t |-> t, vgen |-> tpl[t].vgen, open |-> o]
    BY DEF CreateReadTemplate
  <1> HIDE DEF o
  <1>4. create' \in Create
    BY <1>0, <1>1, <1>3 DEF Create
  <1>5. AdmittedByOpenGate'
    BY <1>3 DEF AdmittedByOpenGate
  <1>6. create'.pc = "instance" /\ ~create'.open /\ create'.vgen > 0 => create'.vgen < inst.gen
    BY <1>0, <1>2, <1>3
  <1>7. upsets' \in 0 .. MaxUpsets
    BY UpsetType DEF CapabilityInv, CreateReadTemplate
  <1> QED BY <1>4, <1>5, <1>6, <1>7, CreateStep DEF CreateReadTemplate

LEMMA CreateReadInstanceStep ==
  ASSUME CapabilityInv, CreateReadInstance
  PROVE  CapabilityInv'
  <1>0. create \in Create /\ create.pc = "instance" /\ upsets \in 0 .. MaxUpsets
    BY Types DEF CapabilityInv, CreateReadInstance
  <1>1. CASE Passes(create.vgen)
    <2>1. create' = [create EXCEPT !.pc = "admitted"]
      BY <1>1 DEF CreateReadInstance
    <2>2. create' \in Create /\ create'.pc = "admitted" /\ create'.open = create.open
      BY <1>0, <2>1 DEF Create
    <2>3. create.open
      BY <1>0, <1>1, Bounds DEF CapabilityInv, GenSound, Passes
    <2>4. AdmittedByOpenGate'
      BY <2>2, <2>3 DEF AdmittedByOpenGate
    <2> QED BY <1>0, <2>2, <2>4, CreateStep DEF CreateReadInstance
  <1>2. CASE ~Passes(create.vgen)
    <2>1. create' = NoCreate
      BY <1>2 DEF CreateReadInstance
    <2> QED BY <1>0, <2>1, IdleTypes, CreateStep DEF CreateReadInstance, AdmittedByOpenGate, NoCreate
  <1> QED BY <1>1, <1>2

LEMMA CreateUserStep ==
  ASSUME CapabilityInv, CreateUser
  PROVE  CapabilityInv'
  BY Types, QuietStep DEF CreateUser, CapabilityInv

----------------------------------------------------------------------------
(* The gate's theorems.                                                    *)

LEMMA InitHolds ==
  ASSUME Init
  PROVE  CapabilityInv
  <1>1. /\ xr \in Process /\ inst \in Instance /\ tpl \in [Templates -> Template]
        /\ \A t \in Templates : tpl[t].vgen = 0 /\ tpl[t].state = "unverified"
    BY Constants DEF Init, Process, Instance, Template, Procs, Seconds, States
  <1>2. CapabilityTypeOK
    <2>1. run \in Run /\ run.who = "none" /\ run.pc = "free"
      BY FreeType DEF Init, Free
    <2>2. upsets = 0 /\ known = 0 /\ degraded \in BOOLEAN /\ queue \subseteq Templates /\ full \subseteq Templates
      BY DEF Init
    <2>3. 0 \in 0 .. MaxUpsets /\ 0 \in Procs
      BY Constants DEF Procs
    <2>4. col \in Collector /\ edit \in Edit /\ create \in Create
      BY IdleTypes DEF Init
    <2> QED BY <1>1, <2>1, <2>2, <2>3, <2>4 DEF CapabilityTypeOK
  <1>3. GenSound /\ AdmittedByOpenGate
    BY <1>1 DEF GenSound, AdmittedByOpenGate, Init, Free, NoCreate
  <1>4. RunSound /\ FitSound
    BY <1>1 DEF RunSound, FitSound, Fits, Init, Free, NoEdit, Validating
  <1> QED BY <1>2, <1>3, <1>4 DEF CapabilityInv

LEMMA StutterHolds ==
  ASSUME CapabilityInv, UNCHANGED vars
  PROVE  CapabilityInv'
  BY Types, QuietStep DEF vars, CapabilityInv

LEMMA NextHolds ==
  ASSUME CapabilityInv, [Next]_vars
  PROVE  CapabilityInv'
  BY TickStep, XrayRestartStep, PanelRestartStep, PoolStep, ValidationProbeStep, ValidateTemplateStep,
     BindGenerationStep, CompleteTemplateValidationStep, ValidateNowStep, BeginRoundStep,
     ListNodeStep, AdvanceForRoundStep, InvalidateStaleStep, RevalidateStep, CollectReadStep,
     CollectNextBatchStep, CollectAdvanceStep, ProfileRecoveredStep, TrackDriftStep, BeginEditStep,
     UpdateTemplateStep, RequestRevalidationStep, CreateReadTemplateStep, CreateReadInstanceStep,
     CreateUserStep, StutterHolds
     DEF Next, ValidationStep, RoundStep, AdminStep

\* The rows, the mutex's holder, the collector and the administrators keep
\* their types, generations only grow, and evidence fits the row it is on.
THEOREM CapabilityInvariant == Spec => []CapabilityInv
  <1>1. Init => CapabilityInv
    BY InitHolds
  <1>2. CapabilityInv /\ [Next]_vars => CapabilityInv'
    BY NextHolds
  <1> QED BY <1>1, <1>2, PTL DEF Spec

\* CreateUser: whoever passes both reads read an open gate first, although
\* the collector may advance the generation between the two.
THEOREM AdmittedByOpenGateHolds == Spec => []AdmittedByOpenGate
  <1>1. CapabilityInv => AdmittedByOpenGate
    BY DEF CapabilityInv
  <1> QED BY <1>1, CapabilityInvariant, PTL

\* CompleteTemplateValidation's condition on the revision, and the editor's,
\* keep a verdict from opening the gate for settings it was not about.
THEOREM VerdictFitsContractHolds == Spec => []VerdictFitsContract
  <1>1. CapabilityInv => VerdictFitsContract
    BY DEF CapabilityInv, FitSound, Fits, VerdictFitsContract, GateOpen
  <1> QED BY <1>1, CapabilityInvariant, PTL

----------------------------------------------------------------------------
(* Evidence and processes.                                                 *)

\* The second p started in, or the one after it.
Names(anchor, p) == anchor = Gap * p \/ anchor = Gap * p + 1

Observing == {"list", "advance", "invalidate", "validate", "bind"}

\* Nobody has seen a process that has not started yet; a verdict in progress
\* is of a process no older than the round's and the one before.
ProcSound ==
    /\ known <= xr.proc /\ run.obs.proc <= xr.proc
    /\ run.verdict = "compatible" => run.on >= known /\ run.on >= run.obs.proc

\* Every derived start time names a process.
ObsSound ==
    /\ run.pc \in Observing => Names(run.obs.epoch, run.obs.proc)
    /\ col.pc = "read" => Names(col.obs.epoch, col.obs.proc)
    /\ inst.anchor = -1 \/ \E p \in Procs : Names(inst.anchor, p)

\* The anchor of a generation names no process after the one that gave
\* evidence for the generation.
Anchored(anchor, on) == \E p \in Procs : p <= on /\ Names(anchor, p)

EvSound ==
    /\ \A t \in Templates :
          tpl[t].vgen > 0 /\ tpl[t].vgen = inst.gen => tpl[t].on >= known /\ Anchored(inst.anchor, tpl[t].on)
    /\ run.pc = "complete" /\ run.verdict = "compatible" /\ run.gen = inst.gen =>
          Anchored(inst.anchor, run.on)
    /\ run.pc = "invalidate" /\ run.gen = inst.gen => Names(inst.anchor, run.obs.proc)

EvidenceInv == ProcSound /\ ObsSound /\ EvSound

LEMMA NamesFacts ==
  ASSUME NEW p \in Nat, NEW a, Names(a, p)
  PROVE  a \in Nat
  BY Times DEF Names

\* Starts that are more than two seconds apart cannot be mistaken for one
\* another, although each wavers by one second.
LEMMA Apart ==
  ASSUME Gap > 2, NEW p \in Nat, NEW q \in Nat, NEW a, NEW b, Names(a, p), Names(b, q),
         ~RestartConfirmed(a, b)
  PROVE  p = q
  <1>0. a \in Nat /\ b \in Nat /\ Gap * p \in Nat /\ Gap * q \in Nat /\ Gap \in Nat
    BY NamesFacts, Times, Constants
  <1>1. a - b <= 1 /\ b - a <= 1
    BY <1>0 DEF RestartConfirmed, Distance
  <1>2. ASSUME NEW m \in Nat, NEW n \in Nat, m < n
        PROVE  Gap * m + Gap <= Gap * n
    <2>1. PICK k \in Nat : n = m + 1 + k
      <3>1. n - m - 1 \in Nat /\ n = m + 1 + (n - m - 1)
        BY <1>2
      <3> QED BY <3>1
    <2>2. Gap * n = Gap * m + Gap + Gap * k
      BY <1>0, <2>1
    <2>3. Gap * k \in Nat /\ Gap * m \in Nat
      BY Times
    <2> QED BY <1>0, <2>2, <2>3
  <1>3. CASE p < q
    BY <1>0, <1>1, <1>2, <1>3 DEF Names
  <1>4. CASE q < p
    BY <1>0, <1>1, <1>2, <1>4 DEF Names
  <1> QED BY <1>3, <1>4

LEMMA ProbedNames ==
  ASSUME CapabilityTypeOK
  PROVE  Names(Probed.epoch, Probed.proc)
  <1>1. xr.age \in Nat
    BY Types, Constants DEF Process
  <1>2. xr.age % 2 \in {0, 1}
    BY <1>1
  <1>3. Gap * xr.proc \in Nat
    BY Types, Times, Constants DEF Process, Procs
  <1> QED BY <1>2, <1>3 DEF Probed, Names

\* AdvanceCapabilityGeneration: afterwards the anchor names the observed
\* process, and a generation never changes the process it is anchored in.
LEMMA AdvancedNames ==
  ASSUME Gap > 2, NEW i \in Instance, NEW obs \in Observation, NEW suspect \in BOOLEAN,
         Names(obs.epoch, obs.proc), i.anchor = -1 \/ \E p \in Procs : Names(i.anchor, p)
  PROVE  /\ Names(Advanced(i, obs, suspect).anchor, obs.proc)
         /\ Advanced(i, obs, suspect).gen = i.gen =>
               i.anchor = -1 \/ Advanced(i, obs, suspect).anchor = i.anchor
  <1>0. obs.proc \in Nat /\ i.gen \in Nat /\ i.gen + 1 # i.gen /\ \A p \in Procs : p \in Nat
    BY Constants DEF Observation, Instance, Procs
  <1>1. CASE i.anchor = -1
    BY <1>1 DEF Advanced, Instance
  <1>2. CASE i.anchor # -1 /\ Restarted(i, obs, suspect)
    BY <1>0, <1>2 DEF Advanced
  <1>3. CASE i.anchor # -1 /\ ~Restarted(i, obs, suspect)
    <2>1. PICK p \in Procs : Names(i.anchor, p)
      BY <1>3
    <2>2. p = obs.proc
      BY <1>0, <1>3, <2>1, Apart DEF Restarted
    <2>3. Advanced(i, obs, suspect).anchor = i.anchor
      BY <1>3 DEF Advanced, Instance
    <2> QED BY <2>1, <2>2, <2>3
  <1> QED BY <1>1, <1>2, <1>3

\* What a step may do to the instance row.
InstMoves ==
    /\ inst.gen <= inst'.gen
    /\ inst'.gen = inst.gen => inst.anchor = -1 \/ inst'.anchor = inst.anchor
    /\ inst'.anchor = -1 \/ \E p \in Procs : Names(inst'.anchor, p)

LEMMA InstStays ==
  ASSUME CapabilityInv, EvidenceInv, UNCHANGED inst
  PROVE  InstMoves
  BY Bounds DEF InstMoves, EvidenceInv, ObsSound

LEMMA InstAdvances ==
  ASSUME Gap > 2, CapabilityInv, EvidenceInv, NEW obs \in Observation, NEW suspect \in BOOLEAN,
         Names(obs.epoch, obs.proc), inst' = Advanced(inst, obs, suspect),
         InBounds(Advanced(inst, obs, suspect))
  PROVE  InstMoves /\ Names(inst'.anchor, obs.proc) /\ obs.proc \in Procs
  <1>1. inst \in Instance /\ obs.proc \in Procs
    BY Types DEF CapabilityInv, Observation
  <1>2. inst.gen <= inst'.gen
    BY <1>1, AdvancedType
  <1>3. /\ Names(inst'.anchor, obs.proc)
        /\ inst'.gen = inst.gen => inst.anchor = -1 \/ inst'.anchor = inst.anchor
    BY <1>1, AdvancedNames DEF EvidenceInv, ObsSound
  <1> QED BY <1>1, <1>2, <1>3 DEF InstMoves

\* Evidence of the present generation stays anchored.
LEMMA StaysAnchored ==
  ASSUME CapabilityInv, InstMoves, NEW on, Anchored(inst.anchor, on), inst'.gen = inst.gen
  PROVE  Anchored(inst'.anchor, on)
  <1>1. PICK p \in Procs : p <= on /\ Names(inst.anchor, p)
    BY DEF Anchored
  <1>2. inst.anchor # -1
    BY <1>1, NamesFacts, Constants DEF Procs
  <1> QED BY <1>1, <1>2 DEF InstMoves, Anchored

\* No evidence is of a generation to come.
LEMMA SameGeneration ==
  ASSUME CapabilityInv, CapabilityInv', InstMoves, NEW g \in Nat, g <= inst.gen, g = inst'.gen
  PROVE  g = inst.gen /\ inst'.gen = inst.gen
  <1>1. inst.gen \in Nat
    BY Bounds
  <1>2. inst'.gen \in Nat
    BY Types, Constants DEF CapabilityInv, CapabilityTypeOK, Instance
  <1> QED BY <1>1, <1>2 DEF InstMoves

RowsKeepEvidence ==
    \A t \in Templates : \/ tpl'[t].vgen = 0
                         \/ tpl'[t].vgen = tpl[t].vgen /\ tpl'[t].on = tpl[t].on

LEMMA RowsEvidence ==
  ASSUME CapabilityInv, CapabilityInv', EvidenceInv, InstMoves, RowsKeepEvidence, UNCHANGED known,
         NEW t \in Templates, tpl'[t].vgen > 0, tpl'[t].vgen = inst'.gen
  PROVE  tpl'[t].on >= known' /\ Anchored(inst'.anchor, tpl'[t].on)
  <1>1. tpl'[t].vgen = tpl[t].vgen /\ tpl'[t].on = tpl[t].on
    BY DEF RowsKeepEvidence
  <1>2. tpl[t].vgen \in Nat /\ tpl[t].vgen <= inst.gen
    BY Types, Constants DEF CapabilityInv, Template, GenSound
  <1>3. tpl[t].vgen = inst.gen /\ inst'.gen = inst.gen
    BY <1>1, <1>2, SameGeneration
  <1>4. tpl[t].on >= known /\ Anchored(inst.anchor, tpl[t].on)
    BY <1>1, <1>3 DEF EvidenceInv, EvSound
  <1>5. Anchored(inst'.anchor, tpl[t].on)
    BY <1>3, <1>4, StaysAnchored
  <1> QED BY <1>1, <1>4, <1>5

LEMMA ProcTypes ==
  ASSUME CapabilityInv
  PROVE  /\ xr.proc \in Nat /\ xr.proc \in Procs /\ known \in Nat /\ run.on \in Nat /\ run.on \in Procs
         /\ run.obs.proc \in Nat /\ run.obs.proc \in Procs /\ col.obs.proc \in Procs
         /\ run.obs \in Observation /\ col.obs \in Observation
         /\ run.suspect \in BOOLEAN /\ col.suspect \in BOOLEAN
  <1>1. run.obs \in Observation /\ col.obs \in Observation /\ run.suspect \in BOOLEAN /\ col.suspect \in BOOLEAN
    BY Types DEF CapabilityInv, Run, Collector
  <1>2. xr.proc \in Procs /\ known \in Procs /\ run.on \in Procs
    BY Types DEF CapabilityInv, Process, Run
  <1> QED BY <1>1, <1>2, Constants DEF Observation, Procs

\* A run that neither invalidates nor brings a good verdict.
RunRests ==
    /\ run'.pc # "invalidate" /\ run'.verdict # "compatible" /\ run'.obs.proc <= xr'.proc
    /\ run'.pc \in Observing => Names(run'.obs.epoch, run'.obs.proc)

ColMoves == col'.pc = "read" => Names(col'.obs.epoch, col'.obs.proc)

XrMoves == xr.proc <= xr'.proc

LEMMA RunEvidence ==
  ASSUME CapabilityInv, CapabilityInv', EvidenceInv, InstMoves, UNCHANGED run
  PROVE  /\ run'.pc = "complete" /\ run'.verdict = "compatible" /\ run'.gen = inst'.gen =>
               Anchored(inst'.anchor, run'.on)
         /\ run'.pc = "invalidate" /\ run'.gen = inst'.gen => Names(inst'.anchor, run'.obs.proc)
  <1>1. ASSUME run.gen = inst'.gen
        PROVE  run.gen = inst.gen /\ inst'.gen = inst.gen
    BY <1>1, Bounds, SameGeneration
  <1>2. ASSUME run.pc = "complete", run.verdict = "compatible", run.gen = inst'.gen
        PROVE  Anchored(inst'.anchor, run.on)
    <2>1. Anchored(inst.anchor, run.on)
      BY <1>1, <1>2 DEF EvidenceInv, EvSound
    <2> QED BY <1>1, <1>2, <2>1, StaysAnchored
  <1>3. ASSUME run.pc = "invalidate", run.gen = inst'.gen
        PROVE  Names(inst'.anchor, run.obs.proc)
    <2>1. Names(inst.anchor, run.obs.proc)
      BY <1>1, <1>3 DEF EvidenceInv, EvSound
    <2>2. inst.anchor # -1
      BY <2>1, ProcTypes, NamesFacts
    <2> QED BY <1>1, <1>3, <2>1, <2>2 DEF InstMoves
  <1> QED BY <1>2, <1>3

LEMMA EvidenceMoves ==
  ASSUME CapabilityInv, CapabilityInv', EvidenceInv, InstMoves, RowsKeepEvidence, ColMoves, XrMoves,
         UNCHANGED known, UNCHANGED run \/ RunRests
  PROVE  EvidenceInv'
  <1>0. /\ xr.proc \in Nat /\ xr'.proc \in Nat /\ known \in Nat /\ run.obs.proc \in Nat
    BY ProcTypes, Types, Constants DEF CapabilityInv, CapabilityTypeOK, Process, Procs
  <1>1. \A t \in Templates :
          tpl'[t].vgen > 0 /\ tpl'[t].vgen = inst'.gen => tpl'[t].on >= known' /\ Anchored(inst'.anchor, tpl'[t].on)
    BY RowsEvidence
  <1>2. inst'.anchor = -1 \/ \E p \in Procs : Names(inst'.anchor, p)
    BY DEF InstMoves
  <1>3. known' <= xr'.proc
    BY <1>0 DEF EvidenceInv, ProcSound, XrMoves
  <1>4. CASE UNCHANGED run
    <2>1. ProcSound'
      BY <1>0, <1>3, <1>4 DEF EvidenceInv, ProcSound, XrMoves
    <2>2. ObsSound'
      BY <1>2, <1>4 DEF EvidenceInv, ObsSound, ColMoves
    <2>3. EvSound'
      BY <1>1, <1>4, RunEvidence DEF EvSound
    <2> QED BY <2>1, <2>2, <2>3 DEF EvidenceInv
  <1>5. CASE RunRests
    <2>1. ProcSound'
      BY <1>3, <1>5 DEF ProcSound, RunRests
    <2>2. ObsSound'
      BY <1>2, <1>5 DEF ObsSound, ColMoves, RunRests
    <2>3. EvSound'
      BY <1>1, <1>5 DEF EvSound, RunRests
    <2> QED BY <2>1, <2>2, <2>3 DEF EvidenceInv
  <1> QED BY <1>4, <1>5

LEMMA ColStays ==
  ASSUME EvidenceInv, UNCHANGED col
  PROVE  ColMoves
  BY DEF EvidenceInv, ObsSound, ColMoves

\* The frame of most steps.
LEMMA QuietEvidence ==
  ASSUME CapabilityInv, CapabilityInv', EvidenceInv, UNCHANGED <<inst, tpl, xr, known>>,
         UNCHANGED run \/ RunRests, ColMoves
  PROVE  EvidenceInv'
  BY InstStays, EvidenceMoves, ProcTypes DEF RowsKeepEvidence, XrMoves

LEMMA FreeRests ==
  ASSUME CapabilityInv, UNCHANGED xr, run' = Free
  PROVE  RunRests
  BY ProcTypes DEF RunRests, Free, NoObs, Observing

----------------------------------------------------------------------------
(* The steps that leave the evidence alone.                                *)

LEMMA EnvironmentEvidence ==
  ASSUME CapabilityInv, CapabilityInv', EvidenceInv, Tick \/ XrayRestart \/ PanelRestart
  PROVE  EvidenceInv'
  <1>1. CASE Tick
    <2>1. xr'.proc = xr.proc
      BY <1>1, Types DEF Tick, CapabilityInv, Process
    <2> QED BY <1>1, <2>1, InstStays, EvidenceMoves, ColStays, ProcTypes DEF RowsKeepEvidence, XrMoves, Tick
  <1>2. CASE XrayRestart
    <2>1. xr'.proc = xr.proc + 1
      BY <1>2 DEF XrayRestart
    <2> QED BY <1>2, <2>1, InstStays, EvidenceMoves, ColStays, ProcTypes DEF RowsKeepEvidence, XrMoves, XrayRestart
  <1>3. CASE PanelRestart
    <2>1. ColMoves
      BY <1>3 DEF ColMoves, PanelRestart, NoRound
    <2> QED BY <1>3, <2>1, FreeRests, QuietEvidence DEF PanelRestart
  <1> QED BY <1>1, <1>2, <1>3

LEMMA ValidationProbeEvidence ==
  ASSUME CapabilityInv, CapabilityInv', EvidenceInv, ValidationProbe
  PROVE  EvidenceInv'
  <1>1. run \in Run /\ run.pc = "probe" /\ run.verdict # "compatible"
    BY Types DEF CapabilityInv, ValidationProbe, Holds, RunSound
  <1>2. CASE run' = [run EXCEPT !.pc = "validate", !.obs = Probed]
    <2>1. run'.pc = "validate" /\ run'.obs = Probed /\ run'.verdict = run.verdict
      BY <1>1, <1>2 DEF Run
    <2>2. RunRests
      BY <1>1, <2>1, ProbedNames, ProbedType, ProcTypes DEF RunRests, CapabilityInv, ValidationProbe
    <2> QED BY <2>2, ColStays, QuietEvidence DEF ValidationProbe
  <1>3. CASE run' = [run EXCEPT !.pc = "complete", !.verdict = "unreachable"]
    <2>1. run'.pc = "complete" /\ run'.obs = run.obs /\ run'.verdict = "unreachable"
      BY <1>1, <1>3 DEF Run
    <2>2. RunRests
      BY <2>1 DEF RunRests, EvidenceInv, ProcSound, ValidationProbe, Observing
    <2> QED BY <2>2, ColStays, QuietEvidence DEF ValidationProbe
  <1> QED BY <1>2, <1>3 DEF ValidationProbe

LEMMA StartEvidence ==
  ASSUME CapabilityInv, EvidenceInv, NEW t, NEW r \in Run, StartValidation(t, r), UNCHANGED xr,
         r.verdict # "compatible", r.obs.proc <= xr.proc
  PROVE  RunRests
  <1>1. run'.pc = "probe" /\ run'.obs = r.obs /\ run'.verdict = r.verdict
    BY DEF StartValidation, Run
  <1> QED BY <1>1 DEF RunRests, Observing

LEMMA ValidateNowEvidence ==
  ASSUME CapabilityInv, CapabilityInv', EvidenceInv, NEW t \in Templates, ValidateNow(t)
  PROVE  EvidenceInv'
  <1> DEFINE r == [Free EXCEPT !.who = "validator"]
  <1>1. r \in Run /\ r.verdict = "unverified" /\ r.obs.proc = 0
    BY FreeType DEF Run, Free, NoObs
  <1>2. StartValidation(t, r) /\ UNCHANGED xr /\ 0 <= xr.proc
    BY ProcTypes DEF ValidateNow
  <1> HIDE DEF r
  <1>3. RunRests
    BY <1>1, <1>2, StartEvidence
  <1> QED BY <1>3, ColStays, QuietEvidence DEF ValidateNow

LEMMA BeginRoundEvidence ==
  ASSUME CapabilityInv, CapabilityInv', EvidenceInv, BeginRound
  PROVE  EvidenceInv'
  <1>1. CASE UNCHANGED run
    BY <1>1, ColStays, QuietEvidence DEF BeginRound
  <1>2. CASE run' = [Free EXCEPT !.who = "reconciler", !.pc = "list", !.obs = Probed, !.suspect = degraded]
    <2>1. run'.pc = "list" /\ run'.obs = Probed /\ run'.verdict = "unverified"
      BY <1>2 DEF Free
    <2>2. RunRests
      BY <2>1, ProbedNames, ProbedType, ProcTypes DEF RunRests, CapabilityInv, BeginRound
    <2> QED BY <2>2, ColStays, QuietEvidence DEF BeginRound
  <1> QED BY <1>1, <1>2 DEF BeginRound

LEMMA ListNodeEvidence ==
  ASSUME CapabilityInv, CapabilityInv', EvidenceInv, ListNode
  PROVE  EvidenceInv'
  <1>1. run \in Run /\ run.pc = "list" /\ run.verdict # "compatible"
    BY Types DEF CapabilityInv, ListNode, Holds, RunSound
  <1>2. CASE run' = Free
    BY <1>2, FreeRests, ColStays, QuietEvidence DEF ListNode
  <1>3. CASE run' # Free
    <2>1. run'.pc = "advance" /\ run'.obs = run.obs /\ run'.verdict = run.verdict
      BY <1>1, <1>3 DEF Run, ListNode
    <2>2. RunRests
      BY <1>1, <2>1 DEF RunRests, EvidenceInv, ProcSound, ObsSound, Observing, ListNode
    <2> QED BY <2>2, ColStays, QuietEvidence DEF ListNode
  <1> QED BY <1>2, <1>3

LEMMA RevalidateEvidence ==
  ASSUME CapabilityInv, CapabilityInv', EvidenceInv, Revalidate
  PROVE  EvidenceInv'
  <1>1. run \in Run /\ run.pc = "next" /\ run.verdict # "compatible" /\ run.todo \in SUBSET Templates
    BY Types DEF CapabilityInv, Revalidate, Holds, RunSound, Run
  <1>2. CASE run' = Free
    BY <1>2, FreeRests, ColStays, QuietEvidence DEF Revalidate
  <1>3. ASSUME NEW t \in run.todo, StartValidation(t, [run EXCEPT !.todo = run.todo \ {t}])
        PROVE  EvidenceInv'
    <2> DEFINE r == [run EXCEPT !.todo = run.todo \ {t}]
    <2>1. r \in Run /\ r.obs = run.obs /\ r.verdict = run.verdict
      BY <1>1 DEF Run
    <2>2. StartValidation(t, r)
      BY <1>3
    <2> HIDE DEF r
    <2>3. RunRests
      BY <1>1, <2>1, <2>2, StartEvidence DEF Revalidate, EvidenceInv, ProcSound
    <2> QED BY <2>3, ColStays, QuietEvidence DEF Revalidate
  <1> QED BY <1>2, <1>3 DEF Revalidate

LEMMA CollectorEvidence ==
  ASSUME CapabilityInv, CapabilityInv', EvidenceInv, CollectRead \/ CollectNextBatch
  PROVE  EvidenceInv'
  <1>1. CASE CollectRead
    <2>1. ColMoves
      BY <1>1, ProbedNames DEF ColMoves, CollectRead, CapabilityInv
    <2> QED BY <1>1, <2>1, QuietEvidence DEF CollectRead
  <1>2. CASE CollectNextBatch
    <2>1. col'.obs = [Probed EXCEPT !.uptime = 0]
      BY <1>2, Types DEF CollectNextBatch, CapabilityInv, Collector
    <2>2. col'.obs.epoch = Probed.epoch /\ col'.obs.proc = Probed.proc
      BY <2>1, ProbedType DEF Observation, CapabilityInv
    <2>3. ColMoves
      BY <2>2, ProbedNames DEF ColMoves, CapabilityInv
    <2> QED BY <1>2, <2>3, QuietEvidence DEF CollectNextBatch
  <1> QED BY <1>1, <1>2

LEMMA CreateEvidence ==
  ASSUME CapabilityInv, CapabilityInv', EvidenceInv,
         \/ CreateReadInstance \/ CreateUser
         \/ \E t \in Templates : \/ CreateReadTemplate(t) \/ BeginEdit(t) \/ ProfileRecovered(t)
                                \/ TakeLastPort(t) \/ FreePort(t)
  PROVE  EvidenceInv'
  <1>1. UNCHANGED <<inst, tpl, xr, known, run, col>>
    BY DEF CreateReadInstance, CreateUser, CreateReadTemplate, BeginEdit, ProfileRecovered,
           TakeLastPort, FreePort
  <1> QED BY <1>1, ColStays, QuietEvidence

\* An edit, a request or a drift keeps the evidence on the row.
LEMMA RowEvidence ==
  ASSUME CapabilityInv, CapabilityInv', EvidenceInv,
         UpdateTemplate \/ \E t \in Templates : RequestRevalidation(t) \/ TrackDrift(t)
  PROVE  EvidenceInv'
  <1>0. \A x \in Templates : tpl[x] \in Template
    BY Types DEF CapabilityInv
  <1>1. UNCHANGED <<inst, xr, known, run, col>>
    BY DEF UpdateTemplate, RequestRevalidation, TrackDrift
  <1>2. CASE UpdateTemplate
    <2>1. PICK c \in BOOLEAN : tpl' = [tpl EXCEPT ![edit.t] = Written(tpl[edit.t], c)]
      BY <1>2 DEF UpdateTemplate
    <2>2. \A x \in Templates : tpl'[x] = tpl[x] \/ tpl'[x] = Written(tpl[x], c)
      BY <2>1, Types DEF CapabilityInv
    <2>3. RowsKeepEvidence
      BY <1>0, <2>2, WrittenFacts DEF RowsKeepEvidence, CapabilityInv
    <2> QED BY <2>3, <1>1, InstStays, ColStays, ProcTypes, EvidenceMoves DEF XrMoves
  <1>3. ASSUME NEW t \in Templates, RequestRevalidation(t)
        PROVE  EvidenceInv'
    <2>1. \A x \in Templates : tpl'[x] = tpl[x] \/ tpl'[x] = Requested(tpl[x])
      BY <1>3, Types DEF CapabilityInv, RequestRevalidation
    <2>2. RowsKeepEvidence
      BY <1>0, <2>1, RequestedFacts DEF RowsKeepEvidence
    <2> QED BY <2>2, <1>1, InstStays, ColStays, ProcTypes, EvidenceMoves DEF XrMoves
  <1>4. ASSUME NEW t \in Templates, TrackDrift(t)
        PROVE  EvidenceInv'
    <2>1. PICK s : tpl' = [tpl EXCEPT ![t].state = s]
      BY <1>4 DEF TrackDrift
    <2>2. \A x \in Templates : tpl'[x] = tpl[x] \/ tpl'[x] = [tpl[x] EXCEPT !.state = s]
      BY <2>1, Types DEF CapabilityInv
    <2>3. RowsKeepEvidence
      BY <1>0, <2>2 DEF RowsKeepEvidence, Template
    <2> QED BY <2>3, <1>1, InstStays, ColStays, ProcTypes, EvidenceMoves DEF XrMoves
  <1> QED BY <1>2, <1>3, <1>4

----------------------------------------------------------------------------
(* The steps that make evidence, move the anchor or look at a process.     *)

LEMMA ValidateTemplateEvidence ==
  ASSUME CapabilityInv, CapabilityInv', EvidenceInv, ValidateTemplate
  PROVE  EvidenceInv'
  <1>1. run \in Run /\ run.pc = "validate"
    BY Types DEF CapabilityInv, ValidateTemplate, Holds
  <1>2. PICK v \in States : run' = [run EXCEPT !.pc = "bind", !.on = xr.proc, !.verdict = v]
    BY DEF ValidateTemplate, States
  <1>3. run'.pc = "bind" /\ run'.on = xr.proc /\ run'.obs = run.obs
    BY <1>1, <1>2 DEF Run
  <1>4. ProcSound'
    BY <1>3, ProcTypes DEF ProcSound, EvidenceInv, ValidateTemplate
  <1>5. ObsSound'
    BY <1>1, <1>3 DEF ObsSound, EvidenceInv, ValidateTemplate, Observing
  <1>6. EvSound'
    BY <1>3 DEF EvSound, EvidenceInv, ValidateTemplate
  <1> QED BY <1>4, <1>5, <1>6 DEF EvidenceInv

LEMMA BindGenerationEvidence ==
  ASSUME Gap > 2, CapabilityInv, CapabilityInv', EvidenceInv, BindGeneration
  PROVE  EvidenceInv'
  <1>1. run \in Run /\ run.pc = "bind" /\ Names(run.obs.epoch, run.obs.proc)
    BY Types DEF CapabilityInv, BindGeneration, Holds, EvidenceInv, ObsSound, Observing
  <1>2. InstMoves /\ Names(inst'.anchor, run.obs.proc) /\ run.obs.proc \in Procs
    BY <1>1, ProcTypes, InstAdvances DEF BindGeneration
  <1>3. run'.pc = "complete" /\ run'.obs = NoObs /\ run'.verdict = run.verdict /\ run'.on = run.on
    BY <1>1 DEF BindGeneration, Run
  <1>4. RowsKeepEvidence /\ UNCHANGED <<xr, col, known>>
    BY DEF RowsKeepEvidence, BindGeneration
  <1>5. ProcSound'
    BY <1>3, <1>4, ProcTypes DEF ProcSound, EvidenceInv, NoObs
  <1>6. ObsSound'
    BY <1>2, <1>3, <1>4 DEF ObsSound, EvidenceInv, InstMoves, Observing
  <1>7. run'.verdict = "compatible" => Anchored(inst'.anchor, run'.on)
    BY <1>2, <1>3, ProcTypes DEF Anchored, EvidenceInv, ProcSound
  <1>8. EvSound'
    BY <1>2, <1>3, <1>4, <1>7, RowsEvidence DEF EvSound
  <1> QED BY <1>5, <1>6, <1>8 DEF EvidenceInv

LEMMA CompleteEvidence ==
  ASSUME CapabilityInv, CapabilityInv', EvidenceInv, CompleteTemplateValidation
  PROVE  EvidenceInv'
  <1>0. run.pc = "complete" /\ \A t \in Templates : tpl[t] \in Template
    BY Types DEF CapabilityInv, CompleteTemplateValidation, Holds
  <1>1. \A t \in Templates : tpl'[t] = tpl[t] \/ tpl'[t] = Judged(tpl[t])
    BY Types DEF CapabilityInv, CompleteTemplateValidation
  <1>2. /\ run'.pc \in {"free", "next"} /\ run'.verdict = "unverified" /\ run'.obs = NoObs
        /\ UNCHANGED <<xr, inst, col, known>>
    BY ReturnType DEF CompleteTemplateValidation, CapabilityInv
  <1>3. ProcSound' /\ ObsSound'
    BY <1>2, ProcTypes DEF ProcSound, ObsSound, EvidenceInv, NoObs, Observing
  <1>4. ASSUME NEW t \in Templates, tpl'[t].vgen > 0, tpl'[t].vgen = inst'.gen
        PROVE  tpl'[t].on >= known' /\ Anchored(inst'.anchor, tpl'[t].on)
    <2>1. CASE tpl'[t] = tpl[t]
      BY <1>2, <1>4, <2>1 DEF EvidenceInv, EvSound
    <2>2. CASE tpl'[t] = Judged(tpl[t])
      <3>1. run.verdict = "compatible" /\ tpl'[t].vgen = run.gen /\ tpl'[t].on = run.on
        BY <1>0, <1>4, <2>2, JudgedFacts DEF CapabilityInv
      <3>2. Anchored(inst.anchor, run.on) /\ run.on >= known
        BY <1>0, <1>2, <1>4, <3>1 DEF EvidenceInv, EvSound, ProcSound
      <3> QED BY <1>2, <3>1, <3>2
    <2> QED BY <1>1, <2>1, <2>2
  <1>5. EvSound'
    BY <1>2, <1>4 DEF EvSound
  <1> QED BY <1>3, <1>5 DEF EvidenceInv

LEMMA AdvanceForRoundEvidence ==
  ASSUME Gap > 2, CapabilityInv, CapabilityInv', EvidenceInv, AdvanceForRound
  PROVE  EvidenceInv'
  <1>1. /\ run \in Run /\ run.pc = "advance" /\ Names(run.obs.epoch, run.obs.proc)
        /\ run.verdict # "compatible"
    BY Types DEF CapabilityInv, AdvanceForRound, Holds, EvidenceInv, ObsSound, Observing, RunSound
  <1>2. InstMoves /\ Names(inst'.anchor, run.obs.proc)
    BY <1>1, ProcTypes, InstAdvances DEF AdvanceForRound
  <1>3. run'.pc = "invalidate" /\ run'.obs = run.obs /\ run'.verdict = run.verdict
    BY <1>1 DEF AdvanceForRound, Run
  <1>4. RowsKeepEvidence /\ UNCHANGED <<xr, col, known>>
    BY DEF RowsKeepEvidence, AdvanceForRound
  <1>5. ProcSound'
    BY <1>1, <1>3, <1>4 DEF ProcSound, EvidenceInv
  <1>6. ObsSound'
    BY <1>1, <1>2, <1>3, <1>4 DEF ObsSound, EvidenceInv, InstMoves
  <1>7. EvSound'
    BY <1>1, <1>2, <1>3, <1>4, RowsEvidence DEF EvSound
  <1> QED BY <1>5, <1>6, <1>7 DEF EvidenceInv

\* The round looks at its process: what is left was probed on it or later.
LEMMA InvalidateStaleEvidence ==
  ASSUME Gap > 2, CapabilityInv, CapabilityInv', EvidenceInv, InvalidateStale
  PROVE  EvidenceInv'
  <1>0. run.pc = "invalidate" /\ \A t \in Templates : tpl[t] \in Template
    BY Types DEF CapabilityInv, InvalidateStale, Holds
  <1>1. \A t \in Templates : tpl'[t] = tpl[t] \/ tpl'[t] = Invalidated(tpl[t])
    BY DEF InvalidateStale
  <1>2. /\ run'.pc \in {"free", "next"} /\ run'.verdict = "unverified" /\ run'.obs = NoObs
        /\ UNCHANGED <<xr, inst, col>> /\ known' = run.obs.proc
    BY ReturnType DEF InvalidateStale, CapabilityInv, Run
  <1>3. ProcSound' /\ ObsSound'
    BY <1>2, ProcTypes DEF ProcSound, ObsSound, EvidenceInv, NoObs, Observing
  <1>4. ASSUME NEW t \in Templates, tpl'[t].vgen > 0, tpl'[t].vgen = inst'.gen
        PROVE  tpl'[t].on >= known' /\ Anchored(inst'.anchor, tpl'[t].on)
    <2>1. tpl'[t] = tpl[t]
      BY <1>0, <1>1, <1>4, InvalidatedFacts
    <2>2. Anchored(inst.anchor, tpl[t].on)
      BY <1>2, <1>4, <2>1 DEF EvidenceInv, EvSound
    <2>3. PICK p \in Procs : p <= tpl[t].on /\ Names(inst.anchor, p)
      BY <2>2 DEF Anchored
    <2>4. run.gen = inst.gen
      <3>1. tpl[t].vgen <= run.gen /\ tpl[t].vgen = inst.gen
        BY <1>0, <1>2, <1>4, <2>1 DEF CapabilityInv, RunSound
      <3> QED BY <3>1, Bounds
    <2>5. Names(inst.anchor, run.obs.proc)
      BY <1>0, <2>4 DEF EvidenceInv, EvSound
    <2>6. p \in Nat /\ run.obs.proc \in Nat
      BY ProcTypes, Constants DEF Procs
    <2>7. ~RestartConfirmed(inst.anchor, inst.anchor)
      BY <2>5, <2>6, NamesFacts DEF RestartConfirmed, Distance
    <2>8. p = run.obs.proc
      BY <2>3, <2>5, <2>6, <2>7, Apart
    <2>9. tpl[t].on \in Nat
      BY <1>0, Constants DEF Template, Procs
    <2> QED BY <1>2, <2>1, <2>2, <2>3, <2>6, <2>8, <2>9
  <1>5. EvSound'
    BY <1>2, <1>4 DEF EvSound
  <1> QED BY <1>3, <1>5 DEF EvidenceInv

LEMMA CollectAdvanceEvidence ==
  ASSUME Gap > 2, CapabilityInv, CapabilityInv', EvidenceInv, CollectAdvance
  PROVE  EvidenceInv'
  <1>1. Names(col.obs.epoch, col.obs.proc)
    BY DEF EvidenceInv, ObsSound, CollectAdvance
  <1>2. InstMoves
    BY <1>1, ProcTypes, InstAdvances DEF CollectAdvance
  <1>3. ColMoves
    BY DEF ColMoves, CollectAdvance, NoRound
  <1> QED BY <1>2, <1>3, EvidenceMoves, ProcTypes DEF CollectAdvance, RowsKeepEvidence, XrMoves

LEMMA InitEvidence ==
  ASSUME Init
  PROVE  EvidenceInv
  <1>1. \A t \in Templates : tpl[t].vgen = 0
    BY DEF Init
  <1>2. /\ xr.proc = 1 /\ known = 0 /\ inst.anchor = -1 /\ run = Free /\ col.pc = "idle"
    BY DEF Init, NoRound
  <1>3. ProcSound /\ ObsSound /\ EvSound
    BY <1>1, <1>2 DEF ProcSound, ObsSound, EvSound, Free, NoObs, Observing
  <1> QED BY <1>3 DEF EvidenceInv

LEMMA NextEvidence ==
  ASSUME Gap > 2, CapabilityInv, CapabilityInv', EvidenceInv, [Next]_vars
  PROVE  EvidenceInv'
  <1>1. CASE UNCHANGED vars
    BY <1>1, ColStays, QuietEvidence DEF vars
  <1> QED BY <1>1, EnvironmentEvidence, ValidationProbeEvidence, ValidateTemplateEvidence,
     BindGenerationEvidence, CompleteEvidence, ValidateNowEvidence, BeginRoundEvidence,
     ListNodeEvidence, AdvanceForRoundEvidence, InvalidateStaleEvidence, RevalidateEvidence,
     CollectorEvidence, CollectAdvanceEvidence, CreateEvidence, RowEvidence
     DEF Next, ValidationStep, RoundStep, AdminStep

\* AdvanceCapabilityGeneration and InvalidateStaleCapabilityEvidence: once a
\* round has looked at a process, no probe of an earlier one opens the gate,
\* however late observations are applied, provided that two starts are more
\* than two seconds apart.  Starts two seconds apart can differ by no more
\* than the tolerance, and then the statement is false.
THEOREM NoStaleEvidenceHolds ==
  ASSUME Gap > 2
  PROVE  Spec => []NoStaleEvidence
  <1>1. Init => EvidenceInv
    BY InitEvidence
  <1>2. CapabilityInv /\ CapabilityInv' /\ EvidenceInv /\ [Next]_vars => EvidenceInv'
    BY NextEvidence
  <1>3. EvidenceInv => NoStaleEvidence
    BY DEF EvidenceInv, EvSound, NoStaleEvidence, GateOpen
  <1> QED BY <1>1, <1>2, <1>3, CapabilityInvariant, PTL DEF Spec
=============================================================================
