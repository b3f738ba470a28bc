----------------------------- MODULE Capability -----------------------------
(***************************************************************************)
(* The capability gate: may new users be created on an inbound template?   *)
(*                                                                         *)
(* A template is probed on the running Xray process; the verdict is stored *)
(* with the capability generation, a counter that is meant to name that    *)
(* process.  The reconciler and the validator work under the node mutex;   *)
(* the collector, which also advances the generation, and administrators   *)
(* do not.  Each reads first and commits later.                            *)
(*                                                                         *)
(* Xray reports its uptime in whole seconds; the start time that the panel *)
(* derives from it wavers by one second.                                   *)
(***************************************************************************)
EXTENDS Integers, FiniteSets

CONSTANTS
    Templates,      \* inbound templates
    NoTemplate,
    Gap,            \* seconds between the starts of two Xray processes
    MaxAge,         \* bound on a process's uptime in seconds
    MaxProc,        \* bound on Xray processes
    MaxGeneration,  \* bound on generations
    MaxUpsets       \* bound on requests, failing calls, panel restarts and exhausted pools

ASSUME CapabilityAssumption ==
    /\ NoTemplate \notin Templates
    /\ Gap \in Nat /\ MaxAge \in Nat
    /\ MaxProc \in Nat \ {0} /\ MaxGeneration \in Nat \ {0}
    /\ MaxUpsets \in Nat

VARIABLES
    xr,      \* the running Xray process
    inst,    \* row of managed_xray_instances
    tpl,     \* template -> row of inbound_templates
    run,     \* the holder of the node mutex
    col,     \* the collector's round
    edit,    \* an administrator's edit of a template
    create,  \* an administrator's creation of a user
    queue,   \* the validator's channel
    degraded,\* the reconciler's flag: the last contact failed
    upsets,  \* requests and faults so far
    full,    \* templates whose port pool has no free port
    known    \* history: the process that the last finished invalidation had seen

vars == <<xr, inst, tpl, run, col, edit, create, queue, degraded, upsets, full, known>>

States  == {"unverified", "compatible", "incompatible", "unreachable"}
Seconds == Nat \cup {-1}
Procs   == 0 .. MaxProc

\* proc is history: the process that answered.
Observation == [epoch: Seconds, uptime: Seconds, proc: Procs]
NoObs       == [epoch |-> -1, uptime |-> 0, proc |-> 0]

Process  == [proc: Procs, age: 0 .. MaxAge, capable: BOOLEAN]
Instance == [anchor: Seconds, gen: 1 .. MaxGeneration, uptime: Seconds]   \* anchor -1: none
\* contract numbers the settings that are validated; on and for are history:
\* the process and the contract that the verdict of vgen was obtained with.
Template == [state: States, vgen: 0 .. MaxGeneration, rev: Nat, contract: Nat, on: Procs, for: Nat]

Phases == {"free", "list", "advance", "invalidate", "next",                 \* ReconcileOnce
           "probe", "validate", "bind", "complete"}                         \* RunValidation
Run == [who: {"none", "reconciler", "validator"}, pc: Phases,
        suspect: BOOLEAN,          \* the reconciler's SuspectedRestart
        todo: SUBSET Templates,    \* it still has these to validate
        obs: Observation, gen: 0 .. MaxGeneration,     \* its, then RunValidation's
        t: Templates \cup {NoTemplate}, rev: Nat, contract: Nat,
        verdict: States, on: Procs]

Free == [who |-> "none", pc |-> "free", suspect |-> FALSE, todo |-> {},
         obs |-> NoObs, gen |-> 0, t |-> NoTemplate, rev |-> 0, contract |-> 0,
         verdict |-> "unverified", on |-> 0]

\* suspect: the batches of the round disagree.
Collector == [pc: {"idle", "read"}, obs: Observation, suspect: BOOLEAN]
NoRound   == [pc |-> "idle", obs |-> NoObs, suspect |-> FALSE]

\* open is history: the gate was open when the template was read.
Create   == [pc: {"idle", "instance", "admitted"}, t: Templates \cup {NoTemplate},
             vgen: 0 .. MaxGeneration, open: BOOLEAN]
NoCreate == [pc |-> "idle", t |-> NoTemplate, vgen |-> 0, open |-> FALSE]

\* The verdict that an edit in progress has read.
Edit   == [t: Templates \cup {NoTemplate}, state: States]
NoEdit == [t |-> NoTemplate, state |-> "unverified"]

----------------------------------------------------------------------------
(* Observations and the capability generation.                             *)

\* Probe: the truncated clock less the truncated uptime is the second of the
\* start or the one after it, whichever the moment makes it.
Probed == [epoch |-> Gap * xr.proc + (xr.age % 2), uptime |-> xr.age, proc |-> xr.proc]

Distance(a, b) == IF a < b THEN b - a ELSE a - b

\* Seeded fault: the derived start time must differ by more than a long interval.
RestartConfirmed_Interval(stored, observed) == Distance(stored, observed) > 5

\* CapabilityGenerationTolerance is one second.
RestartConfirmed(stored, observed) == Distance(stored, observed) > 1

Restarted(i, obs, suspect) ==
    \/ RestartConfirmed(i.anchor, obs.epoch)
    \/ i.uptime > 0 /\ obs.uptime < i.uptime
    \/ suspect

\* AdvanceCapabilityGeneration: the first observation sets the anchor, a
\* restart moves it, any other keeps it and the larger uptime.
Advanced(i, obs, suspect) ==
    IF i.anchor = -1 THEN [i EXCEPT !.anchor = obs.epoch, !.uptime = obs.uptime]
    ELSE IF Restarted(i, obs, suspect)
    THEN [anchor |-> obs.epoch, gen |-> i.gen + 1, uptime |-> obs.uptime]
    ELSE [i EXCEPT !.uptime = IF obs.uptime > @ THEN obs.uptime ELSE @]

\* Past its bound the generation does not advance: the behaviour ends there.
InBounds(i) == i.gen <= MaxGeneration

\* UserService.CreateUser's two checks, on the rows as they are.
GateOpen(r, i) == r.state = "compatible" /\ r.vgen > 0 /\ r.vgen = i.gen

----------------------------------------------------------------------------
(* The environment.                                                        *)

Upset == upsets < MaxUpsets /\ upsets' = upsets + 1

Tick == /\ xr.age < MaxAge /\ xr' = [xr EXCEPT !.age = @ + 1]
        /\ UNCHANGED <<inst, tpl, run, col, edit, create, queue, degraded, upsets, known, full>>

\* A new Xray process, with or without what the templates need.
XrayRestart ==
    /\ xr.proc < MaxProc
    /\ \E c \in BOOLEAN : xr' = [proc |-> xr.proc + 1, age |-> 0, capable |-> c]
    /\ UNCHANGED <<inst, tpl, run, col, edit, create, queue, degraded, upsets, known, full>>

\* The panel dies and starts again: rows stay, goroutines start over.
PanelRestart ==
    /\ Upset
    /\ run' = Free /\ col' = NoRound /\ edit' = NoEdit /\ create' = NoCreate
    /\ queue' = {} /\ degraded' = FALSE
    /\ UNCHANGED <<xr, inst, tpl, known, full>>

\* A creation or a port change takes the last free port of the pool, or an
\* edit narrows the pool; removals and edits give ports back, or never do.
TakeLastPort(t) ==
    /\ Upset /\ t \notin full /\ full' = full \cup {t}
    /\ UNCHANGED <<xr, inst, tpl, run, col, edit, create, queue, degraded, known>>

FreePort(t) ==
    /\ t \in full /\ full' = full \ {t}
    /\ UNCHANGED <<xr, inst, tpl, run, col, edit, create, queue, degraded, upsets, known>>

\* Enqueue does not block: a full channel drops the request.
Enqueued(t) == \E drop \in BOOLEAN : queue' = IF drop THEN queue ELSE queue \cup {t}

----------------------------------------------------------------------------
(* RunValidation, for the validator and for the reconciler.                *)

Holds(pc) == run.pc = pc

\* The record is read, then Xray probed.
StartValidation(t, r) ==
    run' = [r EXCEPT !.pc = "probe", !.t = t, !.rev = tpl[t].rev, !.contract = tpl[t].contract]

\* Where RunValidation returns to.
Return == IF run.who = "validator" THEN Free
          ELSE [Free EXCEPT !.who = "reconciler", !.pc = "next", !.todo = run.todo]

ValidationProbe ==
    /\ Holds("probe")
    /\ \/ run' = [run EXCEPT !.pc = "validate", !.obs = Probed] /\ UNCHANGED upsets
       \/ /\ Upset
          /\ run' = [run EXCEPT !.pc = "complete", !.verdict = "unreachable"]
    /\ UNCHANGED <<xr, inst, tpl, col, edit, create, queue, degraded, known, full>>

\* The probe needs a free port: an exhausted pool says unverified, whatever
\* the node can do and as long as no port is freed.  With one, ValidateTemplate
\* judges the process that runs now; a retryable error says unreachable, any
\* other failure incompatible.
ValidateTemplate ==
    /\ Holds("validate")
    /\ \E v \in States :
          /\ run' = [run EXCEPT !.pc = "bind", !.on = xr.proc, !.verdict = v]
          /\ \/ run.t \in full /\ v = "unverified" /\ UNCHANGED upsets
             \/ /\ run.t \notin full
                /\ v = IF xr.capable THEN "compatible" ELSE "incompatible"
                /\ UNCHANGED upsets
             \/ run.t \notin full /\ Upset /\ v \in {"incompatible", "unreachable"}
    /\ UNCHANGED <<xr, inst, tpl, col, edit, create, queue, degraded, known, full>>

\* complete: the generation after the observation made before the validation.
BindGeneration ==
    /\ Holds("bind")
    /\ LET i == Advanced(inst, run.obs, FALSE) IN
          /\ InBounds(i)
          /\ inst' = i
          /\ run' = [run EXCEPT !.pc = "complete", !.obs = NoObs, !.gen = i.gen]
    /\ UNCHANGED <<xr, tpl, col, edit, create, queue, degraded, upsets, known, full>>

\* Seeded fault: the verdict is stored whatever the revision.
Unedited_Any(r) == TRUE

\* CompleteTemplateValidation: only for the revision that was validated.
Unedited(r) == r.rev = run.rev

Judged(r) ==
    LET c == run.verdict = "compatible" IN
    [r EXCEPT !.state = run.verdict, !.vgen = IF c THEN run.gen ELSE 0,
              !.on = IF c THEN run.on ELSE 0, !.for = IF c THEN run.contract ELSE 0]

CompleteTemplateValidation ==
    /\ Holds("complete")
    /\ tpl' = IF Unedited(tpl[run.t])
              THEN [tpl EXCEPT ![run.t] = Judged(tpl[run.t])]
              ELSE tpl
    /\ run' = Return
    /\ UNCHANGED <<xr, inst, col, edit, create, queue, degraded, upsets, known, full>>

----------------------------------------------------------------------------
(* The validator: its channel, and a sweep over what has no verdict.       *)

\* Seeded fault: the sweep only looks for what was unreachable.
Unjudged_Unreachable(r) == r.state = "unreachable"

Unjudged(r) == r.state \in {"unverified", "unreachable"}

\* SweepOnce or Run's channel, then ValidateNow.
ValidateNow(t) ==
    /\ run.who = "none"
    /\ \/ Unjudged(tpl[t]) /\ UNCHANGED queue
       \/ t \in queue /\ queue' = queue \ {t}
    /\ StartValidation(t, [Free EXCEPT !.who = "validator"])
    /\ UNCHANGED <<xr, inst, tpl, col, edit, create, degraded, upsets, known, full>>

----------------------------------------------------------------------------
(* The reconciler's round.                                                 *)

BeginRound ==
    /\ run.who = "none"
    /\ \/ /\ run' = [Free EXCEPT !.who = "reconciler", !.pc = "list", !.obs = Probed, !.suspect = degraded]
          /\ degraded' = FALSE /\ UNCHANGED upsets
       \/ Upset /\ degraded' = TRUE /\ UNCHANGED run
    /\ UNCHANGED <<xr, inst, tpl, col, edit, create, queue, known, full>>

\* Templates, users, inbounds.  A reconnect suspects a restart, and so does
\* the disappearance of every inbound that should listen (module Drift).
\* After a reconnect, templates that were unreachable are to be validated.
ListNode ==
    /\ Holds("list")
    /\ \/ /\ run' = [run EXCEPT !.pc = "advance",
                                !.todo = {t \in Templates : run.suspect /\ tpl[t].state = "unreachable"}]
          /\ UNCHANGED <<degraded, upsets>>
       \/ /\ Upset
          /\ run' = [run EXCEPT !.pc = "advance", !.suspect = TRUE]
          /\ UNCHANGED degraded
       \/ Upset /\ degraded' = TRUE /\ run' = Free
    /\ UNCHANGED <<xr, inst, tpl, col, edit, create, queue, known, full>>

AdvanceForRound ==
    /\ Holds("advance")
    /\ LET i == Advanced(inst, run.obs, run.suspect) IN
          /\ InBounds(i)
          /\ inst' = i
          /\ run' = [run EXCEPT !.pc = "invalidate", !.gen = i.gen, !.suspect = FALSE]
    /\ UNCHANGED <<xr, tpl, col, edit, create, queue, degraded, upsets, known, full>>

\* A revision that goes takes with it the edits that have read it: they are
\* refused when they commit.
Bumped(ts) == edit' = IF edit.t \in ts THEN NoEdit ELSE edit

Invalidated(r) == [r EXCEPT !.state = "unverified", !.vgen = 0, !.on = 0, !.for = 0, !.rev = @ + 1]

Stale(r, gen) == r.state = "compatible" /\ r.vgen # gen

\* InvalidateStaleCapabilityEvidence; what it returns is validated again.
InvalidateStale ==
    /\ Holds("invalidate")
    /\ LET stale == {t \in Templates : Stale(tpl[t], run.gen)} IN
          /\ tpl' = [t \in Templates |->
                        IF t \in stale THEN Invalidated(tpl[t]) ELSE tpl[t]]
          /\ run' = [Return EXCEPT !.todo = @ \cup stale]
          /\ Bumped(stale)
    /\ known' = run.obs.proc
    /\ UNCHANGED <<xr, inst, col, create, queue, degraded, upsets, full>>

Revalidate ==
    /\ Holds("next")
    /\ IF run.todo = {} THEN run' = Free
       ELSE \E t \in run.todo : StartValidation(t, [run EXCEPT !.todo = @ \ {t}])
    /\ UNCHANGED <<xr, inst, tpl, col, edit, create, queue, degraded, upsets, known, full>>

----------------------------------------------------------------------------
(* The collector, without the mutex.                                       *)

CollectRead ==
    /\ col.pc = "idle"
    /\ col' = [pc |-> "read", obs |-> Probed, suspect |-> FALSE]
    /\ UNCHANGED <<xr, inst, tpl, run, edit, create, queue, degraded, upsets, known, full>>

\* The next batch: the round is inconsistent when the start time moved by
\* more than the quantization or the uptime fell.
CollectNextBatch ==
    /\ col.pc = "read"
    /\ \/ RestartConfirmed(col.obs.epoch, Probed.epoch)
       \/ Probed.uptime < col.obs.uptime
    /\ col' = [col EXCEPT !.obs = [Probed EXCEPT !.uptime = 0], !.suspect = TRUE]
    /\ UNCHANGED <<xr, inst, tpl, run, edit, create, queue, degraded, upsets, known, full>>

\* advanceGeneration, or recordInconsistency.
CollectAdvance ==
    /\ col.pc = "read"
    /\ LET i == Advanced(inst, col.obs, col.suspect) IN InBounds(i) /\ inst' = i
    /\ col' = NoRound
    /\ UNCHANGED <<xr, tpl, run, edit, create, queue, degraded, upsets, known, full>>

----------------------------------------------------------------------------
(* The synchronizer, as far as templates see it; under the mutex.          *)

\* recordSuccess on a template that was unreachable.
ProfileRecovered(t) ==
    /\ run.who = "none" /\ tpl[t].state = "unreachable"
    /\ Enqueued(t)
    /\ UNCHANGED <<xr, inst, tpl, run, col, edit, create, degraded, upsets, known, full>>

\* trackDrift / SetTemplateCompatibility: no revision, no generation.
TrackDrift(t) ==
    /\ run.who = "none" /\ Upset
    /\ \E s \in {"incompatible", "unreachable"} : tpl' = [tpl EXCEPT ![t].state = s]
    /\ UNCHANGED <<xr, inst, run, col, edit, create, queue, degraded, known, full>>

----------------------------------------------------------------------------
(* Administrators.                                                         *)

\* UpdateTemplate reads the record ...
BeginEdit(t) ==
    /\ Upset /\ edit = NoEdit
    /\ edit' = [t |-> t, state |-> tpl[t].state]
    /\ UNCHANGED <<xr, inst, tpl, run, col, create, queue, degraded, known, full>>

\* ... and writes it back, the verdict included; another contract drops it.
Written(r, contractChanged) ==
    [r EXCEPT !.rev = @ + 1,
              !.contract = IF contractChanged THEN @ + 1 ELSE @,
              !.state = IF contractChanged THEN "unverified" ELSE edit.state]

UpdateTemplate ==
    /\ edit # NoEdit
    /\ \E contractChanged \in BOOLEAN :
          /\ tpl' = [tpl EXCEPT ![edit.t] = Written(tpl[edit.t], contractChanged)]
          /\ IF contractChanged THEN Enqueued(edit.t) ELSE UNCHANGED queue
    /\ edit' = NoEdit
    /\ UNCHANGED <<xr, inst, run, col, create, degraded, upsets, known, full>>

Requested(r) == [r EXCEPT !.state = "unverified", !.rev = @ + 1]

RequestRevalidation(t) ==
    /\ Upset
    /\ tpl' = [tpl EXCEPT ![t] = Requested(tpl[t])]
    /\ Enqueued(t) /\ Bumped({t})
    /\ UNCHANGED <<xr, inst, run, col, create, degraded, known, full>>

\* CreateUser reads the template ...
CreateReadTemplate(t) ==
    /\ Upset /\ create = NoCreate
    /\ tpl[t].state = "compatible"
    /\ create' = [pc |-> "instance", t |-> t, vgen |-> tpl[t].vgen,
                  open |-> GateOpen(tpl[t], inst)]
    /\ UNCHANGED <<xr, inst, tpl, run, col, edit, queue, degraded, known, full>>

\* Seeded fault: evidence of the generation before is good enough.
Passes_Previous(vgen) == vgen > 0 /\ vgen + 1 >= inst.gen

Passes(vgen) == vgen > 0 /\ vgen = inst.gen

\* ... then the instance; the commit (IntentStore) looks at neither again.
CreateReadInstance ==
    /\ create.pc = "instance"
    /\ create' = IF Passes(create.vgen) THEN [create EXCEPT !.pc = "admitted"] ELSE NoCreate
    /\ UNCHANGED <<xr, inst, tpl, run, col, edit, queue, degraded, upsets, known, full>>

CreateUser ==
    /\ create.pc = "admitted" /\ create' = NoCreate
    /\ UNCHANGED <<xr, inst, tpl, run, col, edit, queue, degraded, upsets, known, full>>

----------------------------------------------------------------------------
Init ==
    /\ \E c \in BOOLEAN : xr = [proc |-> 1, age |-> 0, capable |-> c]
    /\ inst = [anchor |-> -1, gen |-> 1, uptime |-> 0]
    /\ tpl = [t \in Templates |-> [state |-> "unverified", vgen |-> 0, rev |-> 0,
                                contract |-> 0, on |-> 0, for |-> 0]]
    /\ run = Free /\ col = NoRound /\ edit = NoEdit /\ create = NoCreate
    /\ queue = {} /\ degraded = FALSE /\ upsets = 0 /\ full = {} /\ known = 0

ValidationStep == ValidationProbe \/ ValidateTemplate \/ BindGeneration \/ CompleteTemplateValidation

RoundStep == ListNode \/ AdvanceForRound \/ InvalidateStale \/ Revalidate

AdminStep ==
    \/ \E t \in Templates : BeginEdit(t) \/ RequestRevalidation(t) \/ CreateReadTemplate(t)
    \/ UpdateTemplate \/ CreateReadInstance \/ CreateUser

Next ==
    \/ Tick \/ XrayRestart \/ PanelRestart
    \/ \E t \in Templates : TakeLastPort(t) \/ FreePort(t)
    \/ ValidationStep \/ (\E t \in Templates : ValidateNow(t))
    \/ BeginRound \/ RoundStep
    \/ CollectRead \/ CollectNextBatch \/ CollectAdvance
    \/ \E t \in Templates : ProfileRecovered(t) \/ TrackDrift(t)
    \/ AdminStep

\* Whoever holds the node mutex goes on (calls have a deadline); tickers start
\* rounds and sweeps, and sync.Mutex does not starve a waiter.  Nothing makes
\* an administrator act or the collector finish.
Fairness ==
    /\ WF_vars(ValidationStep \/ RoundStep)
    /\ SF_vars(BeginRound) /\ \A t \in Templates : SF_vars(ValidateNow(t))

Spec == Init /\ [][Next]_vars /\ Fairness

----------------------------------------------------------------------------
(* What the gate promises.                                                 *)

\* One holder of the mutex at a time does what its phase says.
CapabilityTypeOK ==
    /\ xr \in Process /\ inst \in Instance
    /\ tpl \in [Templates -> Template] /\ run \in Run
    /\ col \in Collector /\ edit \in Edit /\ create \in Create
    /\ queue \subseteq Templates /\ full \subseteq Templates
    /\ degraded \in BOOLEAN /\ upsets \in 0 .. MaxUpsets /\ known \in Procs
    /\ (run.who = "none") <=> (run.pc = "free")

\* Once a round has looked at a process, the gate is never opened by a probe
\* of an earlier one, although the collector advances the generation beside
\* the reconciler and observations are applied late (FR-005, FR-029).
NoStaleEvidence ==
    \A t \in Templates : GateOpen(tpl[t], inst) => tpl[t].on >= known

\* The gate is never opened by a probe of settings that an edit has replaced
\* since, although the probe takes long and an edit waits for nobody.
VerdictFitsContract ==
    \A t \in Templates : GateOpen(tpl[t], inst) => tpl[t].for = tpl[t].contract

\* A creation that passed its two reads was judged on a gate that was open
\* when the template was read, although both rows may change in between.
AdmittedByOpenGate == create.pc = "admitted" => create.open

\* When restarts, faults and edits end, every template whose pool has a free
\* port again, for good, gets a verdict from the running process or is
\* incompatible, also when the channel dropped the request.  A template whose
\* pool stays exhausted stays unverified: RunValidation does not probe it.
Settled(r) == \/ r.state = "incompatible"
              \/ GateOpen(r, inst) /\ r.on = xr.proc

Settles == \A t \in Templates : <>[](t \notin full) => <>[]Settled(tpl[t])
=============================================================================
