-------------------------- MODULE Commands_proofs --------------------------
(***************************************************************************)
(* Proofs about Commands, for any number of submissions, forms, sessions   *)
(* and payloads.  The argument: a command that is on record is never       *)
(* replaced, so whatever a submission has seen of it stays true.           *)
(***************************************************************************)
EXTENDS Commands, TLAPS

----------------------------------------------------------------------------
(* The inductive invariant.                                                *)

\* What a submission under way may rely on.  The last conjunct: a repetition
\* of a versioned form never gets past the search for its command.
SoundSubmission(q, known) ==
    /\ q.pc # "idle" => q.print \in Fingerprint
    /\ q.pc # "idle" /\ q.late => known[q.print.form] = q.print
    /\ q.pc = "answer" /\ q.result = "ok" => known[q.print.form] = q.print
    /\ q.pc # "idle" /\ q.late /\ q.print.form \in Versioned =>
          q.pc \in {"start", "answer"} /\ (q.pc = "answer" => q.result # "refused")

SubmissionsSound == \A r \in Requests : SoundSubmission(req[r], commands)

CommandsInv == CommandsTypeOK /\ TakesEffectOnce /\ SubmissionsSound

\* Commands on record stay on record.
Extends(old, new) == \A f \in Forms : old[f] # None => new[f] = old[f]

----------------------------------------------------------------------------

LEMMA InitSound == Init => CommandsInv
  <1> SUFFICES ASSUME Init PROVE CommandsInv
    OBVIOUS
  <1>1. CommandsTypeOK
    BY CountsAssumption DEF Init, CommandsTypeOK, NoSubmission, Submission, Results
  <1>2. TakesEffectOnce
    BY DEF Init, TakesEffectOnce
  <1>3. SubmissionsSound
    BY DEF Init, SubmissionsSound, SoundSubmission, NoSubmission
  <1> QED BY <1>1, <1>2, <1>3 DEF CommandsInv

LEMMA NoSubmissionSound ==
  ASSUME NEW known
  PROVE  NoSubmission \in Submission /\ SoundSubmission(NoSubmission, known)
  BY CountsAssumption DEF NoSubmission, Submission, SoundSubmission, Results

\* What a submission has seen of the commands outlives every commit.
LEMMA SoundAfter ==
  ASSUME NEW q \in Submission, NEW old, NEW new, Extends(old, new), SoundSubmission(q, old)
  PROVE  SoundSubmission(q, new)
  <1>1. q.pc # "idle" => q.print \in Fingerprint /\ q.print # None /\ q.print.form \in Forms
    BY NoneAssumption DEF SoundSubmission, Fingerprint
  <1> QED BY <1>1 DEF SoundSubmission, Extends

\* One submission goes on and nothing is committed.
LEMMA OneGoesOn ==
  ASSUME CommandsInv, NEW r \in Requests, UNCHANGED <<commands, effects>>,
         NEW q \in Submission, SoundSubmission(q, commands), req' = [req EXCEPT ![r] = q]
  PROVE  req' \in [Requests -> Submission] /\ TakesEffectOnce' /\ SubmissionsSound'
  BY DEF CommandsInv, CommandsTypeOK, TakesEffectOnce, SubmissionsSound

LEMMA RenderStep ==
  ASSUME CommandsInv, NEW f \in Forms, Render(f)
  PROVE  CommandsInv'
  <1>1. CommandsTypeOK'
    BY DEF CommandsInv, CommandsTypeOK, Render
  <1>2. TakesEffectOnce' /\ SubmissionsSound'
    BY DEF CommandsInv, Render, TakesEffectOnce, SubmissionsSound
  <1> QED BY <1>1, <1>2 DEF CommandsInv

LEMMA SubmitStep ==
  ASSUME CommandsInv, NEW r \in Requests, NEW f \in Forms, NEW s \in Sessions, NEW p \in Payloads,
         Submit(r, f, s, p)
  PROVE  CommandsInv'
  <1> DEFINE print == [session |-> s, form |-> f, payload |-> p]
             late == (commands[f] = print)
             q == [NoSubmission EXCEPT !.pc = "start", !.print = print, !.late = late]
  <1>1. print \in Fingerprint /\ print.form = f
    BY DEF Fingerprint
  <1>2. late \in BOOLEAN
    OBVIOUS
  <1>3. req' = [req EXCEPT ![r] = q]
    BY DEF Submit
  <1>4. q \in Submission /\ SoundSubmission(q, commands)
    <2>1. late => commands[f] = print
      OBVIOUS
    <2> HIDE DEF print, late
    <2>2. q \in Submission
      <3>1. NoSubmission \in Submission
        BY NoSubmissionSound
      <3> QED BY <1>1, <1>2, <3>1 DEF Submission
    <2>3. q.pc = "start" /\ q.print = print /\ q.late = late
      BY DEF NoSubmission
    <2> QED BY <1>1, <1>2, <2>1, <2>2, <2>3 DEF SoundSubmission
  <1>5. UNCHANGED rows
    BY DEF Submit
  <1> HIDE DEF q
  <1> QED BY <1>3, <1>4, <1>5, OneGoesOn DEF CommandsInv, CommandsTypeOK, rows

\* The searches, the checks, a rejected transaction and the answer.
LEMMA ServiceStep ==
  ASSUME CommandsInv, NEW r \in Requests,
         \/ FindVersioned(r) \/ CheckVersion(r) \/ ReadCycle(r) \/ FindReset(r)
         \/ CheckGates(r) \/ Reject(r) \/ Respond(r)
  PROVE  CommandsInv'
  <1>1. req[r] \in Submission /\ SoundSubmission(req[r], commands)
    BY DEF CommandsInv, CommandsTypeOK, SubmissionsSound
  <1>2. UNCHANGED rows
    BY DEF FindVersioned, CheckVersion, ReadCycle, FindReset, CheckGates, Reject, Respond
  <1>3. SUFFICES \E q \in Submission : SoundSubmission(q, commands) /\ req' = [req EXCEPT ![r] = q]
    BY <1>2, OneGoesOn DEF CommandsInv, CommandsTypeOK, rows
  <1> DEFINE Then(pc) == [req[r] EXCEPT !.pc = pc]
             Answer(result) == [req[r] EXCEPT !.pc = "answer", !.result = result]
  <1>4. \A pc \in {"check", "commit"} : Then(pc) \in Submission
    BY <1>1 DEF Submission
  <1>5. \A result \in Results : Answer(result) \in Submission
    BY <1>1 DEF Submission
  <1>6. ASSUME req[r].pc # "idle", ~(req[r].late /\ Form(r) \in Versioned)
        PROVE  /\ \A pc \in {"check", "commit"} : SoundSubmission(Then(pc), commands)
               /\ \A result \in {"refused", "error"} : SoundSubmission(Answer(result), commands)
    BY <1>1, <1>6 DEF SoundSubmission, Submission, Form
  <1>7. ASSUME req[r].pc # "idle", SameInput(r)
        PROVE  SoundSubmission(Answer("ok"), commands)
    BY <1>1, <1>7 DEF SoundSubmission, Submission, SameInput, Form
  <1>8. ASSUME req[r].pc # "idle", Repeated(r)
        PROVE  \E q \in Submission : SoundSubmission(q, commands) /\ req' = [req EXCEPT ![r] = q]
    <2>1. CASE SameInput(r)
      <3>1. req' = [req EXCEPT ![r] = Answer("ok")]
        BY <1>8, <2>1 DEF Repeated, Answers
      <3> QED BY <1>5, <1>7, <1>8, <2>1, <3>1 DEF Results
    <2>2. CASE ~SameInput(r)
      <3>1. req' = [req EXCEPT ![r] = Answer("refused")]
        BY <1>8, <2>2 DEF Repeated, Answers
      <3>2. ~req[r].late
        BY <1>1, <1>8, <2>2 DEF SoundSubmission, SameInput, Form
      <3> QED BY <1>5, <1>6, <1>8, <3>1, <3>2 DEF Results
    <2> QED BY <2>1, <2>2
  <1>9. CASE FindVersioned(r)
    <2>1. CASE commands[Form(r)] = None
      <3>1. req' = [req EXCEPT ![r] = Then("check")]
        BY <1>9, <2>1 DEF FindVersioned, Goes
      <3>2. req[r].pc = "start"
        BY <1>9 DEF FindVersioned, At
      <3>3. ~req[r].late
        BY <1>1, <2>1, <3>2, NoneAssumption DEF SoundSubmission, Form
      <3> QED BY <1>4, <1>6, <3>1, <3>2, <3>3
    <2>2. CASE commands[Form(r)] # None
      BY <1>8, <1>9, <2>2 DEF FindVersioned, At
    <2> QED BY <2>1, <2>2
  <1>10. CASE CheckVersion(r)
    <2>1. req[r].pc = "check" /\ Form(r) \in Versioned
      BY <1>10 DEF CheckVersion, At
    <2>2. ~req[r].late
      BY <1>1, <2>1 DEF SoundSubmission, Form
    <2>3. req' = [req EXCEPT ![r] = Answer("refused")] \/ req' = [req EXCEPT ![r] = Then("commit")]
      BY <1>10 DEF CheckVersion, Answers, Goes
    <2> QED BY <1>4, <1>5, <1>6, <2>1, <2>2, <2>3 DEF Results
  <1>11. CASE ReadCycle(r)
    <2> DEFINE q == [req[r] EXCEPT !.pc = "check", !.cycle = user.cycle]
    <2>1. req[r].pc = "start" /\ Form(r) \notin Versioned
      BY <1>11, FormsAssumption DEF ReadCycle, At
    <2>2. req' = [req EXCEPT ![r] = Answer("refused")] \/ req' = [req EXCEPT ![r] = q]
      BY <1>11 DEF ReadCycle, Answers
    <2>3. user.cycle \in 0 .. MaxCycle
      BY DEF CommandsInv, CommandsTypeOK
    <2>4. q \in Submission
      BY <1>1, <2>3 DEF Submission
    <2>5. SoundSubmission(q, commands)
      BY <1>1, <2>1 DEF SoundSubmission, Submission, Form
    <2> QED BY <1>5, <1>6, <2>1, <2>2, <2>4, <2>5 DEF Results
  <1>12. CASE FindReset(r)
    <2>1. req[r].pc = "check" /\ Form(r) \notin Versioned
      BY <1>12, FormsAssumption DEF FindReset, At
    <2>2. CASE commands[Form(r)] = None
      <3>1. req' = [req EXCEPT ![r] = Then("commit")]
        BY <1>12, <2>2 DEF FindReset, Goes
      <3> QED BY <1>4, <1>6, <2>1, <3>1
    <2>3. CASE commands[Form(r)] # None
      BY <1>8, <1>12, <2>1, <2>3 DEF FindReset
    <2> QED BY <2>2, <2>3
  <1>13. CASE CheckGates(r)
    <2>1. req[r].pc = "start" /\ Form(r) \notin Versioned
      BY <1>13, FormsAssumption DEF CheckGates, At
    <2>2. req' = [req EXCEPT ![r] = Answer("refused")] \/ req' = [req EXCEPT ![r] = Then("commit")]
      BY <1>13 DEF CheckGates, Answers, Goes
    <2> QED BY <1>4, <1>5, <1>6, <2>1, <2>2 DEF Results
  <1>14. CASE Reject(r)
    <2>1. req[r].pc = "commit"
      BY <1>14 DEF Reject, At
    <2>2. ~(req[r].late /\ Form(r) \in Versioned)
      BY <1>1, <2>1 DEF SoundSubmission, Form
    <2>3. CASE Repeated(r)
      BY <1>8, <2>1, <2>3
    <2>4. CASE Answers(r, "refused") \/ Answers(r, "error")
      <3>1. req' = [req EXCEPT ![r] = Answer("refused")] \/ req' = [req EXCEPT ![r] = Answer("error")]
        BY <2>4 DEF Answers
      <3> QED BY <1>5, <1>6, <2>1, <2>2, <3>1 DEF Results
    <2> QED BY <1>14, <2>3, <2>4 DEF Reject
  <1>15. CASE Respond(r)
    BY <1>15, NoSubmissionSound DEF Respond
  <1> QED BY <1>9, <1>10, <1>11, <1>12, <1>13, <1>14, <1>15

LEMMA CommitStep ==
  ASSUME CommandsInv, NEW r \in Requests, Commit(r)
  PROVE  CommandsInv'
  <1> DEFINE f == Form(r)
             q == [req[r] EXCEPT !.pc = "answer", !.result = "ok"]
  <1>1. req[r] \in Submission /\ SoundSubmission(req[r], commands) /\ req[r].pc = "commit"
    BY DEF CommandsInv, CommandsTypeOK, SubmissionsSound, Commit, At
  <1>2. req[r].print \in Fingerprint /\ f \in Forms /\ commands[f] = None
    BY <1>1 DEF SoundSubmission, Commit, Known, At
  <1>3. /\ commands' = [commands EXCEPT ![f] = req[r].print]
        /\ effects' = [effects EXCEPT ![f] = @ + 1]
        /\ req' = [req EXCEPT ![r] = q]
    BY DEF Commit, Saved, Answers
  <1>4. commands \in [Forms -> Fingerprint \cup {None}] /\ effects \in [Forms -> Nat]
        /\ req \in [Requests -> Submission]
    BY DEF CommandsInv, CommandsTypeOK
  <1>5. Extends(commands, commands')
    BY <1>2, <1>3, <1>4 DEF Extends
  <1>6. q \in Submission
    BY <1>1 DEF Submission, Results
  <1>7. commands'[req[r].print.form] = req[r].print
    BY <1>2, <1>3, <1>4 DEF Form
  <1>8. SoundSubmission(q, commands')
    <2>1. SoundSubmission(req[r], commands')
      BY <1>1, <1>5, SoundAfter
    <2> QED BY <1>1, <1>7, <2>1 DEF SoundSubmission, Submission
  <1>9. CommandsTypeOK'
    <2>1. user' \in [rev: Nat, deleted: BOOLEAN, cycle: 0 .. MaxCycle]
      <3>1. user \in [rev: Nat, deleted: BOOLEAN, cycle: 0 .. MaxCycle]
        BY DEF CommandsInv, CommandsTypeOK
      <3> DEFINE n == IF f \in Versioned THEN user.rev + 1 ELSE user.rev
                 b == user.deleted \/ f \in Deletes
      <3>2. user' = [user EXCEPT !.rev = n, !.deleted = b]
        BY DEF Commit
      <3>3. n \in Nat
        BY <3>1
      <3>4. b \in BOOLEAN
        OBVIOUS
      <3> HIDE DEF n, b
      <3> QED BY <3>1, <3>2, <3>3, <3>4
    <2>2. made' \subseteq Creates
      BY DEF CommandsInv, CommandsTypeOK, Commit
    <2>3. commands' \in [Forms -> Fingerprint \cup {None}] /\ effects' \in [Forms -> Nat]
      BY <1>2, <1>3, <1>4
    <2>4. req' \in [Requests -> Submission]
      BY <1>3, <1>4, <1>6
    <2>5. gate' \in BOOLEAN /\ pages' \in [Forms -> Nat \cup {-1}]
      BY DEF CommandsInv, CommandsTypeOK, Commit
    <2> QED BY <2>1, <2>2, <2>3, <2>4, <2>5 DEF CommandsTypeOK
  <1>10. TakesEffectOnce'
    <2>1. effects[f] = 0
      BY <1>2 DEF CommandsInv, TakesEffectOnce
    <2>2. commands'[f] # None /\ effects'[f] = 1
      BY <1>2, <1>3, <1>4, <2>1, NoneAssumption
    <2>3. \A g \in Forms : g # f => commands'[g] = commands[g] /\ effects'[g] = effects[g]
      BY <1>3, <1>4
    <2> QED BY <2>2, <2>3 DEF CommandsInv, TakesEffectOnce
  <1>11. SubmissionsSound'
    <2> SUFFICES ASSUME NEW x \in Requests PROVE SoundSubmission(req'[x], commands')
      BY DEF SubmissionsSound
    <2>1. CASE x = r
      BY <1>3, <1>4, <1>8, <2>1
    <2>2. CASE x # r
      <3>1. req'[x] = req[x] /\ req[x] \in Submission /\ SoundSubmission(req[x], commands)
        BY <1>3, <1>4, <2>2 DEF CommandsInv, SubmissionsSound
      <3> QED BY <1>5, <3>1, SoundAfter
    <2> QED BY <2>1, <2>2
  <1> QED BY <1>9, <1>10, <1>11 DEF CommandsInv

LEMMA OtherStep ==
  ASSUME CommandsInv, OtherEdit \/ NextCycle \/ GateMoves \/ PanelStops \/ UNCHANGED vars
  PROVE  CommandsInv'
  <1>1. UNCHANGED <<commands, effects, pages, made>>
    BY DEF OtherEdit, NextCycle, GateMoves, PanelStops, vars, rows
  <1>2. user' \in [rev: Nat, deleted: BOOLEAN, cycle: 0 .. MaxCycle]
    <2>1. user \in [rev: Nat, deleted: BOOLEAN, cycle: 0 .. MaxCycle]
      BY DEF CommandsInv, CommandsTypeOK
    <2>2. CASE OtherEdit
      BY <2>1, <2>2 DEF OtherEdit
    <2>3. CASE NextCycle
      BY <2>1, <2>3, CountsAssumption DEF NextCycle
    <2>4. CASE GateMoves \/ PanelStops \/ UNCHANGED vars
      BY <2>1, <2>4 DEF GateMoves, PanelStops, vars, rows
    <2> QED BY <2>2, <2>3, <2>4
  <1>3. gate' \in BOOLEAN
    BY DEF CommandsInv, CommandsTypeOK, OtherEdit, NextCycle, GateMoves, PanelStops, vars, rows
  <1>4. req' \in [Requests -> Submission] /\ SubmissionsSound'
    <2>1. CASE PanelStops
      BY <2>1, <1>1, NoSubmissionSound DEF PanelStops, SubmissionsSound
    <2>2. CASE UNCHANGED req
      BY <1>1, <2>2 DEF CommandsInv, CommandsTypeOK, SubmissionsSound
    <2> QED BY <2>1, <2>2 DEF OtherEdit, NextCycle, GateMoves, vars
  <1> QED BY <1>1, <1>2, <1>3, <1>4 DEF CommandsInv, CommandsTypeOK, TakesEffectOnce

----------------------------------------------------------------------------
(* The theorems.                                                           *)

\* The inductive invariant: a command that is on record is never replaced,
\* and what submissions have seen of it stays true (domain_commands).
THEOREM CommandsInvariant == Spec => []CommandsInv
  <1>1. CommandsInv /\ [Next]_vars => CommandsInv'
    <2> SUFFICES ASSUME CommandsInv, [Next]_vars PROVE CommandsInv'
      OBVIOUS
    <2>1. ASSUME NEW f \in Forms, Render(f) PROVE CommandsInv'
      BY <2>1, RenderStep
    <2>2. ASSUME NEW r \in Requests, NEW f \in Forms, NEW s \in Sessions, NEW p \in Payloads, Submit(r, f, s, p)
          PROVE  CommandsInv'
      BY <2>2, SubmitStep
    <2>3. ASSUME NEW r \in Requests, Step(r) PROVE CommandsInv'
      BY <2>3, ServiceStep, CommitStep DEF Step
    <2>4. CASE OtherEdit \/ NextCycle \/ GateMoves \/ PanelStops \/ UNCHANGED vars
      BY <2>4, OtherStep
    <2> QED BY <2>1, <2>2, <2>3, <2>4 DEF Next
  <1> QED BY <1>1, InitSound, PTL DEF Spec

\* TakesEffectOnce: however often, however concurrently and across whatever
\* crashes a form is submitted, its transaction commits at most once
\* (commandReplay, SaveCommand).
THEOREM TakesEffectOnceHolds == Spec => []TakesEffectOnce
  BY CommandsInvariant, PTL DEF CommandsInv

\* AcknowledgedIsApplied: success is answered only to the session and payload
\* that took effect (the fingerprint of ParseCommandForm).
THEOREM AcknowledgedIsAppliedHolds == Spec => []AcknowledgedIsApplied
  <1>1. CommandsInv => AcknowledgedIsApplied
    BY DEF CommandsInv, SubmissionsSound, SoundSubmission, AcknowledgedIsApplied, Form
  <1> QED BY <1>1, CommandsInvariant, PTL

\* RetryIsAnswered: a versioned form that is repeated after it took effect is
\* never refused for its version, which the first attempt has made stale
\* (commandReplayed comes before the version check).
THEOREM RetryIsAnsweredHolds == Spec => []RetryIsAnswered
  <1>1. CommandsInv => RetryIsAnswered
    BY DEF CommandsInv, SubmissionsSound, SoundSubmission, RetryIsAnswered, Form
  <1> QED BY <1>1, CommandsInvariant, PTL
=============================================================================
