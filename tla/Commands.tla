------------------------------ MODULE Commands ------------------------------
(***************************************************************************)
(* Forms and their repetition: domain_commands.                            *)
(*                                                                         *)
(* Every page carries a fresh _request_id and, for an existing resource,   *)
(* the _version it shows.  A double click, a retry after a lost answer or  *)
(* a second tab submits the same form again, possibly at the same time,    *)
(* possibly changed.  The fingerprint binds the identifier to the session  *)
(* and the payload.  A service checks and reads outside the transaction    *)
(* that commits.                                                           *)
(*                                                                         *)
(* One user stands for the resource that the forms edit; the create forms  *)
(* have each a name, and some a port, of their own.                        *)
(***************************************************************************)
EXTENDS Integers, FiniteSets

CONSTANTS
    Requests,      \* concurrent submissions
    Sessions,      \* session tokens
    Payloads,      \* the values typed into a form
    Creates,       \* forms that create a user or a template
    Pinned,        \* those of them that name the port
    Edits,         \* forms with a _version: edit, enable, rotate, change port
    Deletes,       \* delete forms, they have a _version too
    Resets,        \* reset-traffic forms
    None,          \* no command
    MaxRevision,   \* bound: managed_users.revision
    MaxCycle       \* bound: quota cycles of the user

Versioned == Edits \cup Deletes
Forms     == Creates \cup Versioned \cup Resets

\* A form is of one kind: a page posts to one handler.
ASSUME FormsAssumption ==
    /\ Pinned \subseteq Creates
    /\ Creates \cap Versioned = {} /\ Creates \cap Resets = {} /\ Versioned \cap Resets = {}
ASSUME CountsAssumption == MaxRevision \in Nat /\ MaxCycle \in Nat

VARIABLES
    user,       \* the edited user's revision, deleted_at and open cycle
    made,       \* create forms whose user exists
    gate,       \* the template is compatible for the running generation
    pages,      \* form -> the _version it was rendered with, -1 before that
    commands,   \* form -> the fingerprint its domain_commands row has
    effects,    \* history: form -> how often it took effect
    req         \* request -> the submission it serves

vars == <<user, made, gate, pages, commands, effects, req>>

Fingerprint == [session: Sessions, form: Forms, payload: Payloads]

ASSUME NoneAssumption == None \notin Fingerprint

Results == {"ok", "refused", "error"}

\* cycle: the open cycle ResetTraffic read; late: the same submission was on
\* record when this one began.
Submission == [pc: {"idle", "start", "check", "commit", "answer"}, print: Fingerprint \cup {None},
               cycle: 0 .. MaxCycle, late: BOOLEAN, result: Results \cup {"none"}]

NoSubmission == [pc |-> "idle", print |-> None, cycle |-> 0, late |-> FALSE, result |-> "none"]

----------------------------------------------------------------------------

Form(r) == req[r].print.form

At(r, pc, kinds) == req[r].pc = pc /\ Form(r) \in kinds

Goes(r, pc) == req' = [req EXCEPT ![r].pc = pc]

Answers(r, result) == req' = [req EXCEPT ![r].pc = "answer", ![r].result = result]

rows == <<user, made, gate, pages, commands, effects>>

\* NewPage and the form pages: a deleted user has none (but ResetForm is shown).
Render(f) ==
    /\ pages[f] = -1
    /\ f \in Versioned => ~user.deleted
    /\ pages' = [pages EXCEPT ![f] = IF f \in Versioned THEN user.rev ELSE 0]
    /\ UNCHANGED <<user, made, gate, commands, effects, req>>

\* ParseCommandForm.
Submit(r, f, s, p) ==
    LET print == [session |-> s, form |-> f, payload |-> p] IN
    /\ req[r].pc = "idle"
    /\ pages[f] # -1
    /\ req' = [req EXCEPT ![r] = [NoSubmission EXCEPT !.pc = "start", !.print = print,
                                     !.late = (commands[f] = print)]]
    /\ UNCHANGED rows

\* Seeded fault: a known identifier is a repetition, whatever it carries.
SameInput_Always(r) == TRUE

\* bytes.Equal of the fingerprints.
SameInput(r) == commands[Form(r)] = req[r].print

\* The identifier is known: the first outcome again, or a conflict.
Repeated(r) == Answers(r, IF SameInput(r) THEN "ok" ELSE "refused")

----------------------------------------------------------------------------
(* The services, up to their transaction.                                  *)

\* Seeded fault: the versions are compared without looking for a repetition.
FindVersioned_Skipped(r) ==
    /\ At(r, "start", Versioned)
    /\ Goes(r, "check")
    /\ UNCHANGED rows

\* UpdateUser, ChangePort, RotateCredential, DeleteUser: commandReplayed first,
FindVersioned(r) ==
    /\ At(r, "start", Versioned)
    /\ IF commands[Form(r)] = None THEN Goes(r, "check") ELSE Repeated(r)
    /\ UNCHANGED rows

\* then the user's row, for a first answer about its version.
CheckVersion(r) ==
    /\ At(r, "check", Versioned)
    /\ IF user.deleted \/ user.rev # pages[Form(r)] THEN Answers(r, "refused") ELSE Goes(r, "commit")
    /\ UNCHANGED rows

\* ResetTraffic reads the user before it looks for a repetition.
ReadCycle(r) ==
    /\ At(r, "start", Resets)
    /\ IF user.deleted THEN Answers(r, "refused")
       ELSE req' = [req EXCEPT ![r].pc = "check", ![r].cycle = user.cycle]
    /\ UNCHANGED rows

FindReset(r) ==
    /\ At(r, "check", Resets)
    /\ IF commands[Form(r)] = None THEN Goes(r, "commit") ELSE Repeated(r)
    /\ UNCHANGED rows

\* CreateUser has only its gates here: the template and, when the form names
\* one, the port.
CheckGates(r) ==
    /\ At(r, "start", Creates)
    /\ IF ~gate \/ (Form(r) \in Pinned /\ Form(r) \in made) THEN Answers(r, "refused") ELSE Goes(r, "commit")
    /\ UNCHANGED rows

----------------------------------------------------------------------------
(* The transactions.                                                       *)

\* What the WHERE clauses and unique indexes of the kind's transaction demand.
Applies(r) ==
    LET f == Form(r) IN
    CASE f \in Versioned -> user.rev = pages[f] /\ ~user.deleted
      [] f \in Resets    -> user.cycle = req[r].cycle
      [] OTHER           -> f \notin made

\* Seeded fault: the transaction trusts the check that the service made.
Known_Unchecked(r) == FALSE

\* commandReplay, and FindCommand of CreateUser and CreateTemplate.
Known(r) == commands[Form(r)] # None

\* SaveCommand.
Saved(r) == [commands EXCEPT ![Form(r)] = req[r].print]

Commit(r) ==
    LET f == Form(r) IN
    /\ At(r, "commit", Forms)
    /\ ~Known(r)
    /\ Applies(r)
    /\ user' = [user EXCEPT !.rev = IF f \in Versioned THEN @ + 1 ELSE @,
                            !.deleted = @ \/ f \in Deletes]
    /\ made' = made \cup ({f} \cap Creates)
    /\ commands' = Saved(r)
    /\ effects' = [effects EXCEPT ![f] = @ + 1]
    /\ Answers(r, "ok")
    /\ UNCHANGED <<gate, pages>>

\* Nothing is written: a repetition, a conflict, or a failure rolled back.
Reject(r) ==
    /\ At(r, "commit", Forms)
    /\ \/ Known(r) /\ Repeated(r)
       \/ ~Known(r) /\ ~Applies(r) /\ Answers(r, "refused")
       \/ Answers(r, "error")
    /\ UNCHANGED rows

\* The answer reaches the browser, or does not.
Respond(r) ==
    /\ req[r].pc = "answer"
    /\ req' = [req EXCEPT ![r] = NoSubmission]
    /\ UNCHANGED rows

----------------------------------------------------------------------------
(* What else happens.                                                      *)

\* Another administrator page commits a change of the user.
OtherEdit ==
    /\ user.rev < MaxRevision /\ ~user.deleted
    /\ user' = [user EXCEPT !.rev = @ + 1]
    /\ UNCHANGED <<made, gate, pages, commands, effects, req>>

\* settleCycles opens the next cycle.
NextCycle ==
    /\ user.cycle < MaxCycle
    /\ user' = [user EXCEPT !.cycle = @ + 1]
    /\ UNCHANGED <<made, gate, pages, commands, effects, req>>

\* The template's verdict or the node's generation changes.
GateMoves ==
    /\ gate' = ~gate
    /\ UNCHANGED <<user, made, pages, commands, effects, req>>

\* The panel crashes: what was committed stays, its answers are lost.
PanelStops ==
    /\ \E r \in Requests : req[r].pc # "idle"
    /\ req' = [r \in Requests |-> NoSubmission]
    /\ UNCHANGED rows

Init ==
    /\ user = [rev |-> 0, deleted |-> FALSE, cycle |-> 0]
    /\ made = {}
    /\ gate = TRUE
    /\ pages = [f \in Forms |-> -1]
    /\ commands = [f \in Forms |-> None]
    /\ effects = [f \in Forms |-> 0]
    /\ req = [r \in Requests |-> NoSubmission]

Step(r) ==
    \/ FindVersioned(r) \/ CheckVersion(r)
    \/ ReadCycle(r) \/ FindReset(r)
    \/ CheckGates(r)
    \/ Commit(r) \/ Reject(r) \/ Respond(r)

Next ==
    \/ \E f \in Forms : Render(f)
    \/ \E r \in Requests, f \in Forms, s \in Sessions, p \in Payloads : Submit(r, f, s, p)
    \/ \E r \in Requests : Step(r)
    \/ OtherEdit \/ NextCycle \/ GateMoves \/ PanelStops

Spec == Init /\ [][Next]_vars

----------------------------------------------------------------------------
(* Properties.                                                             *)

\* The types of the variables.
CommandsTypeOK ==
    /\ user \in [rev: Nat, deleted: BOOLEAN, cycle: 0 .. MaxCycle]
    /\ made \subseteq Creates
    /\ gate \in BOOLEAN
    /\ pages \in [Forms -> Nat \cup {-1}]
    /\ commands \in [Forms -> Fingerprint \cup {None}]
    /\ effects \in [Forms -> Nat]
    /\ req \in [Requests -> Submission]

\* However often and however concurrently a form is submitted, across crashes
\* and lost answers, it takes effect at most once, and exactly when its
\* command is on record.
TakesEffectOnce == \A f \in Forms : effects[f] = IF commands[f] = None THEN 0 ELSE 1

\* A submission that is answered with success is the one that took effect:
\* same session, same payload.
AcknowledgedIsApplied ==
    \A r \in Requests : req[r].pc = "answer" /\ req[r].result = "ok" => commands[Form(r)] = req[r].print

\* A versioned form that is submitted again after it took effect is answered
\* with the first outcome, although its _version is stale by then.
RetryIsAnswered ==
    \A r \in Requests : req[r].pc = "answer" /\ req[r].late /\ Form(r) \in Versioned => req[r].result # "refused"
=============================================================================
