-------------------------- MODULE IntentRefinement --------------------------
(***************************************************************************)
(* The intent store implements the administrator's register: an entry is   *)
(* what the user page shows of the rows.  The operations, their leases and *)
(* the snapshots of every actor are invisible there.                       *)
(***************************************************************************)
EXTENDS IntentStore

Status(u) == IF u.proj = "error" THEN "failed"
             ELSE IF u.proj = "pending" THEN "pending" ELSE "settled"

Entry(u) == [life |-> u.life, present |-> DesiredPresent(u), key |-> u.cdes,
             status |-> Status(u), inForce |-> u.csyn,
             port |-> IF u.released THEN 0 ELSE u.port]

Register == INSTANCE AccessRegister
            WITH Users <- Allocs, reg <- [a \in Allocs |-> Entry(db[a])]

\* Every transaction of handlers, quota paths, reconciler and workers is one
\* step of the register or invisible in it: a confirmation, whichever snapshot
\* it was earned with, settles exactly the wish that stands when it commits;
\* a rotation, a port change or a traffic batch alters nothing but its own
\* field; an error shows only for the wish that failed (ConfirmSync,
\* finishLeased, ChangeInboundPort, RotateCredential, CommitTrafficBatch).
ImplementsRegister == Register!Spec
=============================================================================
