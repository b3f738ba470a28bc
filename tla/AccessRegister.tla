--------------------------- MODULE AccessRegister ---------------------------
(***************************************************************************)
(* What the panel promises its administrator, without operations, leases,  *)
(* revisions, snapshots or retries: a register that says for every user    *)
(* what is wanted (may it connect, with which key, on which port), whether *)
(* that wish is settled, open or given up, and the key last confirmed in   *)
(* Xray.  A wish is settled as it stands or not at all.                    *)
(***************************************************************************)
EXTENDS Integers

CONSTANTS
    Users,   \* users the panel may ever have
    Ports    \* the port pool

VARIABLE reg   \* user -> its entry

Unused == [life |-> "none", present |-> FALSE, key |-> 0, status |-> "pending",
           inForce |-> 0, port |-> 0]

FreePorts == Ports \ {reg[u].port : u \in Users}

Live(u) == reg[u].life = "active"

\* A new wish: whatever was settled, open or given up before, it is open now.
Open(entry) == [entry EXCEPT !.status = "pending"]

Put(u, entry) == reg' = [reg EXCEPT ![u] = entry]

----------------------------------------------------------------------------
\* A new user listens on a port nobody holds, with its first key.
Register(u, p) ==
    /\ reg[u].life = "none"
    /\ p \in FreePorts
    /\ Put(u, [life |-> "active", present |-> TRUE, key |-> 1, status |-> "pending",
               inForce |-> 0, port |-> p])

\* Users are switched on or off, by the administrator or by their quota, or
\* asked for again as they are; a deleted user is never switched on.
Switch(users, present) ==
    /\ \A u \in users : Live(u) \/ (reg[u].life = "deleted" /\ ~present[u])
    /\ reg' = [u \in Users |->
                 IF u \in users THEN [Open(reg[u]) EXCEPT !.present = present[u]] ELSE reg[u]]

\* The next key; who may connect stays as it is.
Rotate(u) == Live(u) /\ Put(u, [Open(reg[u]) EXCEPT !.key = reg[u].key + 1])

\* Another port that nobody holds.
Move(u, p) == Live(u) /\ p \in FreePorts /\ Put(u, [Open(reg[u]) EXCEPT !.port = p])

\* The user is gone for good; its port stays taken until that is settled.
Gone(entry) == [life |-> "deleted", present |-> FALSE, key |-> entry.key, status |-> "pending",
                inForce |-> entry.inForce, port |-> entry.port]

Delete(u) == Live(u) /\ Put(u, Gone(reg[u]))

\* Xray does what is wanted now: the key in force is the wanted one, or none;
\* the port of a deleted user is free again.
Settled(entry) ==
    [life |-> entry.life, present |-> entry.present, key |-> entry.key, status |-> "settled",
     inForce |-> IF entry.present THEN entry.key ELSE 0,
     port |-> IF entry.life = "active" THEN entry.port ELSE 0]

Settle(u) ==
    /\ reg[u].life # "none" /\ reg[u].status = "pending"
    /\ Put(u, Settled(reg[u]))

\* The panel stops trying; the administrator sees an error.
GiveUp(u) ==
    /\ reg[u].life # "none" /\ reg[u].status = "pending"
    /\ Put(u, [reg[u] EXCEPT !.status = "failed"])

Init == reg = [u \in Users |-> Unused]

Next ==
    \/ \E users \in SUBSET Users : \E present \in [users -> BOOLEAN] : Switch(users, present)
    \/ \E u \in Users, p \in Ports : Register(u, p) \/ Move(u, p)
    \/ \E u \in Users : Rotate(u) \/ Delete(u) \/ Settle(u) \/ GiveUp(u)

Spec == Init /\ [][Next]_reg
=============================================================================
