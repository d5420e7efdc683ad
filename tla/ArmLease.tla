------------------------------ MODULE ArmLease -----------------------------
(***************************************************************************)
(* What the "Android control" button promises, without sockets, threads or *)
(* messages: the right to move the arm from a tablet is a lease.  At most  *)
(* one session holds it; only its holder moves the arm for a tablet; and   *)
(* once the console has closed it, at most one frame more gets through,    *)
(* until the console opens it again.  The console itself may always move   *)
(* the arm.                                                                *)
(***************************************************************************)
CONSTANTS Sessions, Console, Nobody, Frames

VARIABLES
    holder,   \* the session with the lease, or Nobody
    open,     \* the console lets tablets move the arm
    spent,    \* the one late frame after closing has been used
    arm       \* the last frame, with its sender

leaseVars == <<holder, open, spent, arm>>

Init ==
    /\ holder = Nobody
    /\ open = TRUE
    /\ spent = FALSE
    /\ arm \in Frames /\ arm.by = Nobody

Acquire(s) ==
    /\ holder = Nobody
    /\ holder' = s
    /\ UNCHANGED <<open, spent, arm>>

ReleaseLease ==
    /\ holder # Nobody
    /\ holder' = Nobody
    /\ UNCHANGED <<open, spent, arm>>

Open ==
    /\ open' = TRUE
    /\ UNCHANGED <<holder, spent, arm>>

Revoke ==
    /\ open' = FALSE
    /\ spent' = FALSE
    /\ UNCHANGED <<holder, arm>>

\* A tablet's frame: by the holder, and the only one if the lease is closed,
\* even if it does not reach the arm.
TabletMove(s) ==
    /\ holder = s
    /\ open \/ ~spent
    /\ spent' = IF open THEN spent ELSE TRUE
    /\ (arm' \in Frames /\ arm'.by = s) \/ arm' = arm
    /\ UNCHANGED <<holder, open>>

ConsoleMove ==
    /\ arm' \in Frames /\ arm'.by = Console
    /\ UNCHANGED <<holder, open, spent>>

Next ==
    \/ \E s \in Sessions : Acquire(s) \/ TabletMove(s)
    \/ ReleaseLease \/ Open \/ Revoke \/ ConsoleMove

Spec == Init /\ [][Next]_leaseVars
=============================================================================
