----------------------------- MODULE TenantLife -----------------------------
(***************************************************************************)
(* What a tenant's life promises, without calls, jobs, handles or crashes: *)
(* data is erased only once the tenant is leaving, it is buried only when  *)
(* its data is erased, and a tenant that left does not come back, neither  *)
(* while its tombstone stands nor after the purge.                         *)
(***************************************************************************)
VARIABLES
    life,       \* "absent", "live", "leaving" or "buried"
    rows,       \* there are rows of the tenant's in the shared database
    files,      \* there are files of the tenant's
    waived,     \* an operator gave up on erasing the files
    expired     \* the tombstone has been held long enough

vars == <<life, rows, files, waived, expired>>

Init == life = "absent" /\ rows = TRUE /\ files = FALSE /\ waived = FALSE /\ expired = FALSE

Furnish ==
    /\ life = "absent" /\ rows
    /\ files' = TRUE
    /\ UNCHANGED <<life, rows, waived, expired>>

Admit ==
    /\ life = "absent" /\ rows /\ files
    /\ life' = "live"
    /\ UNCHANGED <<rows, files, waived, expired>>

Leave ==
    /\ life = "live"
    /\ life' = "leaving"
    /\ UNCHANGED <<rows, files, waived, expired>>

\* A teardown that is repeated erases what is left under a tombstone, too.
EraseRows ==
    /\ life \in {"leaving", "buried"}
    /\ rows' = FALSE
    /\ UNCHANGED <<life, files, waived, expired>>

EraseFiles ==
    /\ life \in {"leaving", "buried"}
    /\ files' = FALSE
    /\ UNCHANGED <<life, rows, waived, expired>>

\* Of a tenant that is leaving or has left, after the purge included.
Waive ==
    /\ life # "live" /\ (life = "absent" => ~rows)
    /\ waived' = TRUE
    /\ UNCHANGED <<life, rows, files, expired>>

Bury ==
    /\ life = "leaving" /\ ~rows /\ (files => waived)
    /\ life' = "buried" /\ expired' = FALSE
    /\ UNCHANGED <<rows, files, waived>>

\* An operator has the teardown done again; the hold starts anew when it is over.
Reopen ==
    /\ life = "buried"
    /\ life' = "leaving"
    /\ UNCHANGED <<rows, files, waived, expired>>

Expire ==
    /\ life = "buried"
    /\ expired' = TRUE
    /\ UNCHANGED <<life, rows, files, waived>>

Purge ==
    /\ life = "buried" /\ expired
    /\ life' = "absent"
    /\ UNCHANGED <<rows, files, waived, expired>>

Next ==
    \/ Furnish \/ Admit \/ Leave \/ EraseRows \/ EraseFiles \/ Waive
    \/ Bury \/ Reopen \/ Expire \/ Purge

Spec == Init /\ [][Next]_vars
=============================================================================
