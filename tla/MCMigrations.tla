------------------------------ MODULE MCMigrations ------------------------------
(* All versions of the database, and what an interrupted or an earlier form of the next
   migration may have left. *)
EXTENDS Migrations

KeyParts == {"apartments", "services"} \X {"restore_key", "keys", "required", "unique"}

AdjustmentParts ==
    ({"invoice_lines"} \X {"service_optional", "adjustment_check"})
    \cup {<<"invoices", "adjustments_total">>} \cup ({"expenses"} \X ExpenseParts)

MCEarly == [v \in Bases |-> CASE v = 5 -> KeyParts [] v = 8 -> AdjustmentParts [] OTHER -> {}]

MCLost == [v \in Bases |-> IF v = 8 THEN LostParts ELSE {}]
================================================================================
