------------------------------ MODULE RowDelivery ------------------------------
(***************************************************************************)
(* What the historian promises about one MQTT reading, without buffers,    *)
(* flushes or files: a reading that was accepted stays pending until it is *)
(* in the database or was given up on record; it can vanish otherwise only *)
(* while the process goes down or comes up again; and both being stored    *)
(* and being gone are final.  HistorianFlush implements this module.       *)
(***************************************************************************)
CONSTANT Rows       \* the readings

VARIABLES
    up,             \* is the process serving?
    status          \* per reading: "new", "pending", "stored", "dropped", "gone"

deliveryVars == <<up, status>>

Statuses == {"new", "pending", "stored", "dropped", "gone"}

\* The status map after every reading of S has moved to status s.
Moved(S, s) == [r \in Rows |-> IF r \in S THEN s ELSE status[r]]

InStatus(s) == {r \in Rows : status[r] = s}

DeliveryInit ==
    /\ up = FALSE
    /\ status = [r \in Rows |-> "new"]

\* A reading arrives while the process is up.
Accept ==
    /\ up
    /\ \E r \in InStatus("new") : status' = Moved({r}, "pending")
    /\ UNCHANGED up

\* Pending readings reach the database; a process that is coming up may store
\* even readings that an earlier life had given up.
Store ==
    /\ \E S \in SUBSET (InStatus("pending")
                           \cup (IF up THEN {} ELSE InStatus("dropped"))) :
            status' = Moved(S, "stored")
    /\ UNCHANGED up

\* Pending readings are given up, on record, by the running process.
GiveUp ==
    /\ up
    /\ \E S \in SUBSET InStatus("pending") : status' = Moved(S, "dropped")
    /\ UNCHANGED up

\* The process ends, or becomes ready (or fails to): whatever it was holding
\* only in memory, or trimmed from its file, is gone.
Restart ==
    /\ up' \in BOOLEAN
    /\ ~(up /\ up')
    /\ \E S \in SUBSET InStatus("pending") : status' = Moved(S, "gone")

DeliveryNext == Accept \/ Store \/ GiveUp \/ Restart

DeliverySpec == DeliveryInit /\ [][DeliveryNext]_deliveryVars
================================================================================
