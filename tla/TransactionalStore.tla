------------------------- MODULE TransactionalStore -------------------------
(***************************************************************************)
(* What a connection promises a client that has it for itself: writes are  *)
(* made one at a time, inside a transaction or outside; a transaction is   *)
(* kept whole or dropped whole; the client is told the truth about each    *)
(* write, and never told anything else afterwards.                         *)
(***************************************************************************)
CONSTANT Write

VARIABLES
  durable,  \* the writes that are in the database for good
  open,     \* whether a transaction is open
  work,     \* the writes of the open transaction
  told      \* what the client knows about each write

storeVars == <<durable, open, work, told>>

Applied(w) == w \in durable \union work
Pending == {w \in Write : told[w] = "pending"}
Learn(writes, f) == told' = [w \in Write |-> IF w \in writes THEN f ELSE told[w]]

StoreInit ==
  /\ durable = {} /\ open = FALSE /\ work = {}
  /\ told = [w \in Write |-> "unused"]

Ask(w) ==
  /\ told[w] = "unused"
  /\ Learn({w}, "asked")
  /\ UNCHANGED <<durable, open, work>>

Apply(w) ==
  /\ told[w] = "asked" /\ ~Applied(w)
  /\ \/ open  /\ work' = work \union {w} /\ UNCHANGED durable
     \/ ~open /\ durable' = durable \union {w} /\ UNCHANGED work
  /\ UNCHANGED <<open, told>>

Answer(w) ==
  /\ told[w] = "asked"
  /\ \/ w \in work    /\ Learn({w}, "pending")
     \/ w \in durable /\ Learn({w}, "saved")
     \/ ~Applied(w)   /\ Learn({w}, "undone")
  /\ UNCHANGED <<durable, open, work>>

Begin ==
  /\ ~open
  /\ open' = TRUE
  /\ UNCHANGED <<durable, work, told>>

Commit ==
  /\ open /\ open' = FALSE
  /\ durable' = durable \union work /\ work' = {}
  /\ UNCHANGED told

Rollback ==
  /\ open /\ open' = FALSE
  /\ work' = {}
  /\ UNCHANGED <<durable, told>>

(* The transaction is over: all its writes are saved, or all are undone. *)
Report ==
  /\ ~open
  /\ \/ Pending \subseteq durable     /\ Learn(Pending, "saved")
     \/ Pending \cap durable = {}     /\ Learn(Pending, "undone")
  /\ UNCHANGED <<durable, open, work>>

StoreNext ==
  \/ \E w \in Write : Ask(w) \/ Apply(w) \/ Answer(w)
  \/ Begin \/ Commit \/ Rollback \/ Report

StoreSpec == StoreInit /\ [][StoreNext]_storeVars

=============================================================================
