---------------------- MODULE NativeConnectionInvariant ----------------------
(***************************************************************************)
(* The inductive invariant behind the safety properties of                 *)
(* NativeConnection, as a conjunction of named parts: where a thread can   *)
(* be in each call, who holds which lock, what the transaction record and  *)
(* the SQLite session say about each other, and where each write is.       *)
(***************************************************************************)
EXTENDS NativeConnection

(* A call that writes carries a write. *)
ArgumentOK == \A t \in Thread : phase[t] \in WriteCalls => argument[t] \in Write

Running == {"block", "blockWrite", "setSuccessful"}

(* Which calls pass through which places. *)
PlacesFitPhases ==
  \A t \in Thread :
    /\ at[t] = "outside" <=> phase[t] \in {"idle", "block"}
    /\ at[t] = "transaction" => phase[t] \in TransactionCalls
    /\ at[t] = "record" => phase[t] \in {"begin"} \union EndPhases
    /\ at[t] = "leaveTransaction" => phase[t] \in TransactionCalls \union {"close"}

(* close() has the connection for itself, and is the last call. *)
CloseIsLast ==
  /\ \A t, u \in Thread : phase[t] = "close" /\ u # t => phase[u] = "idle"
  /\ closedFlag => \A t \in Thread : phase[t] \in {"idle", "close"}

(* The locks are held by the threads that are past their acquisition. *)
InsideTransactionLock(t) ==
  phase[t] \in TransactionCalls /\ at[t] \in {"sql", "record", "leaveTransaction"}

LocksAreHeld ==
  \A t \in Thread :
    /\ at[t] \in Place \ {"outside", "access"} => accessLock = t
    /\ InsideTransactionLock(t) => transactionLock = t

(* An owner's transaction is open in SQLite, and it is the only owner. *)
OwnerHasSession == \A t \in Thread : OwnsTransaction(t) => session.inTransaction

(* Without the faults, an open transaction has an owner. *)
SessionHasOwner == session.inTransaction => \E t \in Thread : OwnsTransaction(t)

(* The record exists from BeginRecord to EndRecord of the owner. *)
BeforeRecord(t) == phase[t] = "begin" /\ at[t] = "record"
EndingRecord(t) == phase[t] \in EndPhases /\ at[t] = "record"
Marked(t) ==
  \/ phase[t] = "setSuccessful" /\ at[t] \in {"leaveTransaction", "leave"}
  \/ phase[t] = "endAfterReturn"

RecordOfOwner ==
  \A t \in Thread : OwnsTransaction(t) /\ ~BeforeRecord(t) =>
    transaction = IF Marked(t) THEN "successful" ELSE "started"

RecordHasOwner ==
  transaction # "null" =>
    \E t \in Thread : EndingRecord(t) \/ (OwnsTransaction(t) /\ ~BeforeRecord(t))

EndingHasNoSession == \A t \in Thread : EndingRecord(t) => ~session.inTransaction

(* With the record there, neither the mark nor the end can throw. *)
EndsDoNotThrow ==
  \A t \in Thread :
    phase[t] \in {"setSuccessful"} \union EndPhases \/ BeforeRecord(t) => ~thrown[t]

(* Where each write is. *)
Present == session.durable \union session.work

WritesAreFresh ==
  /\ session.work \cap session.durable = {}
  /\ ~session.inTransaction => session.work = {}
  /\ \A w \in Write : fate[w] \in {"unused", "undone"} => w \notin Present

ArgumentsAreAsked ==
  /\ \A t \in Thread : argument[t] \in Write =>
       /\ phase[t] \in WriteCalls
       /\ fate[argument[t]] = "asked"
  /\ \A t, u \in Thread : argument[t] \in Write /\ argument[t] = argument[u] => t = u

ArgumentsAreWhereToldSo ==
  \A t \in Thread : phase[t] \in WriteCalls =>
    /\ at[t] \in {"access", "sql"} \/ thrown[t] => argument[t] \notin Present
    /\ phase[t] = "blockWrite" /\ at[t] = "leave" /\ ~thrown[t] =>
         argument[t] \in session.work

BlockWritesArePending ==
  \A t \in Thread :
    /\ \A w \in blockWrites[t] : fate[w] = "pending"
    /\ phase[t] \notin Running \union EndPhases => blockWrites[t] = {}
    /\ OwnsTransaction(t) => blockWrites[t] \subseteq session.work
    /\ phase[t] = "endAfterReturn" /\ ~OwnsTransaction(t) =>
         blockWrites[t] \subseteq session.durable
    /\ phase[t] = "endAfterThrow" /\ ~OwnsTransaction(t) =>
         blockWrites[t] \cap Present = {}

(* Under the mutex of suspendedScope a client has the connection for itself. *)
OneClient ==
  \A t, u \in Thread : phase[t] # "idle" /\ phase[u] # "idle" => t = u

(* So a statement outside a block commits by itself. *)
AcknowledgedIsDurable ==
  \A t \in Thread :
    phase[t] = "singleWrite" /\ at[t] = "leave" /\ ~thrown[t] =>
      argument[t] \in session.durable

PendingIsInBlock ==
  \A w \in Write : fate[w] = "pending" => \E t \in Thread : w \in blockWrites[t]

-----------------------------------------------------------------------------
(* The layers: each is inductive together with the ones before it, the     *)
(* last one when clients are exclusive.                                    *)

TypeInv == TypeOK /\ ArgumentOK

OwnerInv ==
  /\ TypeInv
  /\ PlacesFitPhases /\ CloseIsLast
  /\ OwnerHasSession /\ OneTransaction

RecordInv ==
  /\ OwnerInv
  /\ LocksAreHeld
  /\ SessionHasOwner
  /\ RecordOfOwner /\ RecordHasOwner
  /\ EndingHasNoSession /\ EndsDoNotThrow

(* Every write is where what its client was told says: in the work of the  *)
(* open transaction, durable, or nowhere.                                  *)
WriteInv ==
  /\ RecordInv
  /\ WritesAreFresh
  /\ ArgumentsAreAsked /\ ArgumentsAreWhereToldSo
  /\ BlockWritesArePending

(* For one client at a time, a write told done is durable, and a pending   *)
(* one belongs to the block that is running.                               *)
ExclusiveInv ==
  /\ WriteInv
  /\ OneClient
  /\ AcknowledgedIsDurable
  /\ PendingIsInBlock
  /\ SavedIsDurable

=============================================================================
