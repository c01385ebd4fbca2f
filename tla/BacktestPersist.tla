---------------------------- MODULE BacktestPersist ----------------------------
(***************************************************************************)
(* Saving and deleting backtests (backtesting.service.ts) next to the      *)
(* deletion of their datasets, on one pool of PoolSize connections         *)
(* (config/database.ts).                                                   *)
(*                                                                         *)
(* createBacktest checks its dataset, computes, and saves the run in one   *)
(* transaction on a client of its own; it then reads the run back through *)
(* the pool while it still holds that client.  A pool.query takes a        *)
(* connection for one statement and is one step here, except for the       *)
(* DELETE of a dataset, which holds its connection while it waits for the  *)
(* rows that transactions have locked.  A request that finds no free       *)
(* connection waits, and gives up after connectionTimeoutMillis.           *)
(*                                                                         *)
(* Each request makes at most one backtest, which bears its name.          *)
(***************************************************************************)
EXTENDS Integers, FiniteSets

CONSTANTS
    Requests,   \* the requests there may be
    Datasets,   \* READY datasets of one user
    PoolSize    \* max of the pool

ASSUME PoolAssumption     == PoolSize \in Nat \ {0}
ASSUME RequestsAssumption == IsFiniteSet(Requests)
ASSUME NamesAssumption    == "none" \notin Datasets \cup Requests

VARIABLES
    datasets,   \* the rows of datasets
    stored,     \* what is committed of the backtest of a request
    open,       \* what the open transaction of a request has inserted
    clients,    \* the requests that hold a client of the pool
    pc,
    target,     \* the dataset or the backtest a request is about
    reply

persistVars == <<datasets, stored, open, clients, pc, target, reply>>

\* The tables the rows of a backtest are in; equity holds two series.
Parts == {"backtests", "trades", "metrics", "strategy", "benchmark"}

\* The statements of the transaction, each with the next one.
Following == [begin |-> "backtests", backtests |-> "trades", trades |-> "metrics",
              metrics |-> "strategy", strategy |-> "benchmark", benchmark |-> "commit"]

\* Steps that need a connection of the pool.
Querying == {"findDataset", "columns", "connect", "summary",
             "findBacktest", "deleteBacktest", "findForDelete", "deleteDataset"}

Free == Cardinality(clients) < PoolSize

\* The INSERT of a backtest locks the row of its dataset (FOR KEY SHARE) until
\* the end of the transaction.
Locked(d) == \E r \in Requests : "backtests" \in open[r] /\ target[r] = d

Saved == {r \in Requests : stored[r] # {}}

PersistInit ==
    /\ datasets = Datasets
    /\ stored = [r \in Requests |-> {}]
    /\ open = [r \in Requests |-> {}]
    /\ clients = {}
    /\ pc = [r \in Requests |-> "idle"]
    /\ target = [r \in Requests |-> "none"]
    /\ reply = [r \in Requests |-> "none"]

GoTo(r, place) == pc' = [pc EXCEPT ![r] = place]

Answer(r, a) == GoTo(r, "over") /\ reply' = [reply EXCEPT ![r] = a]

\* client.release() and the answer that follows it.
Release(r, a) == clients' = clients \ {r} /\ Answer(r, a)

-----------------------------------------------------------------------------
(* createBacktest                                                            *)

StartCreate(r) ==
    /\ pc[r] = "idle"
    /\ \E d \in Datasets : target' = [target EXCEPT ![r] = d]
    /\ GoTo(r, "findDataset")
    /\ UNCHANGED <<datasets, stored, open, clients, reply>>

\* 404 without a dataset; its status is READY for good.
FindDataset(r) ==
    /\ pc[r] = "findDataset" /\ Free
    /\ IF target[r] \in datasets
       THEN GoTo(r, "columns") /\ UNCHANGED reply
       ELSE Answer(r, "refused")
    /\ UNCHANGED <<datasets, stored, open, clients, target>>

\* The columns go with the dataset; without them it is "not compatible".
ListColumns(r) ==
    /\ pc[r] = "columns" /\ Free
    /\ \/ target[r] \in datasets /\ GoTo(r, "compute") /\ UNCHANGED reply
       \/ Answer(r, "refused")
    /\ UNCHANGED <<datasets, stored, open, clients, target>>

\* The file is fetched and read, and the engine runs; or there is no file, or
\* too few bars.
Compute(r) ==
    /\ pc[r] = "compute"
    /\ \/ GoTo(r, "connect") /\ UNCHANGED reply
       \/ Answer(r, "refused")
    /\ UNCHANGED <<datasets, stored, open, clients, target>>

Connect(r) ==
    /\ pc[r] = "connect" /\ Free
    /\ clients' = clients \cup {r}
    /\ GoTo(r, "begin")
    /\ UNCHANGED <<datasets, stored, open, target, reply>>

BeginTransaction(r) ==
    /\ pc[r] = "begin"
    /\ GoTo(r, Following["begin"])
    /\ UNCHANGED <<datasets, stored, open, clients, target, reply>>

\* Mutants: the foreign key to datasets is missing; the INSERTs go to the pool
\* instead of the client, each its own transaction.
Insert_NoReference(r) ==
    /\ pc[r] \in Parts
    /\ open' = [open EXCEPT ![r] = @ \cup {pc[r]}]
    /\ GoTo(r, Following[pc[r]])
    /\ UNCHANGED <<datasets, stored, clients, target, reply>>

Insert_OnPool(r) ==
    /\ pc[r] \in Parts
    /\ pc[r] = "backtests" => target[r] \in datasets
    /\ stored' = [stored EXCEPT ![r] = @ \cup {pc[r]}]
    /\ GoTo(r, Following[pc[r]])
    /\ UNCHANGED <<datasets, open, clients, target, reply>>

\* One of the INSERTs, in batches of 200 rows; that of the backtest needs its
\* dataset.
Insert(r) ==
    /\ pc[r] \in Parts
    /\ pc[r] = "backtests" => target[r] \in datasets
    /\ open' = [open EXCEPT ![r] = @ \cup {pc[r]}]
    /\ GoTo(r, Following[pc[r]])
    /\ UNCHANGED <<datasets, stored, clients, target, reply>>

Apply(r) ==
    /\ stored' = [stored EXCEPT ![r] = open[r]]
    /\ open' = [open EXCEPT ![r] = {}]

Commit(r) ==
    /\ pc[r] = "commit"
    /\ Apply(r)
    /\ GoTo(r, "summary")
    /\ UNCHANGED <<datasets, clients, target, reply>>

\* A statement of the transaction fails.  COMMIT may have taken effect.
FailStatement(r) ==
    /\ pc[r] \in {"begin", "commit"} \cup Parts
    /\ \/ UNCHANGED <<stored, open>>
       \/ pc[r] = "commit" /\ Apply(r)
    /\ GoTo(r, "rollback")
    /\ UNCHANGED <<datasets, clients, target, reply>>

\* The run is read back; null if it has been deleted meanwhile.
ReadSummary(r) ==
    /\ pc[r] = "summary" /\ Free
    /\ Release(r, IF stored[r] # {} THEN "saved" ELSE "null")
    /\ UNCHANGED <<datasets, stored, open, target>>

\* Mutant: the client goes back to the pool inside its transaction.
Rollback_Skip(r) ==
    /\ pc[r] = "rollback"
    /\ Release(r, "error")
    /\ UNCHANGED <<datasets, stored, open, target>>

\* The catch block.  A ROLLBACK that fails has lost its connection, and with it
\* the transaction; after a COMMIT it undoes nothing.
Rollback(r) ==
    /\ pc[r] = "rollback"
    /\ open' = [open EXCEPT ![r] = {}]
    /\ Release(r, "error")
    /\ UNCHANGED <<datasets, stored, target>>

-----------------------------------------------------------------------------
(* deleteBacktest and the deletion of a dataset                              *)

StartDelete(r) ==
    /\ pc[r] = "idle"
    /\ \E b \in Requests : target' = [target EXCEPT ![r] = b]
    /\ GoTo(r, "findBacktest")
    /\ UNCHANGED <<datasets, stored, open, clients, reply>>

FindBacktest(r) ==
    /\ pc[r] = "findBacktest" /\ Free
    /\ IF target[r] \in Saved
       THEN GoTo(r, "deleteBacktest") /\ UNCHANGED reply
       ELSE Answer(r, "refused")
    /\ UNCHANGED <<datasets, stored, open, clients, target>>

\* The rows of the other tables cascade.
RemoveBacktest(b) == stored' = [stored EXCEPT ![b] = {}]

DeleteBacktest(r) ==
    /\ pc[r] = "deleteBacktest" /\ Free
    /\ RemoveBacktest(target[r])
    /\ Answer(r, "deleted")
    /\ UNCHANGED <<datasets, open, clients, target>>

StartDrop(r) ==
    /\ pc[r] = "idle"
    /\ \E d \in Datasets : target' = [target EXCEPT ![r] = d]
    /\ GoTo(r, "findForDelete")
    /\ UNCHANGED <<datasets, stored, open, clients, reply>>

FindForDelete(r) ==
    /\ pc[r] = "findForDelete" /\ Free
    /\ IF target[r] \in datasets
       THEN GoTo(r, "deleteDataset") /\ UNCHANGED reply
       ELSE Answer(r, "refused")
    /\ UNCHANGED <<datasets, stored, open, clients, target>>

SendDrop(r) ==
    /\ pc[r] = "deleteDataset" /\ Free
    /\ clients' = clients \cup {r}
    /\ GoTo(r, "dropping")
    /\ UNCHANGED <<datasets, stored, open, target, reply>>

\* The backtests of the dataset cascade.
RemoveDataset(d) ==
    /\ ~Locked(d)
    /\ datasets' = datasets \ {d}
    /\ stored' = [b \in Requests |-> IF target[b] = d THEN {} ELSE stored[b]]

DropDataset(r) ==
    /\ pc[r] = "dropping"
    /\ RemoveDataset(target[r])
    /\ Release(r, "deleted")
    /\ UNCHANGED <<open, target>>

-----------------------------------------------------------------------------
(* What may go wrong                                                         *)

\* Where a query that throws leads to.
Throw(r) ==
    IF pc[r] = "summary" THEN GoTo(r, "rollback") /\ UNCHANGED reply ELSE Answer(r, "error")

\* Mutant: the read after COMMIT waits for ever.
TimeOut_NotReading(r) ==
    /\ pc[r] \in Querying \ {"summary"} /\ ~Free
    /\ Throw(r)
    /\ UNCHANGED <<datasets, stored, open, clients, target>>

\* No connection became free in time.
TimeOut(r) ==
    /\ pc[r] \in Querying /\ ~Free
    /\ Throw(r)
    /\ UNCHANGED <<datasets, stored, open, clients, target>>

\* A query outside of the transaction fails; a DELETE may have taken effect.
FailQuery(r) ==
    /\ pc[r] \in Querying /\ Free
    /\ \/ UNCHANGED stored
       \/ pc[r] = "deleteBacktest" /\ RemoveBacktest(target[r])
    /\ Throw(r)
    /\ UNCHANGED <<datasets, open, clients, target>>

FailDrop(r) ==
    /\ pc[r] = "dropping"
    /\ UNCHANGED <<datasets, stored>> \/ RemoveDataset(target[r])
    /\ Release(r, "error")
    /\ UNCHANGED <<open, target>>

\* The process dies: PostgreSQL rolls back what is open.
Crash ==
    /\ \E r \in Requests : pc[r] \notin {"idle", "over"}
    /\ open' = [r \in Requests |-> {}]
    /\ clients' = {}
    /\ pc' = [r \in Requests |-> IF pc[r] = "idle" THEN "idle" ELSE "over"]
    /\ reply' = [r \in Requests |-> IF pc[r] \in {"idle", "over"} THEN reply[r] ELSE "gone"]
    /\ UNCHANGED <<datasets, stored, target>>

-----------------------------------------------------------------------------
Start(r) == StartCreate(r) \/ StartDelete(r) \/ StartDrop(r)

Create(r) ==
    \/ FindDataset(r) \/ ListColumns(r) \/ Compute(r) \/ Connect(r) \/ BeginTransaction(r)
    \/ Insert(r) \/ Commit(r) \/ ReadSummary(r) \/ Rollback(r)

Delete(r) ==
    \/ FindBacktest(r) \/ DeleteBacktest(r)
    \/ FindForDelete(r) \/ SendDrop(r) \/ DropDataset(r)

Fail(r) == FailStatement(r) \/ TimeOut(r) \/ FailQuery(r) \/ FailDrop(r)

PersistNext == Crash \/ \E r \in Requests : Start(r) \/ Create(r) \/ Delete(r) \/ Fail(r)

PersistSpec == PersistInit /\ [][PersistNext]_persistVars

\* A request goes on: its statements are answered or fail, and its timer fires.
FairSpec == PersistSpec /\ \A r \in Requests : WF_persistVars(Create(r) \/ Delete(r) \/ Fail(r))

-----------------------------------------------------------------------------
(* Properties                                                                *)

Places == {"idle", "compute", "begin", "commit", "rollback", "dropping", "over"}
              \cup Querying \cup Parts

PersistTypeOK ==
    /\ datasets \subseteq Datasets
    /\ stored \in [Requests -> SUBSET Parts]
    /\ open \in [Requests -> SUBSET Parts]
    /\ clients \subseteq Requests
    /\ Cardinality(clients) <= PoolSize
    /\ pc \in [Requests -> Places]
    /\ target \in [Requests -> Datasets \cup Requests \cup {"none"}]
    /\ reply \in [Requests -> {"none", "saved", "null", "deleted", "refused", "error", "gone"}]

\* "Persist results atomically" (backtesting.service.ts:258): whatever fails and
\* whoever deletes, a backtest is there with all its rows or not at all.
WholeOrNothing == \A r \in Requests : stored[r] \in {{}, Parts}

\* A backtest belongs to a dataset that exists, although the dataset was looked
\* up long before the INSERT (backtesting.service.ts:132) and may be deleted
\* meanwhile.
RunsHaveData == \A r \in Saved : target[r] \in datasets

\* Both: a backtest that is there is whole, and about data that are there.
RunsAreSound == WholeOrNothing /\ RunsHaveData

\* A request that is over has neither a client nor a transaction left behind: a
\* client that went back inside its transaction (backtesting.service.ts:317)
\* would keep the dataset locked.
EndsCleanly == \A r \in Requests : pc[r] = "over" => r \notin clients /\ open[r] = {}

\* The handlers implement BacktestLedger: seen from outside a run is saved in one
\* step, for a dataset that exists, and reported as saved only then; and every
\* request is answered, even when all clients of the pool are held by requests
\* that wait for one more (backtesting.service.ts:315).
Ledger == INSTANCE BacktestLedger
              WITH runs <- Saved, about <- target, owed <- {r \in Requests : pc[r] = "summary"}
ImplementsLedger == Ledger!Spec /\ Ledger!Answered
=============================================================================
