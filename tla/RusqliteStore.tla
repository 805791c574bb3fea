--------------------------- MODULE RusqliteStore ---------------------------
(***************************************************************************)
(* src/rusqlite_store.rs: one RusqliteStore shared by several threads.     *)
(* Every operation borrows a connection from the r2d2 pool, runs one SQL   *)
(* statement on it and gives it back when the function returns.  A         *)
(* mutation of a store with update_timestamp_on_write calls                *)
(* update_modified_at before it returns, which borrows a SECOND connection *)
(* while the first is still held, and stamps modified_at in a statement of *)
(* its own: data and stamp are two autocommit transactions.                *)
(*                                                                         *)
(* External parts, as this code uses them.  SQLite runs a statement        *)
(* atomically or fails without effect (busy, locked, I/O).  The pool hands *)
(* out an idle connection, or fails once its timeout has passed with none  *)
(* idle, or none that works.  The clock of the system is set forward or    *)
(* back by whoever owns it; between two settings it does not go back.      *)
(*                                                                         *)
(* Time.  What matters of it is the order of the executed mutations, which *)
(* clock counts, and how far the time of day is ahead of that count, skew. *)
(* The time of day is their sum.                                           *)
(***************************************************************************)
EXTENDS Integers, StoreRequests

CONSTANTS Threads,        \* threads that share the store
          Conns,          \* connections of the pool (max_size, 10 by default)
          NoConn,         \* stands for "holds no connection"
          NoRequest,      \* the request of a thread outside the store
          Skews,          \* what skew can be set to
          EngineMayFail,  \* can SQL statements fail
          MaxCalls,       \* bound: calls made in a behaviour
          MaxRestarts     \* bound: crashes of the process

ASSUME ConnAssumption == NoConn \notin Conns
ASSUME SkewAssumption == Skews \subseteq Nat
ASSUME BoundAssumption ==
  EngineMayFail \in BOOLEAN /\ MaxCalls \in Nat /\ MaxRestarts \in Nat

VARIABLES opts,         \* the fields write and update_timestamp_on_write
          data,         \* table zarr: the value of each key
          modified_at,  \* metadata row modified_at, a time of day; 0: no such row
          clock,        \* order of the mutations: one more at each executed one
          skew,         \* how far the time of day is ahead of clock
          stampedAt,    \* history: clock when modified_at was written, or 0
          idle,         \* connections in the pool
          conn,         \* the connection an operation holds
          tsConn,       \* the connection its update_modified_at holds
          pc,           \* where each thread is in its operation
          call,         \* the request each thread is serving
          result,       \* what the operation will return
          got,          \* the rows it has read
          mutatedAt,    \* history: clock when its mutation was executed, or 0
          calls,        \* number of calls made, up to MaxCalls
          restarts      \* number of crashes, up to MaxRestarts

dbVars == <<data, modified_at, stampedAt, clock, skew>>
poolVars == <<idle, conn, tsConn>>
callVars == <<pc, call, result, got, mutatedAt>>
vars == <<opts, dbVars, poolVars, callVars, calls, restarts>>

Options == [write: BOOLEAN, update_timestamp_on_write: BOOLEAN]

-----------------------------------------------------------------------------
\* The early returns taken before any connection is asked for.
IsRefused(r) ==
  \/ r.op \in Mutations /\ ~opts.write       \* StorageError::ReadOnly
  \/ r.op = "set_partial"                    \* ReadOnly or Unsupported
IsSkipped(r) == r.op = "checkpoint" /\ ~opts.write

\* vacuum has no such return: SQLite itself rejects it on a read-only
\* connection.
IsRejected(r) == r.op = "vacuum" /\ ~opts.write

-----------------------------------------------------------------------------
(* A store on a file that RusqliteStore::new has just created, or opened   *)
(* again with other options: no rows, and no modified_at because the       *)
(* metadata written on creation has none.                                  *)

Init ==
  /\ opts \in Options
  /\ data = [k \in Keys |-> Absent]
  /\ modified_at = 0
  /\ stampedAt = 0
  /\ clock = 1
  /\ skew \in Skews
  /\ idle = Conns
  /\ conn = [t \in Threads |-> NoConn]
  /\ tsConn = [t \in Threads |-> NoConn]
  /\ pc = [t \in Threads |-> "idle"]
  /\ call = [t \in Threads |-> NoRequest]
  /\ result = [t \in Threads |-> "none"]
  /\ got = [t \in Threads |-> Nothing]
  /\ mutatedAt = [t \in Threads |-> 0]
  /\ calls = 0
  /\ restarts = 0

Invoke(t, r) ==
  /\ pc[t] = "idle"
  /\ calls < MaxCalls
  /\ calls' = calls + 1
  /\ pc' = [pc EXCEPT ![t] = "called"]
  /\ call' = [call EXCEPT ![t] = r]
  /\ UNCHANGED <<opts, dbVars, poolVars, result, got, mutatedAt, restarts>>

\* Thread t leaves for its caller with the given result.
Finish(t, res) ==
  /\ pc' = [pc EXCEPT ![t] = "return"]
  /\ result' = [result EXCEPT ![t] = res]

\* The guards at the top of an operation.
Refuse(t) ==
  /\ pc[t] = "called"
  /\ \/ IsRefused(call[t]) /\ Finish(t, "error")
     \/ IsSkipped(call[t]) /\ Finish(t, "ok")
  /\ UNCHANGED <<opts, dbVars, poolVars, call, got, mutatedAt, calls, restarts>>

\* self.connection()? of the operation itself.
Connect(t) ==
  /\ pc[t] = "called"
  /\ ~IsRefused(call[t]) /\ ~IsSkipped(call[t])
  /\ \/ /\ \E c \in idle :
             /\ conn' = [conn EXCEPT ![t] = c]
             /\ idle' = idle \ {c}
        /\ pc' = [pc EXCEPT ![t] = "execute"]
        /\ UNCHANGED result
     \/ /\ idle = {} \/ EngineMayFail
        /\ Finish(t, "error")
        /\ UNCHANGED <<idle, conn>>
  /\ UNCHANGED <<opts, dbVars, tsConn, call, got, mutatedAt, calls, restarts>>

\* The statement of the operation.
Execute(t) ==
  /\ pc[t] = "execute"
  /\ ~IsRejected(call[t])
  /\ data' = Effect(data, call[t])
  /\ got' = [got EXCEPT ![t] = Answer(data, call[t])]
  /\ IF call[t].op \in Mutations
       THEN /\ clock' = clock + 1
            /\ mutatedAt' = [mutatedAt EXCEPT ![t] = clock + 1]
       ELSE UNCHANGED <<clock, mutatedAt>>
  /\ IF call[t].op \in Mutations /\ opts.update_timestamp_on_write
       THEN pc' = [pc EXCEPT ![t] = "connect_ts"] /\ UNCHANGED result
       ELSE Finish(t, "ok")
  /\ UNCHANGED <<opts, modified_at, stampedAt, skew, poolVars, call, calls, restarts>>

ExecuteFails(t) ==
  /\ pc[t] = "execute"
  /\ EngineMayFail \/ IsRejected(call[t])
  /\ Finish(t, "error")
  /\ UNCHANGED <<opts, dbVars, poolVars, call, got, mutatedAt, calls, restarts>>

\* list_dir_inner looks at no row's error: `.last()` ends at the first one
\* and Ok is returned with the rows before it, none if the database is busy.
ListDirBreaksOff(t) ==
  /\ pc[t] = "execute"
  /\ EngineMayFail
  /\ call[t].op = "list_dir"
  /\ \E part \in PartialAnswers(data, call[t]) : got' = [got EXCEPT ![t] = part]
  /\ Finish(t, "ok")
  /\ UNCHANGED <<opts, dbVars, poolVars, call, mutatedAt, calls, restarts>>

\* update_modified_at: self.connection()? with the first connection held.
BorrowTs(t) ==
  /\ \E c \in idle :
       /\ tsConn' = [tsConn EXCEPT ![t] = c]
       /\ idle' = idle \ {c}
  /\ pc' = [pc EXCEPT ![t] = "stamp"]
  /\ UNCHANGED result

TimeoutTs(t, res) ==
  /\ idle = {} \/ EngineMayFail
  /\ Finish(t, res)
  /\ UNCHANGED <<idle, tsConn>>

\* Mutant: no timeout.
ConnectTsForever(t) ==
  /\ pc[t] = "connect_ts"
  /\ BorrowTs(t)
  /\ UNCHANGED <<opts, dbVars, conn, call, got, mutatedAt, calls, restarts>>

\* Mutant: the timeout is not reported.
ConnectTsIgnored(t) ==
  /\ pc[t] = "connect_ts"
  /\ BorrowTs(t) \/ TimeoutTs(t, "ok")
  /\ UNCHANGED <<opts, dbVars, conn, call, got, mutatedAt, calls, restarts>>

ConnectTs(t) ==
  /\ pc[t] = "connect_ts"
  /\ BorrowTs(t) \/ TimeoutTs(t, "error")
  /\ UNCHANGED <<opts, dbVars, conn, call, got, mutatedAt, calls, restarts>>

\* modified_at is overwritten with a time of day, whatever it was.
WriteStamp(time) ==
  /\ modified_at' = time
  /\ stampedAt' = clock

\* Mutant: the time is taken when the data are written.
StampEarlier(t) ==
  /\ pc[t] = "stamp"
  /\ WriteStamp(mutatedAt[t] + skew)
  /\ Finish(t, "ok")
  /\ UNCHANGED <<opts, data, clock, skew, poolVars, call, got, mutatedAt, calls, restarts>>

\* update_modified_at: 'now' is read by the statement itself.
Stamp(t) ==
  /\ pc[t] = "stamp"
  /\ WriteStamp(clock + skew)
  /\ Finish(t, "ok")
  /\ UNCHANGED <<opts, data, clock, skew, poolVars, call, got, mutatedAt, calls, restarts>>

\* Mutant: the whole operation is tried again.
StampFailsRetry(t) ==
  /\ pc[t] = "stamp"
  /\ EngineMayFail
  /\ pc' = [pc EXCEPT ![t] = "execute"]
  /\ UNCHANGED <<opts, dbVars, poolVars, call, result, got, mutatedAt, calls, restarts>>

StampFails(t) ==
  /\ pc[t] = "stamp"
  /\ EngineMayFail
  /\ Finish(t, "error")
  /\ UNCHANGED <<opts, dbVars, poolVars, call, got, mutatedAt, calls, restarts>>

\* The function returns and drops its connections, which puts the given ones
\* back to the pool.
Drop(t, back) ==
  /\ pc[t] = "return"
  /\ idle' = idle \cup back
  /\ conn' = [conn EXCEPT ![t] = NoConn]
  /\ tsConn' = [tsConn EXCEPT ![t] = NoConn]
  /\ pc' = [pc EXCEPT ![t] = "idle"]
  /\ call' = [call EXCEPT ![t] = NoRequest]
  /\ result' = [result EXCEPT ![t] = "none"]
  /\ got' = [got EXCEPT ![t] = Nothing]
  /\ mutatedAt' = [mutatedAt EXCEPT ![t] = 0]
  /\ UNCHANGED <<opts, dbVars, calls, restarts>>

\* Mutants: a connection that was never borrowed is given back; the second
\* one is not given back.
ReturnUnborrowed(t) == Drop(t, {conn[t], tsConn[t]})
ReturnLeaking(t) == Drop(t, {conn[t]} \ {NoConn})

Return(t) == Drop(t, {conn[t], tsConn[t]} \ {NoConn})

\* The process dies at any point and opens the existing file again, with
\* any options.  Opening for writing stamps modified_at, unless every write
\* will.
Restart ==
  /\ restarts < MaxRestarts
  /\ restarts' = restarts + 1
  /\ opts' \in Options
  /\ IF opts'.write /\ ~opts'.update_timestamp_on_write
       THEN WriteStamp(clock + skew)
       ELSE UNCHANGED <<modified_at, stampedAt>>
  /\ idle' = Conns
  /\ conn' = [t \in Threads |-> NoConn]
  /\ tsConn' = [t \in Threads |-> NoConn]
  /\ pc' = [t \in Threads |-> "idle"]
  /\ call' = [t \in Threads |-> NoRequest]
  /\ result' = [t \in Threads |-> "none"]
  /\ got' = [t \in Threads |-> Nothing]
  /\ mutatedAt' = [t \in Threads |-> 0]
  /\ UNCHANGED <<data, clock, skew, calls>>

\* The clock of the system is set, forward or back.
SetClock ==
  /\ skew' \in Skews \ {skew}
  /\ UNCHANGED <<opts, data, modified_at, stampedAt, clock, poolVars, callVars, calls, restarts>>

\* A step of an operation that has been called.
Run(t) ==
  \/ Refuse(t) \/ Connect(t) \/ Execute(t) \/ ExecuteFails(t)
  \/ ListDirBreaksOff(t) \/ ConnectTs(t) \/ Stamp(t) \/ StampFails(t) \/ Return(t)

Next ==
  \/ \E t \in Threads : Run(t) \/ \E r \in Requests : Invoke(t, r)
  \/ Restart \/ SetClock

Spec == Init /\ [][Next]_vars

\* The operating system schedules every thread that can run; a thread that
\* waits for a connection always can, since its wait times out.
Fairness == \A t \in Threads : WF_vars(Run(t))

FairSpec == Spec /\ Fairness

-----------------------------------------------------------------------------
(* Properties.                                                             *)

\* The values that each variable can have.
TypeOK ==
  /\ opts \in Options
  /\ data \in [Keys -> Values \cup {Absent}]
  /\ modified_at \in Nat
  /\ stampedAt \in Nat
  /\ clock \in Nat
  /\ skew \in Skews
  /\ idle \subseteq Conns
  /\ conn \in [Threads -> Conns \cup {NoConn}]
  /\ tsConn \in [Threads -> Conns \cup {NoConn}]
  /\ pc \in [Threads -> {"idle", "called", "execute", "connect_ts", "stamp", "return"}]
  /\ call \in [Threads -> Requests \cup {NoRequest}]
  /\ result \in [Threads -> {"none", "ok", "error"}]
  /\ got \in [Threads -> Answers]
  /\ mutatedAt \in [Threads -> Nat]
  /\ calls \in Nat
  /\ restarts \in Nat

Held(t) == {conn[t], tsConn[t]} \ {NoConn}

\* Along every path of every operation, the failing ones included, each
\* connection is in the pool or with one thread: none is lost, none is lent
\* twice (rusqlite_store.rs, connection() and the `?` after it).
PoolConserved ==
  /\ \A c \in Conns : c \in idle \/ \E t \in Threads : c \in Held(t)
  /\ \A t \in Threads : Held(t) \cap idle = {}
  /\ \A t, u \in Threads : t # u => Held(t) \cap Held(u) = {}
  /\ \A t \in Threads : conn[t] # NoConn => conn[t] # tsConn[t]

\* With update_timestamp_on_write, a mutation that returns Ok is covered by
\* modified_at: the stamp was written after the data, whatever the other
\* threads did in between (set, erase, erase_prefix).
OkMeansStamped ==
  \A t \in Threads :
    /\ pc[t] = "return" /\ result[t] = "ok"
    /\ call[t].op \in Mutations /\ opts.update_timestamp_on_write
    => mutatedAt[t] > 0 /\ stampedAt >= mutatedAt[t]

\* modified_at goes back only if the clock of the system was set back since
\* it was written: never because threads stamp in another order than they
\* wrote, and never by a crash (queries.rs:40-43).
StampFollowsClock ==
  [][modified_at' < modified_at => skew < modified_at - stampedAt]_vars

\* If a thread waits for its second connection and none is idle, some
\* holder of a connection is not waiting itself: no circle of threads that
\* each hold what the others need.  True of a pool that is larger than the
\* number of threads.
NoHoldAndWait ==
  (\E t \in Threads : pc[t] = "connect_ts") =>
    \/ idle # {}
    \/ \E t \in Threads : pc[t] \in {"execute", "stamp", "return"} /\ Held(t) # {}

\* options.rs:94 "Update the modified timestamp in the metadata every time
\* the data are mutated": when no call is in progress, modified_at was
\* written after the last mutation.
EveryMutationStamped ==
  /\ opts.update_timestamp_on_write
  /\ \A t \in Threads : pc[t] = "idle"
  /\ clock > 1
  => stampedAt = clock

\* The test rusqlite_store.rs:534-536 expects all the children of a prefix
\* from list_dir: an Ok list_dir has read every row it should.
ListDirIsWhole ==
  \A t \in Threads :
    pc[t] = "return" /\ result[t] = "ok" /\ call[t].op = "list_dir" =>
      DOMAIN got[t] = call[t].keys

\* Every call returns, with Ok or with an error.
EveryCallReturns == \A t \in Threads : pc[t] = "called" ~> pc[t] = "idle"

\* The store is a linearizable map, list_dir apart: ZarrStore, seen through this mapping.
\* A call has taken effect once its own statement is executed, whatever
\* becomes of the stamp.
phase ==
  [t \in Threads |->
     CASE pc[t] = "idle" -> "idle"
       [] pc[t] \in {"called", "execute"} -> "pending"
       [] pc[t] = "return" /\ result[t] = "error" -> "failed"
       [] OTHER -> "applied"]

Abstract == INSTANCE ZarrStore WITH Clients <- Threads, req <- call, drops <- restarts

Linearizable == Abstract!Spec
=============================================================================
