---------------------------- MODULE TursoStore ----------------------------
(***************************************************************************)
(* src/turso_store.rs: one TursoStore shared by several tasks.  The SQL and *)
(* the guards are those of RusqliteStore; the rest is not.  Each operation  *)
(* makes connections of its own, so that there is no pool to wait for.     *)
(* Each operation is a future, which stops for other tasks at every await  *)
(* and which its owner may drop there: what was executed stays executed,   *)
(* what comes after never runs.  Rows are fetched one await at a time.     *)
(*                                                                         *)
(* External parts, as this code uses them.  Turso runs a statement         *)
(* atomically or fails without effect (busy, I/O); a statement whose       *)
(* future is dropped has been committed or never is; a query reads from    *)
(* one snapshot, however long its rows are fetched; what is committed      *)
(* survives a crash in the write-ahead log.  PRAGMA wal_checkpoint moves   *)
(* the log to the main database file, or returns a row with busy = 1 when  *)
(* readers, of this program or another, are in its way.  The clock of the  *)
(* system is set forward or back by whoever owns it.                       *)
(*                                                                         *)
(* Time is as in RusqliteStore: clock counts the executed mutations, and   *)
(* the time of day is skew ahead of it.                                    *)
(***************************************************************************)
EXTENDS Integers, StoreRequests

CONSTANTS Tasks,          \* tasks that share the store
          NoRequest,      \* the request of a task outside the store
          Skews,          \* what skew can be set to
          EngineMayFail,  \* can connections, statements and rows fail
          MaxCalls,       \* bound: calls made in a behaviour
          MaxDrops        \* bound: futures dropped, and crashes

ASSUME SkewAssumption == Skews \subseteq Nat
ASSUME BoundAssumption ==
  EngineMayFail \in BOOLEAN /\ MaxCalls \in Nat /\ MaxDrops \in Nat

VARIABLES opts,         \* the fields write and update_timestamp_on_write
          data,         \* table zarr: the value of each key
          modified_at,  \* metadata row modified_at, a time of day; 0: no such row
          clock,        \* order of the mutations: one more at each executed one
          skew,         \* how far the time of day is ahead of clock
          stampedAt,    \* history: clock when modified_at was written, or 0
          main,         \* what the main file holds, the log left aside: the
                        \* data and the stamp, each as of a value of clock
          pc,           \* the await at which each future is
          call,         \* the request each task is serving
          result,       \* what the operation will return
          got,          \* the snapshot its rows come from
          busy,         \* the field of its CheckpointResult
          mutatedAt,    \* history: clock when its mutation was executed, or 0
          asked,        \* history: what main would hold, had the checkpoint
                        \* been made when it was called
          unstampedAt,  \* history: the last mutation, as a value of clock, that
                        \* no stamp of its own call followed, or 0
          calls,        \* number of calls made, up to MaxCalls
          drops         \* number of futures dropped and crashes, up to MaxDrops

dbVars == <<data, modified_at, stampedAt, clock, skew, main>>
callVars == <<pc, call, result, got, busy, mutatedAt, asked>>
vars == <<opts, dbVars, callVars, unstampedAt, calls, drops>>

Options == [write: BOOLEAN, update_timestamp_on_write: BOOLEAN]

\* The early returns taken before any statement.  vacuum has none, and the
\* database is opened without a read-only flag: it runs on any store.
IsRefused(r) ==
  \/ r.op \in Mutations /\ ~opts.write       \* StorageError::ReadOnly
  \/ r.op = "set_partial"                    \* ReadOnly or Unsupported
IsSkipped(r) == r.op = "checkpoint" /\ ~opts.write

\* All that is committed at this moment, and nothing.
Committed == [data |-> clock, stamp |-> stampedAt]
NothingSaved == [data |-> 0, stamp |-> 0]

-----------------------------------------------------------------------------
Init ==
  /\ opts \in Options
  /\ data = [k \in Keys |-> Absent]
  /\ modified_at = 0
  /\ stampedAt = 0
  /\ clock = 1
  /\ skew \in Skews
  /\ main = NothingSaved
  /\ pc = [t \in Tasks |-> "idle"]
  /\ call = [t \in Tasks |-> NoRequest]
  /\ result = [t \in Tasks |-> "none"]
  /\ got = [t \in Tasks |-> Nothing]
  /\ busy = [t \in Tasks |-> FALSE]
  /\ mutatedAt = [t \in Tasks |-> 0]
  /\ asked = [t \in Tasks |-> NothingSaved]
  /\ unstampedAt = 0
  /\ calls = 0
  /\ drops = 0

Invoke(t, r) ==
  /\ pc[t] = "idle"
  /\ calls < MaxCalls
  /\ calls' = calls + 1
  /\ pc' = [pc EXCEPT ![t] = "called"]
  /\ call' = [call EXCEPT ![t] = r]
  /\ asked' = [asked EXCEPT ![t] = IF r.op = "checkpoint" THEN Committed ELSE NothingSaved]
  /\ UNCHANGED <<opts, dbVars, result, got, busy, mutatedAt, unstampedAt, drops>>

\* The future of task t is ready with the given result.
Finish(t, res) ==
  /\ pc' = [pc EXCEPT ![t] = "ready"]
  /\ result' = [result EXCEPT ![t] = res]

\* The guards at the top of an operation.
Refuse(t) ==
  /\ pc[t] = "called"
  /\ \/ IsRefused(call[t]) /\ Finish(t, "error")
     \/ IsSkipped(call[t]) /\ Finish(t, "ok")
  /\ UNCHANGED <<opts, dbVars, call, got, busy, mutatedAt, asked, unstampedAt, calls, drops>>

\* Its own statement can run.
Starts(t) ==
  /\ pc[t] = "called"
  /\ ~IsRefused(call[t]) /\ ~IsSkipped(call[t])

\* The mutation is committed; stamping says whether update_modified_at is next.
Mutate(t, stamping) ==
  /\ Starts(t)
  /\ call[t].op \in Mutations
  /\ data' = Effect(data, call[t])
  /\ clock' = clock + 1
  /\ mutatedAt' = [mutatedAt EXCEPT ![t] = clock + 1]
  /\ IF stamping
       THEN pc' = [pc EXCEPT ![t] = "stamp"] /\ UNCHANGED result
       ELSE Finish(t, "ok")
  /\ unstampedAt' = IF opts.update_timestamp_on_write THEN unstampedAt ELSE clock + 1
  /\ UNCHANGED <<opts, modified_at, stampedAt, skew, main, call, got, busy, asked, calls, drops>>

\* Mutant: erase_prefix has no stamp.
ExecuteForgetful(t) ==
  Mutate(t, opts.update_timestamp_on_write /\ call[t].op # "erase_prefix")

\* connection()? and the await of conn.execute.
Execute(t) == Mutate(t, opts.update_timestamp_on_write)

\* connection()? and the await of conn.query, which fixes the snapshot.
Query(t) ==
  /\ Starts(t)
  /\ call[t].op \notin Mutations \cup {"checkpoint", "vacuum"}
  /\ got' = [got EXCEPT ![t] = Answer(data, call[t])]
  /\ pc' = [pc EXCEPT ![t] = "rows"]
  /\ UNCHANGED <<opts, dbVars, call, result, busy, mutatedAt, asked, unstampedAt, calls, drops>>

\* One statement that has no rows.
Vacuum(t) ==
  /\ Starts(t)
  /\ call[t].op = "vacuum"
  /\ Finish(t, "ok")
  /\ UNCHANGED <<opts, dbVars, call, got, busy, mutatedAt, asked, unstampedAt, calls, drops>>

\* Mutant: the flag is taken for "it worked".
SuccessFlag(busy_int) == busy_int = 0

\* CheckpointResult::new.
BusyFlag(busy_int) == busy_int # 0

OthersRead(t) == \E u \in Tasks \ {t} : pc[u] = "rows"

\* The pragma: a statement that returns one row, whatever it could do.
Checkpoint(t) ==
  /\ Starts(t)
  /\ call[t].op = "checkpoint"
  /\ \/ ~OthersRead(t) /\ main' = Committed /\ busy' = [busy EXCEPT ![t] = BusyFlag(0)]
     \/ /\ OthersRead(t) \/ EngineMayFail
        /\ busy' = [busy EXCEPT ![t] = BusyFlag(1)]
        /\ UNCHANGED main
  /\ pc' = [pc EXCEPT ![t] = "rows"]
  /\ UNCHANGED <<opts, data, modified_at, stampedAt, clock, skew, call, result, got, mutatedAt,
                 asked, unstampedAt, calls, drops>>

StatementFails(t) ==
  /\ Starts(t)
  /\ EngineMayFail
  /\ Finish(t, "error")
  /\ UNCHANGED <<opts, dbVars, call, got, busy, mutatedAt, asked, unstampedAt, calls, drops>>

\* Mutant: a busy checkpoint is neither Ok nor an error.
FetchRowsBusy(t) ==
  /\ pc[t] = "rows"
  /\ Finish(t, IF busy[t] THEN "busy" ELSE "ok")
  /\ UNCHANGED <<opts, dbVars, call, got, busy, mutatedAt, asked, unstampedAt, calls, drops>>

\* rows.next() until there is no more: an error of any row is returned.
FetchRows(t) ==
  /\ pc[t] = "rows"
  /\ Finish(t, "ok") \/ (EngineMayFail /\ Finish(t, "error"))
  /\ UNCHANGED <<opts, dbVars, call, got, busy, mutatedAt, asked, unstampedAt, calls, drops>>

\* modified_at is overwritten with a time of day, whatever it was.
WriteStamp(time) ==
  /\ modified_at' = time
  /\ stampedAt' = clock

StampAs(t, time) ==
  /\ pc[t] = "stamp"
  /\ WriteStamp(time)
  /\ Finish(t, "ok")
  /\ UNCHANGED <<opts, data, clock, skew, main, call, got, busy, mutatedAt, asked, unstampedAt,
                 calls, drops>>

\* Mutant: the time is taken when the data are written.
StampEarlier(t) == StampAs(t, mutatedAt[t] + skew)

\* update_modified_at: 'now' is read by the statement itself.
Stamp(t) == StampAs(t, clock + skew)

\* The mutation of t will never be stamped by its own call.
Abandon(t) ==
  unstampedAt' = IF mutatedAt[t] > unstampedAt THEN mutatedAt[t] ELSE unstampedAt

\* Mutant: the error is logged.
StampFailsSilently(t) ==
  /\ pc[t] = "stamp"
  /\ EngineMayFail
  /\ Abandon(t)
  /\ Finish(t, "ok")
  /\ UNCHANGED <<opts, dbVars, call, got, busy, mutatedAt, asked, calls, drops>>

StampFails(t) ==
  /\ pc[t] = "stamp"
  /\ EngineMayFail
  /\ Abandon(t)
  /\ Finish(t, "error")
  /\ UNCHANGED <<opts, dbVars, call, got, busy, mutatedAt, asked, calls, drops>>

\* Nothing is left of the future of task t.
Forget(t) ==
  /\ pc' = [pc EXCEPT ![t] = "idle"]
  /\ call' = [call EXCEPT ![t] = NoRequest]
  /\ result' = [result EXCEPT ![t] = "none"]
  /\ got' = [got EXCEPT ![t] = Nothing]
  /\ busy' = [busy EXCEPT ![t] = FALSE]
  /\ mutatedAt' = [mutatedAt EXCEPT ![t] = 0]
  /\ asked' = [asked EXCEPT ![t] = NothingSaved]

Return(t) ==
  /\ pc[t] = "ready"
  /\ Forget(t)
  /\ UNCHANGED <<opts, dbVars, unstampedAt, calls, drops>>

\* Mutant: the operation was spawned and goes on without its owner.
CancelDetached(t) ==
  /\ pc[t] \in {"called", "rows", "stamp"}
  /\ drops < MaxDrops
  /\ drops' = drops + 1
  /\ IF pc[t] = "called" THEN data' = Effect(data, call[t]) ELSE UNCHANGED data
  /\ Forget(t)
  /\ UNCHANGED <<opts, modified_at, stampedAt, clock, skew, main, unstampedAt, calls>>

\* The owner drops the future at an await, or before its first poll.
Cancel(t) ==
  /\ pc[t] \in {"called", "rows", "stamp"}
  /\ drops < MaxDrops
  /\ drops' = drops + 1
  /\ IF pc[t] = "stamp" THEN Abandon(t) ELSE UNCHANGED unstampedAt
  /\ Forget(t)
  /\ UNCHANGED <<opts, dbVars, calls>>

\* The process dies at any point and opens the existing file again, with any
\* options.  Opening for writing stamps modified_at, unless every write will.
Restart ==
  /\ drops < MaxDrops
  /\ drops' = drops + 1
  /\ opts' \in Options
  /\ IF opts'.write /\ ~opts'.update_timestamp_on_write
       THEN WriteStamp(clock + skew)
       ELSE UNCHANGED <<modified_at, stampedAt>>
  /\ unstampedAt' = IF \E t \in Tasks : pc[t] = "stamp" /\ mutatedAt[t] = clock
                      THEN clock ELSE unstampedAt
  /\ pc' = [t \in Tasks |-> "idle"]
  /\ call' = [t \in Tasks |-> NoRequest]
  /\ result' = [t \in Tasks |-> "none"]
  /\ got' = [t \in Tasks |-> Nothing]
  /\ busy' = [t \in Tasks |-> FALSE]
  /\ mutatedAt' = [t \in Tasks |-> 0]
  /\ asked' = [t \in Tasks |-> NothingSaved]
  /\ UNCHANGED <<data, clock, skew, main, calls>>

\* The clock of the system is set, forward or back.
SetClock ==
  /\ skew' \in Skews \ {skew}
  /\ UNCHANGED <<opts, data, modified_at, stampedAt, clock, main, callVars, unstampedAt, calls,
                 drops>>

Poll(t) ==
  \/ Refuse(t) \/ Execute(t) \/ Query(t) \/ Vacuum(t) \/ Checkpoint(t) \/ StatementFails(t)
  \/ FetchRows(t) \/ Stamp(t) \/ StampFails(t) \/ Return(t)

Next ==
  \/ \E t \in Tasks : Poll(t) \/ Cancel(t) \/ \E r \in Requests : Invoke(t, r)
  \/ Restart \/ SetClock

Spec == Init /\ [][Next]_vars

-----------------------------------------------------------------------------
(* Properties.                                                             *)

\* The values that each variable can have.
TypeOK ==
  /\ opts \in Options
  /\ data \in [Keys -> Values \cup {Absent}]
  /\ clock \in Nat
  /\ modified_at \in Nat
  /\ stampedAt \in 0..clock
  /\ skew \in Skews
  /\ pc \in [Tasks -> {"idle", "called", "rows", "stamp", "ready"}]
  /\ call \in [Tasks -> Requests \cup {NoRequest}]
  /\ result \in [Tasks -> {"none", "ok", "error"}]
  /\ main \in [data: Nat, stamp: Nat]
  /\ got \in [Tasks -> Answers]
  /\ busy \in [Tasks -> BOOLEAN]
  /\ mutatedAt \in [Tasks -> 0..clock]
  /\ asked \in [Tasks -> [data: Nat, stamp: Nat]]
  /\ unstampedAt \in 0..clock
  /\ calls \in Nat
  /\ drops \in Nat

\* With update_timestamp_on_write, a mutation whose future is ready with Ok
\* is covered by modified_at, which was written after it, whatever the other
\* tasks did at its awaits.
OkMeansStamped ==
  \A t \in Tasks :
    /\ pc[t] = "ready" /\ result[t] = "ok"
    /\ call[t].op \in Mutations /\ opts.update_timestamp_on_write
    => mutatedAt[t] > 0 /\ stampedAt >= mutatedAt[t]

\* modified_at goes back only if the clock of the system was set back since
\* it was written: not because tasks get to their stamps in another order
\* than they wrote, nor by a dropped future or a crash.
StampFollowsClock ==
  [][modified_at' < modified_at => skew < modified_at - stampedAt]_vars

\* When no call is in progress, modified_at was written after the data,
\* unless the last mutation was made without the option, dropped between its
\* two statements, or told its caller that it failed.
StampedUnlessAbandoned ==
  /\ \A t \in Tasks : pc[t] = "idle"
  /\ clock > 1
  => stampedAt = clock \/ unstampedAt = clock

\* turso_store.rs:58-61 "to ensure that all writes are persisted": when
\* checkpoint on a store that writes is ready with Ok and not busy, all that
\* was committed before it was called, data and stamp, is in the main file,
\* whatever the other tasks did meanwhile.
CheckpointSaves ==
  \A t \in Tasks :
    /\ pc[t] = "ready" /\ result[t] = "ok" /\ ~busy[t]
    /\ call[t].op = "checkpoint" /\ opts.write
    => main.data >= asked[t].data /\ main.stamp >= asked[t].stamp

\* The store is a linearizable map: ZarrStore, seen through this mapping.  A
\* dropped future has taken effect by then or never will.
phase ==
  [t \in Tasks |->
     CASE pc[t] = "idle" -> "idle"
       [] pc[t] = "called" -> "pending"
       [] pc[t] = "ready" /\ result[t] = "error" -> "failed"
       [] OTHER -> "applied"]

Abstract == INSTANCE ZarrStore WITH Clients <- Tasks, req <- call

Linearizable == Abstract!Spec
=============================================================================
