------------------------- MODULE TursoStoreProofs -------------------------
(***************************************************************************)
(* Proofs about TursoStore, for any number of tasks, keys and values, any  *)
(* number of calls, of futures dropped and of crashes.                     *)
(***************************************************************************)
EXTENDS TursoStore, TLAPS

\* What is known of a call at each await.
CallInv ==
  \A t \in Tasks :
    /\ pc[t] = "idle" => call[t] = NoRequest
    /\ pc[t] # "idle" => call[t] \in Requests
    /\ pc[t] \in {"idle", "called"} => got[t] = Nothing
    /\ pc[t] = "rows" => call[t].op \notin Mutations
    /\ pc[t] = "stamp" =>
         call[t].op \in Mutations /\ opts.update_timestamp_on_write /\ mutatedAt[t] > 0

\* The last mutation is stamped, or will be by its own call, or never.
LastInv ==
  \/ clock = 1
  \/ stampedAt = clock
  \/ unstampedAt = clock
  \/ \E t \in Tasks : pc[t] = "stamp" /\ mutatedAt[t] = clock

\* What is in the main file was committed before; a checkpoint that is called
\* asks for no more than is committed, and one that has run and was not busy
\* has saved it.
SavedInv ==
  /\ main.data <= clock /\ main.stamp <= stampedAt
  /\ \A t \in Tasks :
       /\ asked[t].data <= clock /\ asked[t].stamp <= stampedAt
       /\ pc[t] = "rows" /\ call[t].op = "checkpoint" /\ ~busy[t] =>
            main.data >= asked[t].data /\ main.stamp >= asked[t].stamp

IInv == TypeOK /\ CallInv /\ OkMeansStamped /\ LastInv /\ SavedInv /\ CheckpointSaves

-----------------------------------------------------------------------------
(* What every request looks like.                                          *)
LEMMA RequestFields ==
  ASSUME NEW r \in Requests
  PROVE  r.keys \in SUBSET Keys /\ r.value \in Values \cup {Absent}
BY PrefixAssumption DEF Requests, Set, Erase, ErasePrefix, Get, List, SetPartial, Maintenance, Singletons

(* A request turns a table into a table.                                   *)
LEMMA EffectType ==
  ASSUME NEW d \in [Keys -> Values \cup {Absent}], NEW r \in Requests
  PROVE  Effect(d, r) \in [Keys -> Values \cup {Absent}]
BY RequestFields DEF Effect

LEMMA NothingType == Nothing \in Answers
<1>1. Nothing \in [{} -> Values \cup {Absent}]
  BY DEF Nothing
<1> QED
  BY <1>1 DEF Answers

(* What a request reads is a part of a table.                              *)
LEMMA AnswerType ==
  ASSUME NEW d \in [Keys -> Values \cup {Absent}], NEW r \in Requests
  PROVE  Answer(d, r) \in Answers
<1>1. r.keys \in SUBSET Keys
  BY RequestFields
<1>2. [k \in r.keys |-> d[k]] \in [r.keys -> Values \cup {Absent}]
  BY <1>1
<1>3. [k \in r.keys |-> d[k]] \in Answers
  BY <1>1, <1>2 DEF Answers
<1> QED
  BY <1>3, NothingType DEF Answer

-----------------------------------------------------------------------------
LEMMA InitInv == Init => IInv
<1> SUFFICES ASSUME Init PROVE IInv
  OBVIOUS
<1>1. TypeOK
  BY NothingType DEF Init, TypeOK, NothingSaved
<1> QED
  BY <1>1 DEF Init, IInv, CallInv, OkMeansStamped, LastInv, SavedInv, CheckpointSaves, NothingSaved

(* TypeOK is preserved.                                                    *)
LEMMA TypeStep == TypeOK /\ CallInv /\ [Next]_vars => TypeOK'
<1> SUFFICES ASSUME TypeOK, CallInv, [Next]_vars PROVE TypeOK'
  OBVIOUS
<1> USE DEF TypeOK, Finish
<1>0. NothingSaved \in [data: Nat, stamp: Nat] /\ Committed \in [data: Nat, stamp: Nat]
  BY DEF NothingSaved, Committed
<1>t. clock + skew \in Nat
  BY SkewAssumption
<1>1. ASSUME NEW t \in Tasks, NEW r \in Requests, Invoke(t, r) PROVE TypeOK'
  <2>1. asked' \in [Tasks -> [data: Nat, stamp: Nat]]
    BY <1>0, <1>1 DEF Invoke
  <2> QED
    BY <1>1, <2>1 DEF Invoke, dbVars
<1>2. ASSUME NEW t \in Tasks, Refuse(t) PROVE TypeOK'
  BY <1>2 DEF Refuse, dbVars
<1>3. ASSUME NEW t \in Tasks, Execute(t) PROVE TypeOK'
  <2>1. call[t] \in Requests
    BY <1>3 DEF CallInv, Execute, Mutate, Starts
  <2>2. data' \in [Keys -> Values \cup {Absent}]
    BY <1>3, <2>1, EffectType DEF Execute, Mutate
  <2>3. /\ clock' \in Nat /\ stampedAt' \in 0..clock' /\ unstampedAt' \in 0..clock'
        /\ mutatedAt' \in [Tasks -> 0..clock']
    BY <1>3 DEF Execute, Mutate
  <2> QED
    BY <1>3, <2>2, <2>3 DEF Execute, Mutate
<1>4. ASSUME NEW t \in Tasks, Query(t) PROVE TypeOK'
  <2>1. call[t] \in Requests
    BY <1>4 DEF CallInv, Query, Starts
  <2> QED
    BY <1>4, <2>1, AnswerType DEF Query, dbVars
<1>5. ASSUME NEW t \in Tasks, StatementFails(t) PROVE TypeOK'
  BY <1>5 DEF StatementFails, dbVars
<1>6. ASSUME NEW t \in Tasks, FetchRows(t) PROVE TypeOK'
  BY <1>6 DEF FetchRows, dbVars
<1>7. ASSUME NEW t \in Tasks, Stamp(t) PROVE TypeOK'
  BY <1>7, <1>t DEF Stamp, StampAs, WriteStamp
<1>8. ASSUME NEW t \in Tasks, StampFails(t) PROVE TypeOK'
  BY <1>8 DEF StampFails, Abandon, dbVars
<1>f. ASSUME NEW t \in Tasks, Forget(t)
      PROVE  /\ pc' \in [Tasks -> {"idle", "called", "rows", "stamp", "ready"}]
             /\ call' \in [Tasks -> Requests \cup {NoRequest}]
             /\ result' \in [Tasks -> {"none", "ok", "error"}]
             /\ got' \in [Tasks -> Answers]
             /\ busy' \in [Tasks -> BOOLEAN]
             /\ mutatedAt' \in [Tasks -> 0..clock]
             /\ asked' \in [Tasks -> [data: Nat, stamp: Nat]]
  <2>1. /\ got' \in [Tasks -> Answers]
        /\ asked' \in [Tasks -> [data: Nat, stamp: Nat]]
    BY <1>0, <1>f, NothingType DEF Forget
  <2> QED
    BY <1>f, <2>1 DEF Forget
<1>9. ASSUME NEW t \in Tasks, Return(t) PROVE TypeOK'
  BY <1>9, <1>f DEF Return, dbVars
<1>10. ASSUME NEW t \in Tasks, Cancel(t) PROVE TypeOK'
  <2>1. unstampedAt' \in 0..clock
    BY <1>10 DEF Cancel, Abandon
  <2> QED
    BY <1>10, <1>f, <2>1 DEF Cancel, dbVars
<1>11. CASE Restart
  <2>1. /\ got' \in [Tasks -> Answers]
        /\ asked' \in [Tasks -> [data: Nat, stamp: Nat]]
    BY <1>0, <1>11, NothingType DEF Restart, WriteStamp
  <2>2. stampedAt' \in 0..clock /\ unstampedAt' \in 0..clock
    BY <1>11 DEF Restart, WriteStamp, Options
  <2>3. modified_at' \in Nat
    BY <1>11, <1>t DEF Restart, WriteStamp
  <2> QED
    BY <1>11, <2>1, <2>2, <2>3 DEF Restart
<1>13. ASSUME NEW t \in Tasks, Checkpoint(t) PROVE TypeOK'
  <2>1. main' \in [data: Nat, stamp: Nat]
    BY <1>0, <1>13 DEF Checkpoint
  <2>2. busy' \in [Tasks -> BOOLEAN]
    BY <1>13 DEF Checkpoint, BusyFlag
  <2> QED
    BY <1>13, <2>1, <2>2 DEF Checkpoint
<1>14. CASE SetClock
  BY <1>14 DEF SetClock, callVars
<1>15. ASSUME NEW t \in Tasks, Vacuum(t) PROVE TypeOK'
  BY <1>15 DEF Vacuum, dbVars
<1>12. CASE UNCHANGED vars
  BY <1>12 DEF vars, dbVars, callVars
<1> QED
  BY <1>1, <1>2, <1>3, <1>4, <1>5, <1>6, <1>7, <1>8, <1>9, <1>10, <1>11, <1>12, <1>13, <1>14, <1>15
  DEF Next, Poll

(* CallInv is preserved.                                                   *)
LEMMA CallStep == TypeOK /\ CallInv /\ [Next]_vars => CallInv'
<1> SUFFICES ASSUME TypeOK, CallInv, [Next]_vars PROVE CallInv'
  OBVIOUS
<1> USE DEF TypeOK, CallInv, Finish
<1>1. ASSUME NEW t \in Tasks, NEW r \in Requests, Invoke(t, r) PROVE CallInv'
  BY <1>1 DEF Invoke
<1>2. ASSUME NEW t \in Tasks, Refuse(t) PROVE CallInv'
  BY <1>2 DEF Refuse
<1>3. ASSUME NEW t \in Tasks, Execute(t) PROVE CallInv'
  BY <1>3 DEF Execute, Mutate, Starts
<1>4. ASSUME NEW t \in Tasks, Query(t) PROVE CallInv'
  BY <1>4 DEF Query, Starts
<1>5. ASSUME NEW t \in Tasks, StatementFails(t) PROVE CallInv'
  BY <1>5 DEF StatementFails, Starts
<1>6. ASSUME NEW t \in Tasks, FetchRows(t) PROVE CallInv'
  BY <1>6 DEF FetchRows
<1>7. ASSUME NEW t \in Tasks, Stamp(t) PROVE CallInv'
  BY <1>7 DEF Stamp, StampAs, WriteStamp
<1>8. ASSUME NEW t \in Tasks, StampFails(t) PROVE CallInv'
  BY <1>8 DEF StampFails
<1>9. ASSUME NEW t \in Tasks, Return(t) PROVE CallInv'
  BY <1>9 DEF Return, Forget
<1>10. ASSUME NEW t \in Tasks, Cancel(t) PROVE CallInv'
  BY <1>10 DEF Cancel, Forget
<1>11. CASE Restart
  BY <1>11 DEF Restart, WriteStamp
<1>14. CASE SetClock
  BY <1>14 DEF SetClock, callVars
<1>15. ASSUME NEW t \in Tasks, Vacuum(t) PROVE CallInv'
  BY <1>15 DEF Vacuum, Starts
<1>12. CASE UNCHANGED vars
  BY <1>12 DEF vars, callVars
<1>13. ASSUME NEW t \in Tasks, Checkpoint(t) PROVE CallInv'
  BY <1>13 DEF Checkpoint, Starts, Mutations
<1> QED
  BY <1>1, <1>2, <1>3, <1>4, <1>5, <1>6, <1>7, <1>8, <1>9, <1>10, <1>11, <1>12, <1>13, <1>14, <1>15
  DEF Next, Poll

(* A stamp is the time at which its statement runs: it covers every        *)
(* mutation executed before, that of its own call first of all.            *)
LEMMA StampStep ==
  TypeOK /\ CallInv /\ OkMeansStamped /\ [Next]_vars => OkMeansStamped'
<1> SUFFICES ASSUME TypeOK, CallInv, OkMeansStamped, [Next]_vars PROVE OkMeansStamped'
  OBVIOUS
<1> USE DEF TypeOK, CallInv, OkMeansStamped, Finish
<1>1. ASSUME NEW t \in Tasks, NEW r \in Requests, Invoke(t, r) PROVE OkMeansStamped'
  BY <1>1 DEF Invoke, dbVars
<1>2. ASSUME NEW t \in Tasks, Refuse(t) PROVE OkMeansStamped'
  BY <1>2 DEF Refuse, dbVars, IsSkipped, Mutations
<1>3. ASSUME NEW t \in Tasks, Execute(t) PROVE OkMeansStamped'
  BY <1>3 DEF Execute, Mutate
<1>4. ASSUME NEW t \in Tasks, Query(t) PROVE OkMeansStamped'
  BY <1>4 DEF Query, dbVars
<1>5. ASSUME NEW t \in Tasks, StatementFails(t) PROVE OkMeansStamped'
  BY <1>5 DEF StatementFails, dbVars
<1>6. ASSUME NEW t \in Tasks, FetchRows(t) PROVE OkMeansStamped'
  BY <1>6 DEF FetchRows, dbVars
<1>7. ASSUME NEW t \in Tasks, Stamp(t) PROVE OkMeansStamped'
  BY <1>7 DEF Stamp, StampAs, WriteStamp
<1>8. ASSUME NEW t \in Tasks, StampFails(t) PROVE OkMeansStamped'
  BY <1>8 DEF StampFails, dbVars
<1>9. ASSUME NEW t \in Tasks, Return(t) PROVE OkMeansStamped'
  BY <1>9 DEF Return, Forget, dbVars
<1>10. ASSUME NEW t \in Tasks, Cancel(t) PROVE OkMeansStamped'
  BY <1>10 DEF Cancel, Forget, dbVars
<1>11. CASE Restart
  BY <1>11 DEF Restart, WriteStamp
<1>14. CASE SetClock
  BY <1>14 DEF SetClock, callVars
<1>15. ASSUME NEW t \in Tasks, Vacuum(t) PROVE OkMeansStamped'
  BY <1>15 DEF Vacuum, dbVars, Mutations
<1>12. CASE UNCHANGED vars
  BY <1>12 DEF vars, callVars, dbVars
<1>13. ASSUME NEW t \in Tasks, Checkpoint(t) PROVE OkMeansStamped'
  BY <1>13 DEF Checkpoint
<1> QED
  BY <1>1, <1>2, <1>3, <1>4, <1>5, <1>6, <1>7, <1>8, <1>9, <1>10, <1>11, <1>12, <1>13, <1>14, <1>15
  DEF Next, Poll

(* LastInv is preserved: a step of one task leaves another's stamp due.    *)
LEMMA LastStep == TypeOK /\ LastInv /\ [Next]_vars => LastInv'
<1> SUFFICES ASSUME TypeOK, LastInv, [Next]_vars PROVE LastInv'
  OBVIOUS
<1> USE DEF TypeOK, Finish
<1>a. ASSUME NEW t \in Tasks, pc[t] # "stamp",
             \A u \in Tasks \ {t} : pc'[u] = pc[u] /\ mutatedAt'[u] = mutatedAt[u],
             UNCHANGED <<stampedAt, clock, unstampedAt>>
      PROVE  LastInv'
  BY <1>a DEF LastInv
<1>1. ASSUME NEW t \in Tasks, NEW r \in Requests, Invoke(t, r) PROVE LastInv'
  BY <1>1, <1>a DEF Invoke, dbVars
<1>2. ASSUME NEW t \in Tasks, Refuse(t) PROVE LastInv'
  BY <1>2, <1>a DEF Refuse, dbVars
<1>3. ASSUME NEW t \in Tasks, Execute(t) PROVE LastInv'
  <2>1. CASE opts.update_timestamp_on_write
    BY <1>3, <2>1 DEF Execute, Mutate, LastInv
  <2>2. CASE ~opts.update_timestamp_on_write
    BY <1>3, <2>2 DEF Execute, Mutate, LastInv
  <2> QED
    BY <2>1, <2>2
<1>4. ASSUME NEW t \in Tasks, Query(t) PROVE LastInv'
  BY <1>4, <1>a DEF Query, Starts, dbVars
<1>5. ASSUME NEW t \in Tasks, StatementFails(t) PROVE LastInv'
  BY <1>5, <1>a DEF StatementFails, Starts, dbVars
<1>6. ASSUME NEW t \in Tasks, FetchRows(t) PROVE LastInv'
  BY <1>6, <1>a DEF FetchRows, dbVars
<1>7. ASSUME NEW t \in Tasks, Stamp(t) PROVE LastInv'
  BY <1>7 DEF Stamp, StampAs, WriteStamp, LastInv
<1>b. ASSUME NEW t \in Tasks, Abandon(t), UNCHANGED dbVars,
             \A u \in Tasks \ {t} : pc'[u] = pc[u] /\ mutatedAt'[u] = mutatedAt[u]
      PROVE  LastInv'
  <2>1. CASE mutatedAt[t] = clock \/ unstampedAt = clock
    BY <1>b, <2>1 DEF Abandon, LastInv, dbVars
  <2>2. CASE mutatedAt[t] # clock /\ unstampedAt # clock
    BY <1>b, <2>2 DEF Abandon, LastInv, dbVars
  <2> QED
    BY <2>1, <2>2
<1>8. ASSUME NEW t \in Tasks, StampFails(t) PROVE LastInv'
  BY <1>8, <1>b DEF StampFails
<1>9. ASSUME NEW t \in Tasks, Return(t) PROVE LastInv'
  BY <1>9, <1>a DEF Return, Forget, dbVars
<1>10. ASSUME NEW t \in Tasks, Cancel(t) PROVE LastInv'
  <2>1. CASE pc[t] = "stamp"
    BY <1>10, <1>b, <2>1 DEF Cancel, Forget
  <2>2. CASE pc[t] # "stamp"
    BY <1>10, <1>a, <2>2 DEF Cancel, Forget, dbVars
  <2> QED
    BY <2>1, <2>2
<1>11. CASE Restart
  BY <1>11 DEF Restart, WriteStamp, LastInv
<1>14. CASE SetClock
  BY <1>14 DEF SetClock, callVars, LastInv
<1>15. ASSUME NEW t \in Tasks, Vacuum(t) PROVE LastInv'
  BY <1>15, <1>a DEF Vacuum, Starts, dbVars
<1>12. CASE UNCHANGED vars
  BY <1>12 DEF vars, callVars, dbVars, LastInv
<1>13. ASSUME NEW t \in Tasks, Checkpoint(t) PROVE LastInv'
  BY <1>13, <1>a DEF Checkpoint, Starts
<1> QED
  BY <1>1, <1>2, <1>3, <1>4, <1>5, <1>6, <1>7, <1>8, <1>9, <1>10, <1>11, <1>12, <1>13, <1>14, <1>15
  DEF Next, Poll

(* What is committed never goes back in the order of mutations.            *)
LEMMA Forward ==
  ASSUME TypeOK, [Next]_vars
  PROVE  stampedAt' >= stampedAt /\ clock' >= clock
<1> USE DEF TypeOK
<1>1. ASSUME NEW t \in Tasks, NEW r \in Requests, Invoke(t, r)
      PROVE  stampedAt' >= stampedAt /\ clock' >= clock
  BY <1>1 DEF Invoke, dbVars
<1>2. ASSUME NEW t \in Tasks, Poll(t) \/ Cancel(t)
      PROVE  stampedAt' >= stampedAt /\ clock' >= clock
  BY <1>2 DEF Poll, Refuse, Execute, Mutate, Query, Vacuum, Checkpoint, StatementFails, FetchRows,
              Stamp, StampAs, WriteStamp, StampFails, Return, Cancel, dbVars
<1>3. CASE Restart \/ SetClock
  BY <1>3 DEF Restart, WriteStamp, SetClock
<1>4. CASE UNCHANGED vars
  BY <1>4 DEF vars, dbVars
<1> QED
  BY <1>1, <1>2, <1>3, <1>4 DEF Next

(* The main file only moves forward, to what is committed.                 *)
LEMMA MainForward ==
  ASSUME TypeOK, SavedInv, [Next]_vars
  PROVE  main'.data >= main.data /\ main'.stamp >= main.stamp
<1> USE DEF TypeOK
<1>1. ASSUME NEW t \in Tasks, Checkpoint(t)
      PROVE  main'.data >= main.data /\ main'.stamp >= main.stamp
  BY <1>1 DEF Checkpoint, Committed, SavedInv
<1>2. CASE UNCHANGED main
  BY <1>2
<1>3. ASSUME NEW t \in Tasks, NEW r \in Requests, Invoke(t, r) PROVE UNCHANGED main
  BY <1>3 DEF Invoke, dbVars
<1>4. ASSUME NEW t \in Tasks, Poll(t) \/ Cancel(t), ~Checkpoint(t) PROVE UNCHANGED main
  BY <1>4 DEF Poll, Refuse, Execute, Mutate, Query, Vacuum, StatementFails, FetchRows, Stamp,
              StampAs, StampFails, Return, Cancel, dbVars
<1>5. CASE Restart \/ SetClock
  BY <1>2, <1>5 DEF Restart, SetClock
<1>6. CASE UNCHANGED vars
  BY <1>2, <1>6 DEF vars, dbVars
<1> QED
  BY <1>1, <1>2, <1>3, <1>4, <1>5, <1>6 DEF Next

(* What a step may do to the checkpoint of task t: call it, run it, or     *)
(* leave what is known of it alone.                                        *)
LEMMA CheckpointCall ==
  ASSUME TypeOK, CallInv, [Next]_vars, NEW t \in Tasks
  PROVE  /\ \/ asked'[t] \in {asked[t], NothingSaved}
            \/ asked'[t] = Committed /\ pc'[t] = "called"
         /\ pc'[t] \in {"rows", "ready"} /\ call'[t].op = "checkpoint" =>
              /\ asked'[t] = asked[t] /\ call'[t] = call[t] /\ opts' = opts
              /\ \/ UNCHANGED <<pc[t], result[t], busy[t]>>
                 \/ Checkpoint(t)
                 \/ pc[t] = "rows" /\ pc'[t] = "ready" /\ busy'[t] = busy[t]
                 \/ pc[t] = "called" /\ pc'[t] = "ready" /\ (result'[t] = "error" \/ ~opts.write)
<1> USE DEF TypeOK, CallInv
<1>1. ASSUME NEW u \in Tasks, NEW r \in Requests, Invoke(u, r)
      PROVE  /\ UNCHANGED <<opts, result, busy>>
             /\ u # t => UNCHANGED <<pc[t], call[t], asked[t]>>
             /\ u = t => pc'[t] = "called" /\ asked'[t] \in {Committed, NothingSaved}
  BY <1>1 DEF Invoke
<1>2. ASSUME NEW u \in Tasks, u # t, Poll(u) \/ Cancel(u)
      PROVE  UNCHANGED <<opts, pc[t], call[t], result[t], busy[t], asked[t]>>
  BY <1>2 DEF Poll, Refuse, Execute, Mutate, Query, Vacuum, Checkpoint, StatementFails, FetchRows,
              Stamp, StampAs, WriteStamp, StampFails, Return, Cancel, Finish, Forget
<1>3. ASSUME Return(t) \/ Cancel(t) PROVE pc'[t] = "idle" /\ asked'[t] = NothingSaved
  BY <1>3 DEF Return, Cancel, Forget
<1>4. ASSUME Execute(t) \/ Query(t) \/ Vacuum(t)
      PROVE  call'[t].op # "checkpoint" /\ asked' = asked
  BY <1>4 DEF Execute, Mutate, Query, Vacuum, Mutations
<1>5. ASSUME Stamp(t) \/ StampFails(t)
      PROVE  call'[t].op # "checkpoint" /\ asked' = asked
  BY <1>5 DEF Stamp, StampAs, WriteStamp, StampFails, Mutations
<1>6. ASSUME Refuse(t) \/ StatementFails(t)
      PROVE  /\ UNCHANGED <<opts, call, asked>> /\ pc[t] = "called" /\ pc'[t] = "ready"
             /\ result'[t] = "error" \/ ~opts.write
  BY <1>6 DEF Refuse, StatementFails, Starts, Finish, IsSkipped
<1>7. ASSUME FetchRows(t)
      PROVE  /\ UNCHANGED <<opts, call, asked, busy>> /\ pc[t] = "rows" /\ pc'[t] = "ready"
  BY <1>7 DEF FetchRows, Finish
<1>8. ASSUME Checkpoint(t) PROVE UNCHANGED <<opts, call, asked>>
  BY <1>8 DEF Checkpoint
<1>9. ASSUME Restart PROVE pc'[t] = "idle" /\ asked'[t] = NothingSaved
  BY <1>9 DEF Restart
<1>10. ASSUME UNCHANGED vars \/ SetClock PROVE UNCHANGED <<opts, pc, call, result, busy, asked>>
  BY <1>10 DEF vars, callVars, SetClock
<1> HIDE DEF TypeOK, CallInv
<1> QED
  BY <1>1, <1>2, <1>3, <1>4, <1>5, <1>6, <1>7, <1>8, <1>9, <1>10 DEF Next, Poll

LEMMA SavedStep == TypeOK /\ CallInv /\ SavedInv /\ [Next]_vars => SavedInv'
<1> SUFFICES ASSUME TypeOK, CallInv, SavedInv, [Next]_vars PROVE SavedInv'
  OBVIOUS
<1>1. stampedAt' >= stampedAt /\ clock' >= clock
  BY Forward
<1>2. main'.data <= clock' /\ main'.stamp <= stampedAt'
  <2>1. CASE main' = main
    BY <1>1, <2>1, TypeStep DEF TypeOK, SavedInv
  <2>2. CASE main' = Committed /\ UNCHANGED <<clock, stampedAt>>
    BY <2>2 DEF TypeOK, Committed
  <2> QED
    BY <2>1, <2>2 DEF Next, Poll, Invoke, Refuse, Execute, Mutate, Query, Vacuum, Checkpoint,
       StatementFails, FetchRows, Stamp, StampAs, StampFails, Return, Cancel, Restart, SetClock,
       dbVars, vars
<1>3. ASSUME NEW t \in Tasks
      PROVE  /\ asked'[t].data <= clock' /\ asked'[t].stamp <= stampedAt'
             /\ pc'[t] = "rows" /\ call'[t].op = "checkpoint" /\ ~busy'[t] =>
                  main'.data >= asked'[t].data /\ main'.stamp >= asked'[t].stamp
  <2>1. asked'[t].data <= clock' /\ asked'[t].stamp <= stampedAt'
    <3>1. /\ clock \in Nat /\ clock' \in Nat /\ stampedAt \in Nat /\ stampedAt' \in Nat
          /\ asked[t].data \in Nat /\ asked[t].stamp \in Nat
      BY TypeStep DEF TypeOK
    <3>2. CASE asked'[t] = asked[t]
      <4>1. asked[t].data <= clock /\ asked[t].stamp <= stampedAt
        BY DEF SavedInv
      <4> QED
        BY <1>1, <3>1, <3>2, <4>1
    <3>3. CASE asked'[t] = NothingSaved
      <4>1. asked'[t].data = 0 /\ asked'[t].stamp = 0
        BY <3>3 DEF NothingSaved
      <4> QED
        BY <3>1, <4>1
    <3>4. CASE asked'[t] = Committed
      <4>1. asked'[t].data = clock /\ asked'[t].stamp = stampedAt
        BY <3>4 DEF Committed
      <4> QED
        BY <1>1, <3>1, <4>1
    <3> QED
      BY <3>2, <3>3, <3>4, CheckpointCall
  <2>2. ASSUME pc'[t] = "rows", call'[t].op = "checkpoint", ~busy'[t]
        PROVE  main'.data >= asked'[t].data /\ main'.stamp >= asked'[t].stamp
    <3>1. asked'[t] = asked[t] /\ call'[t] = call[t]
      BY <2>2, CheckpointCall
    <3>2. CASE Checkpoint(t)
      <4>1. main' = Committed
        <5>1. BusyFlag(1)
          BY DEF BusyFlag
        <5>2. t \in DOMAIN busy
          BY DEF TypeOK
        <5>3. main' = Committed \/ busy' = [busy EXCEPT ![t] = BusyFlag(1)]
          BY <3>2 DEF Checkpoint
        <5> HIDE DEF BusyFlag
        <5>4. busy' = [busy EXCEPT ![t] = BusyFlag(1)] => busy'[t]
          BY <5>1, <5>2, Zenon
        <5> QED
          BY <2>2, <5>3, <5>4
      <4>2. main'.data = clock /\ main'.stamp = stampedAt
        BY <4>1 DEF Committed
      <4>3. asked[t].data <= clock /\ asked[t].stamp <= stampedAt
        BY DEF SavedInv
      <4>4. /\ clock \in Nat /\ stampedAt \in Nat
            /\ asked[t].data \in Nat /\ asked[t].stamp \in Nat
        BY DEF TypeOK
      <4> QED
        BY <3>1, <4>2, <4>3, <4>4
    <3>3. CASE UNCHANGED <<pc[t], result[t], busy[t]>>
      BY <2>2, <3>1, <3>3, MainForward, TypeStep DEF SavedInv, TypeOK
    <3> QED
      BY <2>2, <3>2, <3>3, CheckpointCall
  <2> QED
    BY <2>1, <2>2
<1> QED
  BY <1>2, <1>3 DEF SavedInv

LEMMA CheckpointStep ==
  TypeOK /\ CallInv /\ SavedInv /\ CheckpointSaves /\ [Next]_vars => CheckpointSaves'
<1> SUFFICES ASSUME TypeOK, CallInv, SavedInv, CheckpointSaves, [Next]_vars, NEW t \in Tasks,
                    pc'[t] = "ready", result'[t] = "ok", ~busy'[t],
                    call'[t].op = "checkpoint", opts'.write
             PROVE  main'.data >= asked'[t].data /\ main'.stamp >= asked'[t].stamp
  BY DEF CheckpointSaves
<1>1. asked'[t] = asked[t] /\ call'[t] = call[t] /\ opts' = opts
  BY CheckpointCall
<1>2. \/ UNCHANGED <<pc[t], result[t], busy[t]>>
      \/ pc[t] = "rows" /\ busy'[t] = busy[t]
  <2>1. ~Checkpoint(t)
    BY DEF Checkpoint, TypeOK
  <2> QED
    BY <1>1, <2>1, CheckpointCall
<1>3. main.data >= asked[t].data /\ main.stamp >= asked[t].stamp
  BY <1>1, <1>2 DEF SavedInv, CheckpointSaves
<1> QED
  BY <1>1, <1>3, MainForward, TypeStep DEF TypeOK

-----------------------------------------------------------------------------
LEMMA Invariance == Spec => []IInv
<1>1. Init => IInv
  BY InitInv
<1>2. IInv /\ [Next]_vars => IInv'
  BY TypeStep, CallStep, StampStep, LastStep, SavedStep, CheckpointStep DEF IInv
<1> QED
  BY <1>1, <1>2, PTL DEF Spec

(* Every variable keeps its type.                                          *)
THEOREM TypeCorrect == Spec => []TypeOK
BY Invariance, PTL DEF IInv

(* set, erase and erase_prefix are ready with Ok under                     *)
(* update_timestamp_on_write only with a stamp that covers their mutation. *)
THEOREM OkIsStamped == Spec => []OkMeansStamped
BY Invariance, PTL DEF IInv

(* With no call in progress the last mutation is stamped, unless it was    *)
(* made without the option, was dropped halfway, or reported a failure.    *)
THEOREM StampedUnlessItWasAbandoned == Spec => []StampedUnlessAbandoned
<1>1. IInv => StampedUnlessAbandoned
  BY DEF IInv, LastInv, StampedUnlessAbandoned, TypeOK
<1> QED
  BY <1>1, Invariance, PTL

(* modified_at goes back only with the clock of the system: the stored     *)
(* stamp was written no later in the order of mutations than a new one     *)
(* would be, so a new one can only be smaller if the clock was set back.   *)
THEOREM StampGoesBackWithClockOnly == Spec => StampFollowsClock
<1>1. IInv /\ [Next]_vars =>
        [modified_at' < modified_at => skew < modified_at - stampedAt]_vars
  <2> SUFFICES ASSUME IInv, Next, modified_at' < modified_at
               PROVE  skew < modified_at - stampedAt
    BY DEF vars, dbVars
  <2>1. /\ modified_at \in Nat /\ stampedAt \in Nat /\ clock \in Nat /\ skew \in Nat
        /\ stampedAt <= clock
    BY SkewAssumption DEF IInv, TypeOK
  <2>2. modified_at' = modified_at \/ modified_at' = clock + skew
    <3>1. ASSUME NEW t \in Tasks, NEW r \in Requests, Invoke(t, r)
          PROVE  modified_at' = modified_at
      BY <3>1 DEF Invoke, dbVars
    <3>2. ASSUME NEW t \in Tasks, Poll(t) \/ Cancel(t)
          PROVE  modified_at' = modified_at \/ modified_at' = clock + skew
      BY <3>2 DEF Poll, Refuse, Execute, Mutate, Query, Vacuum, Checkpoint, StatementFails,
                  FetchRows, Stamp, StampAs, WriteStamp, StampFails, Return, Cancel, dbVars
    <3>3. CASE Restart \/ SetClock
      BY <3>3 DEF Restart, WriteStamp, SetClock
    <3> QED
      BY <3>1, <3>2, <3>3 DEF Next
  <2> QED
    BY <2>1, <2>2
<1> QED
  BY <1>1, Invariance, PTL DEF Spec, StampFollowsClock

(* A checkpoint that is ready with Ok and not busy has put all that was    *)
(* committed before it was called into the main file, data and stamp.      *)
THEOREM CheckpointIsComplete == Spec => []CheckpointSaves
BY Invariance, PTL DEF IInv

-----------------------------------------------------------------------------
(* TursoStore has no pool to wait for between a mutation and its stamp.    *)

\* A future that is ready with an error although it has changed rows lacks
\* its stamp only.
LateErrorMeansUnstamped ==
  \A t \in Tasks :
    pc[t] = "ready" /\ result[t] = "error" /\ mutatedAt[t] # 0 =>
      EngineMayFail /\ call[t].op \in Mutations /\ opts.update_timestamp_on_write

\* A task that has not executed a mutation has mutated nothing.
FreshInv == \A t \in Tasks : pc[t] \in {"idle", "called", "rows"} => mutatedAt[t] = 0

LateErrorInv == FreshInv /\ LateErrorMeansUnstamped

(* An error after the mutation comes from update_modified_at, and from an  *)
(* engine that fails: it is no matter of how many tasks there are.         *)
THEOREM LateErrorIsTheStamp == Spec => []LateErrorMeansUnstamped
<1>1. Init => LateErrorInv
  BY DEF Init, LateErrorInv, FreshInv, LateErrorMeansUnstamped
<1>2. IInv /\ LateErrorInv /\ [Next]_vars => LateErrorInv'
  <2> SUFFICES ASSUME IInv, LateErrorInv, [Next]_vars PROVE LateErrorInv'
    OBVIOUS
  <2> USE DEF IInv, TypeOK, LateErrorInv, FreshInv, LateErrorMeansUnstamped, Finish
  <2>1. ASSUME NEW t \in Tasks, NEW r \in Requests, Invoke(t, r) PROVE LateErrorInv'
    BY <2>1 DEF Invoke
  <2>2. ASSUME NEW t \in Tasks, Refuse(t) \/ StatementFails(t) PROVE LateErrorInv'
    BY <2>2 DEF Refuse, StatementFails, Starts
  <2>3. ASSUME NEW t \in Tasks, Execute(t) PROVE LateErrorInv'
    BY <2>3 DEF Execute, Mutate, Starts
  <2>4. ASSUME NEW t \in Tasks, Query(t) \/ Vacuum(t) \/ Checkpoint(t) PROVE LateErrorInv'
    BY <2>4 DEF Query, Vacuum, Checkpoint, Starts
  <2>5. ASSUME NEW t \in Tasks, FetchRows(t) PROVE LateErrorInv'
    BY <2>5 DEF FetchRows
  <2>6. ASSUME NEW t \in Tasks, Stamp(t) \/ StampFails(t) PROVE LateErrorInv'
    BY <2>6 DEF Stamp, StampAs, WriteStamp, StampFails, CallInv
  <2>7. ASSUME NEW t \in Tasks, Return(t) \/ Cancel(t) PROVE LateErrorInv'
    BY <2>7 DEF Return, Cancel, Forget
  <2>8. CASE Restart
    BY <2>8 DEF Restart
  <2>10. CASE SetClock
    BY <2>10 DEF SetClock, callVars
  <2>9. CASE UNCHANGED vars
    BY <2>9 DEF vars, callVars
  <2> QED
    BY <2>1, <2>2, <2>3, <2>4, <2>5, <2>6, <2>7, <2>8, <2>9, <2>10 DEF Next, Poll
<1> QED
  BY <1>1, <1>2, Invariance, PTL DEF Spec, LateErrorInv

\* options.rs:94 "Update the modified timestamp in the metadata every time
\* the data are mutated", when no call is in progress.
EveryMutationStamped ==
  /\ opts.update_timestamp_on_write
  /\ \A t \in Tasks : pc[t] = "idle"
  /\ clock > 1
  => stampedAt = clock

(* If the engine does not fail, no future is dropped and the process does  *)
(* not die, every mutation is stamped, however many tasks there are; a     *)
(* RusqliteStore needs a large pool for that.                              *)
THEOREM StampsEveryMutation ==
  ASSUME ~EngineMayFail, MaxDrops = 0
  PROVE  Spec => []EveryMutationStamped
<1> DEFINE Inv == opts.update_timestamp_on_write => unstampedAt = 0
<1>1. Init => Inv
  BY DEF Init
<1>2. IInv /\ Inv /\ [Next]_vars => Inv'
  <2> SUFFICES ASSUME IInv, Inv, [Next]_vars PROVE Inv'
    OBVIOUS
  <2> USE DEF IInv, TypeOK
  <2>1. ASSUME NEW t \in Tasks, NEW r \in Requests, Invoke(t, r) PROVE Inv'
    BY <2>1 DEF Invoke
  <2>2. ASSUME NEW t \in Tasks, Poll(t) PROVE Inv'
    BY <2>2 DEF Poll, Refuse, Execute, Mutate, Query, Vacuum, Checkpoint, StatementFails, FetchRows,
                Stamp, StampAs, WriteStamp, StampFails, Return
  <2>3. ASSUME NEW t \in Tasks, Cancel(t) PROVE FALSE
    BY <2>3 DEF Cancel
  <2>4. ~Restart
    BY DEF Restart
  <2>5. CASE UNCHANGED vars \/ SetClock
    BY <2>5 DEF vars, SetClock
  <2> QED
    BY <2>1, <2>2, <2>3, <2>4, <2>5 DEF Next
<1>3. IInv /\ Inv => EveryMutationStamped
  BY DEF IInv, TypeOK, LastInv, EveryMutationStamped
<1> QED
  BY <1>1, <1>2, <1>3, Invariance, PTL DEF Spec

-----------------------------------------------------------------------------
(* Refinement.  A call takes effect in the abstract store when its own     *)
(* statement does; fetching rows and stamping are steps of no effect.      *)
LEMMA SameRequests ==
  /\ Abstract!Requests = Requests
  /\ Abstract!Nothing = Nothing
  /\ \A d, r : Abstract!Effect(d, r) = Effect(d, r) /\ Abstract!Answer(d, r) = Answer(d, r)
<1>1. Abstract!Requests = Requests
  BY DEF Requests, Set, Erase, ErasePrefix, Get, List, SetPartial, Maintenance, Singletons,
     Abstract!Requests, Abstract!Set, Abstract!Erase, Abstract!ErasePrefix, Abstract!Get,
     Abstract!List, Abstract!SetPartial, Abstract!Maintenance, Abstract!Singletons
<1>2. Abstract!Mutations = Mutations /\ Abstract!Nothing = Nothing
  BY DEF Mutations, Abstract!Mutations, Nothing, Abstract!Nothing
<1>3. \A d, r : Abstract!Effect(d, r) = Effect(d, r)
  BY <1>2 DEF Effect, Abstract!Effect
<1>4. \A d, r : Abstract!Answer(d, r) = Answer(d, r)
  BY <1>2 DEF Answer, Abstract!Answer
<1> QED
  BY <1>1, <1>2, <1>3, <1>4

LEMMA AbstractInit == Init => Abstract!Init
BY SameRequests DEF Init, Abstract!Init, phase

(* Every poll of a future is a step of its request, or none.               *)
LEMMA AbstractPoll ==
  ASSUME IInv, NEW t \in Tasks, Poll(t) \/ Cancel(t)
  PROVE  \/ Abstract!TakeEffect(t) \/ Abstract!Fail(t) \/ Abstract!Return(t)
         \/ Abstract!Cancel(t) \/ UNCHANGED Abstract!vars
<1> USE DEF IInv, TypeOK, CallInv, Finish, Abstract!vars
<1>1. \A u \in Tasks \ {t} : pc'[u] = pc[u] /\ result'[u] = result[u]
  BY DEF Poll, Refuse, Execute, Mutate, Query, Vacuum, Checkpoint, StatementFails, FetchRows, Stamp,
         StampAs, WriteStamp, StampFails, Return, Cancel, Forget
<1>2. phase' = [phase EXCEPT ![t] = phase'[t]]
  BY <1>1 DEF phase
<1>3. phase[t] = CASE pc[t] = "idle" -> "idle"
                   [] pc[t] = "called" -> "pending"
                   [] pc[t] = "ready" /\ result[t] = "error" -> "failed"
                   [] OTHER -> "applied"
  BY DEF phase
<1>4. phase'[t] = CASE pc'[t] = "idle" -> "idle"
                    [] pc'[t] = "called" -> "pending"
                    [] pc'[t] = "ready" /\ result'[t] = "error" -> "failed"
                    [] OTHER -> "applied"
  BY DEF phase
<1>5. phase'[t] = phase[t] => phase' = phase
  <2>1. phase = [u \in Tasks |-> phase[u]]
    BY Zenon DEF phase
  <2> QED
    BY <1>2, <2>1
<1>6. CASE Refuse(t)
  <2>1. CASE result'[t] = "error"
    BY <1>2, <1>3, <1>4, <1>6, <2>1 DEF Refuse, Abstract!Fail, dbVars
  <2>2. CASE IsSkipped(call[t]) /\ result'[t] = "ok"
    <3>1. call[t] \in Requests /\ call[t].op = "checkpoint"
      BY <1>6, <2>2 DEF Refuse, IsSkipped
    <3>2. call[t].op \notin Mutations /\ call[t].keys = {}
      BY <3>1 DEF Requests, Set, Erase, ErasePrefix, Get, List, SetPartial, Maintenance, Mutations
    <3>3. Effect(data, call[t]) = data /\ Answer(data, call[t]) = got[t]
      BY <1>6, <3>2 DEF Effect, Answer, Nothing, Refuse
    <3>4. got' = [got EXCEPT ![t] = Answer(data, call[t])]
      BY <1>6, <3>3 DEF Refuse
    <3> QED
      BY <1>2, <1>3, <1>4, <1>6, <2>2, <3>3, <3>4, SameRequests
         DEF Refuse, Abstract!TakeEffect, dbVars
  <2> QED
    BY <1>6, <2>1, <2>2 DEF Refuse
<1>7. CASE Execute(t)
  <2>1. Answer(data, call[t]) = got[t]
    BY <1>7 DEF Execute, Mutate, Starts, Answer
  <2>2. got' = [got EXCEPT ![t] = Answer(data, call[t])]
    BY <1>7, <2>1 DEF Execute, Mutate
  <2>3. pc[t] = "called" /\ (pc'[t] = "stamp" \/ (pc'[t] = "ready" /\ result'[t] = "ok"))
    BY <1>7 DEF Execute, Mutate, Starts
  <2> QED
    BY <1>2, <1>3, <1>4, <1>7, <2>2, <2>3, SameRequests DEF Execute, Mutate, Abstract!TakeEffect
<1>8. CASE Query(t)
  <2>1. Effect(data, call[t]) = data
    BY <1>8 DEF Query, Effect
  <2> QED
    BY <1>2, <1>3, <1>4, <1>8, <2>1, SameRequests DEF Query, Starts, Abstract!TakeEffect, dbVars
<1>15. CASE Checkpoint(t)
  <2>1. /\ call[t] \in Requests /\ call[t].op = "checkpoint" /\ pc[t] = "called"
        /\ UNCHANGED <<data, got, call, result, drops>> /\ pc'[t] = "rows"
    BY <1>15 DEF Checkpoint, Starts
  <2>2. call[t].op \notin Mutations /\ call[t].keys = {} /\ got[t] = Nothing
    BY <2>1 DEF Requests, Set, Erase, ErasePrefix, Get, List, SetPartial, Maintenance, Mutations
  <2>3. Effect(data, call[t]) = data /\ Answer(data, call[t]) = got[t]
    BY <2>2 DEF Effect, Answer, Nothing
  <2>4. got' = [got EXCEPT ![t] = Answer(data, call[t])]
    <3>1. got \in [Tasks -> Answers]
      BY <1>2 DEF TypeOK
    <3> QED
      BY <2>1, <2>3, <3>1
  <2>5. phase[t] = "pending" /\ phase' = [phase EXCEPT ![t] = "applied"]
    BY <1>2, <1>3, <1>4, <2>1
  <2>6. /\ data' = Abstract!Effect(data, call[t])
        /\ got' = [got EXCEPT ![t] = Abstract!Answer(data, call[t])]
    BY <2>1, <2>3, <2>4, SameRequests
  <2> QED
    BY <2>1, <2>5, <2>6 DEF Abstract!TakeEffect
<1>16. CASE Vacuum(t)
  <2>1. /\ call[t] \in Requests /\ call[t].op = "vacuum" /\ pc[t] = "called"
        /\ UNCHANGED <<data, got, call, drops>> /\ pc'[t] = "ready" /\ result'[t] = "ok"
    BY <1>16 DEF Vacuum, Starts, dbVars
  <2>2. call[t].op \notin Mutations /\ call[t].keys = {} /\ got[t] = Nothing
    BY <2>1 DEF Requests, Set, Erase, ErasePrefix, Get, List, SetPartial, Maintenance, Mutations
  <2>3. Effect(data, call[t]) = data /\ Answer(data, call[t]) = got[t]
    BY <2>2 DEF Effect, Answer, Nothing
  <2>4. got' = [got EXCEPT ![t] = Answer(data, call[t])]
    BY <2>1, <2>3
  <2>5. phase[t] = "pending" /\ phase' = [phase EXCEPT ![t] = "applied"]
    BY <1>2, <1>3, <1>4, <2>1
  <2>6. /\ data' = Abstract!Effect(data, call[t])
        /\ got' = [got EXCEPT ![t] = Abstract!Answer(data, call[t])]
    BY <2>1, <2>3, <2>4, SameRequests
  <2> QED
    BY <2>1, <2>5, <2>6 DEF Abstract!TakeEffect
<1>9. CASE StatementFails(t)
  BY <1>2, <1>3, <1>4, <1>9 DEF StatementFails, Starts, Abstract!Fail, dbVars
<1>10. CASE FetchRows(t)
  BY <1>2, <1>3, <1>4, <1>5, <1>10 DEF FetchRows, Abstract!Fail, dbVars
<1>11. CASE Stamp(t)
  BY <1>3, <1>4, <1>5, <1>11 DEF Stamp, StampAs, WriteStamp
<1>12. CASE StampFails(t)
  BY <1>2, <1>3, <1>4, <1>12 DEF StampFails, Abstract!Fail, dbVars
<1>13. CASE Return(t)
  BY <1>2, <1>3, <1>4, <1>13, SameRequests DEF Return, Forget, Abstract!Return, dbVars
<1>14. CASE Cancel(t)
  BY <1>2, <1>3, <1>4, <1>14, SameRequests DEF Cancel, Forget, Abstract!Cancel, dbVars
<1> QED
  BY <1>6, <1>7, <1>8, <1>9, <1>10, <1>11, <1>12, <1>13, <1>14, <1>15, <1>16 DEF Poll

LEMMA AbstractStep == IInv /\ [Next]_vars => [Abstract!Next]_(Abstract!vars)
<1> SUFFICES ASSUME IInv, [Next]_vars PROVE [Abstract!Next]_(Abstract!vars)
  OBVIOUS
<1>1. ASSUME NEW t \in Tasks, Poll(t) \/ Cancel(t) PROVE [Abstract!Next]_(Abstract!vars)
  BY <1>1, AbstractPoll DEF Abstract!Next
<1>2. ASSUME NEW t \in Tasks, NEW r \in Requests, Invoke(t, r)
      PROVE  [Abstract!Next]_(Abstract!vars)
  <2>1. phase[t] = "idle" /\ phase' = [phase EXCEPT ![t] = "pending"]
    BY <1>2 DEF IInv, TypeOK, Invoke, phase
  <2>2. Abstract!Invoke(t, r)
    BY <1>2, <2>1 DEF Invoke, Abstract!Invoke, dbVars
  <2>3. r \in Abstract!Requests
    BY SameRequests
  <2> QED
    BY <2>2, <2>3 DEF Abstract!Next
<1>3. CASE Restart
  <2>1. phase' = [t \in Tasks |-> "idle"]
    BY <1>3 DEF Restart, phase
  <2>2. Abstract!Crash
    BY <1>3, <2>1, SameRequests DEF Restart, Abstract!Crash
  <2> QED
    BY <2>2 DEF Abstract!Next
<1>4. CASE UNCHANGED vars
  BY <1>4 DEF vars, dbVars, callVars, phase, Abstract!vars
<1>5. CASE SetClock
  BY <1>5 DEF SetClock, callVars, phase, Abstract!vars
<1> QED
  BY <1>1, <1>2, <1>3, <1>4, <1>5 DEF Next

(* TursoStore is a linearizable map: each call takes effect at one await,  *)
(* once at most, also when its future is dropped or only the stamp failed. *)
THEOREM Refinement == Spec => Linearizable
BY AbstractInit, AbstractStep, Invariance, PTL DEF Spec, Linearizable, Abstract!Spec
=============================================================================
