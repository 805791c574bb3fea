------------------------ MODULE RusqliteStoreProofs ------------------------
(***************************************************************************)
(* Proofs about RusqliteStore, for any number of threads, connections,     *)
(* keys and values, any number of calls and of crashes.                    *)
(*                                                                         *)
(* The inductive invariant has three parts beside the types: what a thread *)
(* knows of its call at each point (CallInv), which connections it holds   *)
(* there (PoolInv), and how the stamp relates to its mutation (StampInv).  *)
(***************************************************************************)
EXTENDS RusqliteStore, FiniteSetTheorems, TLAPS

\* A thread inside the store serves a request that was not refused; a thread
\* that is past its statement under the option serves a mutation.
CallInv ==
  \A t \in Threads :
    /\ pc[t] # "idle" => call[t] \in Requests
    /\ pc[t] \in {"idle", "called", "execute"} => got[t] = Nothing
    /\ pc[t] = "idle" => call[t] = NoRequest
    /\ pc[t] \in {"connect_ts", "stamp"} =>
         call[t].op \in Mutations /\ opts.update_timestamp_on_write

\* Which of its two connections a thread holds follows from where it is.
PoolInv ==
  /\ PoolConserved
  /\ \A t \in Threads :
       /\ pc[t] \in {"idle", "called"} => conn[t] = NoConn
       /\ pc[t] \in {"execute", "connect_ts", "stamp"} => conn[t] # NoConn
       /\ pc[t] \in {"idle", "called", "execute", "connect_ts"} => tsConn[t] = NoConn
       /\ tsConn[t] # NoConn => conn[t] # NoConn

\* A mutation that has been executed lies between 1 and now, the stamp lies in
\* the past, and before no mutation that is reported done.
StampInv ==
  /\ stampedAt <= clock
  /\ \A t \in Threads :
       /\ mutatedAt[t] <= clock
       /\ pc[t] \in {"connect_ts", "stamp"} => mutatedAt[t] > 0
  /\ OkMeansStamped

IInv == TypeOK /\ CallInv /\ PoolInv /\ StampInv

-----------------------------------------------------------------------------
(* What every request looks like.                                          *)
LEMMA RequestFields ==
  ASSUME NEW r \in Requests
  PROVE  /\ r.op \in {"set", "erase", "erase_prefix", "get", "list", "list_dir",
                      "set_partial", "checkpoint", "vacuum"}
         /\ r.keys \in SUBSET Keys
         /\ r.value \in Values \cup {Absent}
BY PrefixAssumption DEF Requests, Set, Erase, ErasePrefix, Get, List, SetPartial, Maintenance, Singletons

(* A request turns a table into a table.                                   *)
LEMMA EffectType ==
  ASSUME NEW d \in [Keys -> Values \cup {Absent}], NEW r \in Requests
  PROVE  Effect(d, r) \in [Keys -> Values \cup {Absent}]
BY RequestFields DEF Effect

(* What a request reads is a part of a table.                              *)
LEMMA AnswerType ==
  ASSUME NEW d \in [Keys -> Values \cup {Absent}], NEW r \in Requests
  PROVE  Answer(d, r) \in Answers
<1>1. Nothing \in [{} -> Values \cup {Absent}]
  BY DEF Nothing
<1>2. [k \in r.keys |-> d[k]] \in [r.keys -> Values \cup {Absent}]
  BY RequestFields
<1>3. r.keys \in SUBSET Keys
  BY RequestFields
<1>4. Nothing \in Answers
  BY <1>1 DEF Answers
<1>5. [k \in r.keys |-> d[k]] \in Answers
  BY <1>2, <1>3 DEF Answers
<1> QED
  BY <1>4, <1>5 DEF Answer

LEMMA PartialType ==
  ASSUME NEW d \in [Keys -> Values \cup {Absent}], NEW r \in Requests,
         NEW part \in PartialAnswers(d, r)
  PROVE  part \in Answers
<1>1. PICK S \in SUBSET r.keys : part = [k \in S |-> d[k]]
  BY DEF PartialAnswers
<1>2. S \in SUBSET Keys
  BY RequestFields
<1>3. part \in [S -> Values \cup {Absent}]
  BY <1>1, <1>2
<1> QED
  BY <1>2, <1>3 DEF Answers

LEMMA NothingType == Nothing \in Answers
<1>1. Nothing \in [{} -> Values \cup {Absent}]
  BY DEF Nothing
<1> QED
  BY <1>1 DEF Answers

-----------------------------------------------------------------------------
LEMMA InitInv == Init => IInv
<1> SUFFICES ASSUME Init PROVE IInv
  OBVIOUS
<1>1. TypeOK
  BY NothingType DEF Init, TypeOK
<1>2. CallInv
  BY DEF Init, CallInv
<1>3. PoolInv
  <2>1. \A t \in Threads : Held(t) = {}
    BY DEF Init, Held
  <2> QED
    BY <2>1 DEF Init, PoolInv, PoolConserved
<1>4. StampInv
  BY DEF Init, StampInv, OkMeansStamped
<1> QED
  BY <1>1, <1>2, <1>3, <1>4 DEF IInv

(* TypeOK is preserved; where a request is used, CallInv says it is one.   *)
LEMMA TypeStep == TypeOK /\ CallInv /\ [Next]_vars => TypeOK'
<1> SUFFICES ASSUME TypeOK, CallInv, [Next]_vars PROVE TypeOK'
  OBVIOUS
<1> USE DEF TypeOK, Finish
<1>t. clock + skew \in Nat
  BY SkewAssumption
<1>1. ASSUME NEW t \in Threads, NEW r \in Requests, Invoke(t, r) PROVE TypeOK'
  BY <1>1 DEF Invoke, dbVars, poolVars
<1>2. ASSUME NEW t \in Threads, Refuse(t) PROVE TypeOK'
  BY <1>2 DEF Refuse, dbVars, poolVars
<1>3. ASSUME NEW t \in Threads, Connect(t) PROVE TypeOK'
  BY <1>3 DEF Connect, dbVars
<1>4. ASSUME NEW t \in Threads, Execute(t) PROVE TypeOK'
  <2>1. call[t] \in Requests
    BY <1>4 DEF CallInv, Execute
  <2>2. data' \in [Keys -> Values \cup {Absent}]
    BY <1>4, <2>1, EffectType DEF Execute
  <2>3. got' \in [Threads -> Answers]
    BY <1>4, <2>1, AnswerType DEF Execute
  <2>4. clock' \in Nat /\ mutatedAt' \in [Threads -> Nat]
    BY <1>4 DEF Execute
  <2>5. /\ pc' \in [Threads -> {"idle", "called", "execute", "connect_ts", "stamp", "return"}]
        /\ result' \in [Threads -> {"none", "ok", "error"}]
    BY <1>4 DEF Execute
  <2> QED
    BY <1>4, <2>2, <2>3, <2>4, <2>5 DEF Execute, poolVars
<1>5. ASSUME NEW t \in Threads, ExecuteFails(t) PROVE TypeOK'
  BY <1>5 DEF ExecuteFails, dbVars, poolVars
<1>6. ASSUME NEW t \in Threads, ConnectTs(t) PROVE TypeOK'
  BY <1>6 DEF ConnectTs, BorrowTs, TimeoutTs, dbVars
<1>7. ASSUME NEW t \in Threads, Stamp(t) PROVE TypeOK'
  BY <1>7, <1>t DEF Stamp, WriteStamp, poolVars
<1>8. ASSUME NEW t \in Threads, StampFails(t) PROVE TypeOK'
  BY <1>8 DEF StampFails, dbVars, poolVars
<1>9. ASSUME NEW t \in Threads, Return(t) PROVE TypeOK'
  BY <1>9, NothingType DEF Return, Drop, dbVars
<1>12. ASSUME NEW t \in Threads, ListDirBreaksOff(t) PROVE TypeOK'
  BY <1>12, PartialType DEF ListDirBreaksOff, CallInv, dbVars, poolVars
<1>10. CASE Restart
  BY <1>10, <1>t, NothingType DEF Restart, WriteStamp, Options
<1>13. CASE SetClock
  BY <1>13 DEF SetClock, poolVars, callVars
<1>11. CASE UNCHANGED vars
  BY <1>11 DEF vars, dbVars, poolVars, callVars
<1> QED
  BY <1>1, <1>2, <1>3, <1>4, <1>5, <1>6, <1>7, <1>8, <1>9, <1>10, <1>11, <1>12, <1>13
  DEF Next, Run

(* CallInv is preserved: requests only change in Invoke and Return, and the *)
(* branch of Execute that leads to the stamp tests what CallInv claims.    *)
LEMMA CallStep == TypeOK /\ CallInv /\ [Next]_vars => CallInv'
<1> SUFFICES ASSUME TypeOK, CallInv, [Next]_vars PROVE CallInv'
  OBVIOUS
<1> USE DEF TypeOK, CallInv, Finish
<1>1. ASSUME NEW t \in Threads, NEW r \in Requests, Invoke(t, r) PROVE CallInv'
  BY <1>1 DEF Invoke
<1>2. ASSUME NEW t \in Threads, Refuse(t) PROVE CallInv'
  BY <1>2 DEF Refuse
<1>3. ASSUME NEW t \in Threads, Connect(t) PROVE CallInv'
  BY <1>3 DEF Connect
<1>4. ASSUME NEW t \in Threads, Execute(t) PROVE CallInv'
  BY <1>4 DEF Execute
<1>5. ASSUME NEW t \in Threads, ExecuteFails(t) PROVE CallInv'
  BY <1>5 DEF ExecuteFails
<1>6. ASSUME NEW t \in Threads, ConnectTs(t) PROVE CallInv'
  BY <1>6 DEF ConnectTs, BorrowTs, TimeoutTs
<1>7. ASSUME NEW t \in Threads, Stamp(t) PROVE CallInv'
  BY <1>7 DEF Stamp, WriteStamp
<1>8. ASSUME NEW t \in Threads, StampFails(t) PROVE CallInv'
  BY <1>8 DEF StampFails
<1>9. ASSUME NEW t \in Threads, Return(t) PROVE CallInv'
  BY <1>9 DEF Return, Drop
<1>12. ASSUME NEW t \in Threads, ListDirBreaksOff(t) PROVE CallInv'
  BY <1>12 DEF ListDirBreaksOff
<1>10. CASE Restart
  BY <1>10 DEF Restart, WriteStamp
<1>13. CASE SetClock
  BY <1>13 DEF SetClock, callVars
<1>11. CASE UNCHANGED vars
  BY <1>11 DEF vars, callVars
<1> QED
  BY <1>1, <1>2, <1>3, <1>4, <1>5, <1>6, <1>7, <1>8, <1>9, <1>10, <1>11, <1>12, <1>13
  DEF Next, Run

(* The stamp is the time at which its statement runs, so it covers every   *)
(* mutation executed before, that of the stamping thread first of all.     *)
LEMMA StampStep == TypeOK /\ CallInv /\ StampInv /\ [Next]_vars => StampInv'
<1> SUFFICES ASSUME TypeOK, CallInv, StampInv, [Next]_vars PROVE StampInv'
  OBVIOUS
<1> USE DEF TypeOK, CallInv, StampInv, OkMeansStamped, Finish
<1>1. ASSUME NEW t \in Threads, NEW r \in Requests, Invoke(t, r) PROVE StampInv'
  BY <1>1 DEF Invoke, dbVars
<1>2. ASSUME NEW t \in Threads, Refuse(t) PROVE StampInv'
  BY <1>2 DEF Refuse, dbVars, IsSkipped, Mutations
<1>3. ASSUME NEW t \in Threads, Connect(t) PROVE StampInv'
  BY <1>3 DEF Connect, dbVars
<1>4. ASSUME NEW t \in Threads, Execute(t) PROVE StampInv'
  BY <1>4 DEF Execute
<1>5. ASSUME NEW t \in Threads, ExecuteFails(t) PROVE StampInv'
  BY <1>5 DEF ExecuteFails, dbVars
<1>6. ASSUME NEW t \in Threads, ConnectTs(t) PROVE StampInv'
  BY <1>6 DEF ConnectTs, BorrowTs, TimeoutTs, dbVars
<1>7. ASSUME NEW t \in Threads, Stamp(t) PROVE StampInv'
  BY <1>7 DEF Stamp, WriteStamp
<1>8. ASSUME NEW t \in Threads, StampFails(t) PROVE StampInv'
  BY <1>8 DEF StampFails, dbVars
<1>9. ASSUME NEW t \in Threads, Return(t) PROVE StampInv'
  BY <1>9 DEF Return, Drop, dbVars
<1>12. ASSUME NEW t \in Threads, ListDirBreaksOff(t) PROVE StampInv'
  BY <1>12 DEF ListDirBreaksOff, dbVars, Mutations
<1>10. CASE Restart
  BY <1>10 DEF Restart, WriteStamp
<1>13. CASE SetClock
  BY <1>13 DEF SetClock, callVars
<1>11. CASE UNCHANGED vars
  BY <1>11 DEF vars, callVars, dbVars
<1> QED
  BY <1>1, <1>2, <1>3, <1>4, <1>5, <1>6, <1>7, <1>8, <1>9, <1>10, <1>11, <1>12, <1>13
  DEF Next, Run

-----------------------------------------------------------------------------
(* The pool.  A step of thread t moves connections between t and the pool  *)
(* and leaves what the other threads hold alone: if nothing is lost or     *)
(* invented in that exchange, the connections stay a partition.            *)
LEMMA Exchange ==
  ASSUME PoolConserved, NEW t \in Threads,
         \A u \in Threads \ {t} : conn'[u] = conn[u] /\ tsConn'[u] = tsConn[u],
         idle' \cup Held(t)' = idle \cup Held(t),
         idle' \cap Held(t)' = {},
         conn'[t] # NoConn => conn'[t] # tsConn'[t]
  PROVE  PoolConserved'
<1>1. \A u \in Threads \ {t} : Held(u)' = Held(u)
  BY DEF Held
<1>4. \A c \in Conns : c \in idle' \/ \E u \in Threads : c \in Held(u)'
  BY <1>1 DEF PoolConserved
<1>5. \A u \in Threads \ {t} : Held(u) \cap (idle \cup Held(t)) = {}
  BY DEF PoolConserved
<1>6. \A u \in Threads : Held(u)' \cap idle' = {}
  BY <1>1, <1>5
<1>7. \A u, v \in Threads : u # v => Held(u)' \cap Held(v)' = {}
  <2> SUFFICES ASSUME NEW u \in Threads, NEW v \in Threads, u # v
               PROVE  Held(u)' \cap Held(v)' = {}
    OBVIOUS
  <2>1. CASE u = t
    BY <1>1, <1>5, <2>1
  <2>2. CASE v = t
    BY <1>1, <1>5, <2>2
  <2>3. CASE u # t /\ v # t
    BY <1>1, <2>3 DEF PoolConserved
  <2> QED
    BY <2>1, <2>2, <2>3
<1>8. \A u \in Threads : conn'[u] # NoConn => conn'[u] # tsConn'[u]
  BY DEF PoolConserved
<1> QED
  BY <1>4, <1>6, <1>7, <1>8 DEF PoolConserved

(* PoolInv is preserved.  Only Connect, ConnectTs and Return exchange      *)
(* connections; Restart builds a new pool.                                 *)
LEMMA PoolStep == TypeOK /\ PoolInv /\ [Next]_vars => PoolInv'
<1> SUFFICES ASSUME TypeOK, PoolInv, [Next]_vars PROVE PoolInv'
  OBVIOUS
<1> USE DEF TypeOK, Finish
<1>a. ASSUME UNCHANGED poolVars PROVE PoolConserved'
  <2>1. \A t \in Threads : Held(t)' = Held(t)
    BY <1>a DEF Held, poolVars
  <2> QED
    BY <1>a, <2>1 DEF PoolInv, PoolConserved, poolVars
<1>1. ASSUME NEW t \in Threads, NEW r \in Requests, Invoke(t, r) PROVE PoolInv'
  BY <1>1, <1>a DEF Invoke, PoolInv, poolVars
<1>2. ASSUME NEW t \in Threads, Refuse(t) PROVE PoolInv'
  BY <1>2, <1>a DEF Refuse, PoolInv, poolVars
<1>3. ASSUME NEW t \in Threads, Connect(t) PROVE PoolInv'
  <2>1. CASE UNCHANGED <<idle, conn>> /\ pc' = [pc EXCEPT ![t] = "return"]
    BY <1>3, <1>a, <2>1 DEF Connect, PoolInv, poolVars
  <2>2. ASSUME NEW c \in idle,
               conn' = [conn EXCEPT ![t] = c], idle' = idle \ {c},
               tsConn' = tsConn, pc' = [pc EXCEPT ![t] = "execute"]
        PROVE  PoolInv'
    <3>1. c # NoConn /\ tsConn[t] = NoConn /\ conn[t] = NoConn
      BY <1>3, ConnAssumption DEF Connect, PoolInv
    <3>2. Held(t)' = {c} /\ Held(t) = {}
      BY <2>2, <3>1 DEF Held
    <3>3. PoolConserved'
      BY <2>2, <3>1, <3>2, Exchange DEF PoolInv
    <3> QED
      BY <1>3, <2>2, <3>1, <3>3 DEF PoolInv
  <2> QED
    BY <1>3, <2>1, <2>2 DEF Connect
<1>4. ASSUME NEW t \in Threads, Execute(t) PROVE PoolInv'
  BY <1>4, <1>a DEF Execute, PoolInv, poolVars
<1>5. ASSUME NEW t \in Threads, ExecuteFails(t) PROVE PoolInv'
  BY <1>5, <1>a DEF ExecuteFails, PoolInv, poolVars
<1>6. ASSUME NEW t \in Threads, ConnectTs(t) PROVE PoolInv'
  <2>1. CASE TimeoutTs(t, "error")
    BY <1>6, <1>a, <2>1 DEF ConnectTs, TimeoutTs, PoolInv, poolVars
  <2>2. ASSUME NEW c \in idle,
               tsConn' = [tsConn EXCEPT ![t] = c], idle' = idle \ {c},
               conn' = conn, pc' = [pc EXCEPT ![t] = "stamp"]
        PROVE  PoolInv'
    <3>1. c # NoConn /\ tsConn[t] = NoConn /\ conn[t] # NoConn /\ conn[t] # c
      BY <1>6, ConnAssumption DEF ConnectTs, BorrowTs, TimeoutTs, PoolInv, PoolConserved, Held
    <3>2. Held(t)' = {conn[t], c} /\ Held(t) = {conn[t]}
      BY <2>2, <3>1 DEF Held
    <3>3. conn[t] \notin idle
      BY <3>2 DEF PoolInv, PoolConserved
    <3>4. PoolConserved'
      BY <2>2, <3>1, <3>2, <3>3, Exchange DEF PoolInv
    <3> QED
      BY <1>6, <2>2, <3>1, <3>4 DEF PoolInv
  <2> QED
    BY <1>6, <2>1, <2>2 DEF ConnectTs, BorrowTs, TimeoutTs
<1>7. ASSUME NEW t \in Threads, Stamp(t) PROVE PoolInv'
  BY <1>7, <1>a DEF Stamp, PoolInv, poolVars
<1>8. ASSUME NEW t \in Threads, StampFails(t) PROVE PoolInv'
  BY <1>8, <1>a DEF StampFails, PoolInv, poolVars
<1>9. ASSUME NEW t \in Threads, Return(t) PROVE PoolInv'
  <2>1. Held(t)' = {} /\ idle' = idle \cup Held(t)
    BY <1>9 DEF Return, Drop, Held
  <2>2. \A u \in Threads \ {t} : conn'[u] = conn[u] /\ tsConn'[u] = tsConn[u]
    BY <1>9 DEF Return, Drop
  <2>3. conn'[t] = NoConn
    BY <1>9 DEF Return, Drop
  <2>4. PoolConserved'
    BY <2>1, <2>2, <2>3, Exchange DEF PoolInv
  <2> QED
    BY <1>9, <2>4 DEF Return, Drop, PoolInv
<1>12. ASSUME NEW t \in Threads, ListDirBreaksOff(t) PROVE PoolInv'
  BY <1>12, <1>a DEF ListDirBreaksOff, PoolInv, poolVars
<1>10. CASE Restart
  <2>1. \A t \in Threads : Held(t)' = {}
    BY <1>10 DEF Restart, Held
  <2>3. PoolConserved'
    BY <1>10, <2>1 DEF Restart, PoolConserved
  <2> QED
    BY <1>10, <2>3 DEF Restart, PoolInv
<1>13. CASE SetClock
  BY <1>13, <1>a DEF SetClock, callVars, poolVars, PoolInv
<1>11. CASE UNCHANGED vars
  BY <1>11, <1>a DEF vars, callVars, poolVars, PoolInv
<1> QED
  BY <1>1, <1>2, <1>3, <1>4, <1>5, <1>6, <1>7, <1>8, <1>9, <1>10, <1>11, <1>12, <1>13
  DEF Next, Run

-----------------------------------------------------------------------------
LEMMA Invariance == Spec => []IInv
<1>1. Init => IInv
  BY InitInv
<1>2. IInv /\ [Next]_vars => IInv'
  BY TypeStep, CallStep, PoolStep, StampStep DEF IInv
<1> QED
  BY <1>1, <1>2, PTL DEF Spec

(* Every variable keeps its type.                                          *)
THEOREM TypeCorrect == Spec => []TypeOK
BY Invariance, PTL DEF IInv

(* Along every path of every operation of rusqlite_store.rs, the failing   *)
(* ones included, no connection is lost and none is lent twice.            *)
THEOREM PoolIsConserved == Spec => []PoolConserved
BY Invariance, PTL DEF IInv, PoolInv

(* set, erase and erase_prefix return Ok under update_timestamp_on_write   *)
(* only with a stamp that covers their own mutation.                       *)
THEOREM OkIsStamped == Spec => []OkMeansStamped
BY Invariance, PTL DEF IInv, StampInv

(* modified_at goes back only with the clock of the system: the stored     *)
(* stamp was written no later in the order of mutations than a new one     *)
(* would be, so a new one can only be smaller if the clock was set back.   *)
THEOREM StampGoesBackWithClockOnly == Spec => StampFollowsClock
<1>1. IInv /\ [Next]_vars =>
        [modified_at' < modified_at => skew < modified_at - stampedAt]_vars
  <2> SUFFICES ASSUME IInv, Next, modified_at' < modified_at
               PROVE  skew < modified_at - stampedAt
    BY DEF vars, dbVars
  <2>1. modified_at \in Nat /\ stampedAt \in Nat /\ clock \in Nat /\ skew \in Nat
    BY SkewAssumption DEF IInv, TypeOK
  <2>2. modified_at' = modified_at \/ modified_at' = clock + skew
    <3>1. ASSUME NEW t \in Threads, NEW r \in Requests, Invoke(t, r)
          PROVE  modified_at' = modified_at
      BY <3>1 DEF Invoke, dbVars
    <3>2. ASSUME NEW t \in Threads, Run(t)
          PROVE  modified_at' = modified_at \/ modified_at' = clock + skew
      BY <3>2 DEF Run, Refuse, Connect, Execute, ExecuteFails, ListDirBreaksOff, ConnectTs,
                  Stamp, WriteStamp, StampFails, Return, Drop, dbVars
    <3>3. CASE Restart \/ SetClock
      BY <3>3 DEF Restart, WriteStamp, SetClock
    <3> QED
      BY <3>1, <3>2, <3>3 DEF Next
  <2>3. modified_at > clock + skew /\ stampedAt <= clock
    BY <2>1, <2>2 DEF IInv, StampInv
  <2> QED
    BY <2>1, <2>3
<1> QED
  BY <1>1, Invariance, PTL DEF Spec, StampFollowsClock

-----------------------------------------------------------------------------
(* update_modified_at holds one connection and asks for a second: with     *)
(* more connections than threads some thread can always go on.  Otherwise  *)
(* every connection would be the first one of some thread, and that makes  *)
(* at least as many threads as connections.                                *)
THEOREM LargePoolNeverWaitsInACircle ==
  ASSUME IsFiniteSet(Threads), IsFiniteSet(Conns), Cardinality(Threads) < Cardinality(Conns)
  PROVE  Spec => []NoHoldAndWait
<1>1. IInv => NoHoldAndWait
  <2> SUFFICES ASSUME IInv, ~NoHoldAndWait PROVE FALSE
    OBVIOUS
  <2> USE DEF IInv, TypeOK, PoolInv
  <2>1. /\ idle = {}
        /\ \A t \in Threads : pc[t] \in {"execute", "stamp", "return"} => Held(t) = {}
    BY DEF NoHoldAndWait
  <2>2. \A t \in Threads : Held(t) \subseteq {conn[t]}
    <3>1. ASSUME NEW t \in Threads, pc[t] \in {"idle", "called", "connect_ts"}
          PROVE  Held(t) \subseteq {conn[t]}
      BY <3>1 DEF Held
    <3> QED
      BY <2>1, <3>1
  <2>3. \A c \in Conns : \E t \in Threads : conn[t] = c
    BY <2>1, <2>2 DEF PoolConserved
  <2> DEFINE Holders == {t \in Threads : conn[t] # NoConn}
             first == [t \in Holders |-> conn[t]]
  <2>4. first \in Surjection(Holders, Conns)
    <3>1. first \in [Holders -> Conns]
      OBVIOUS
    <3>2. \A c \in Conns : \E t \in Holders : first[t] = c
      BY <2>3, ConnAssumption
    <3> QED
      BY <3>1, <3>2 DEF Surjection
  <2>5. IsFiniteSet(Holders) /\ Cardinality(Holders) <= Cardinality(Threads)
    BY FS_Subset
  <2>6. Cardinality(Conns) <= Cardinality(Holders)
    <3> HIDE DEF first, Holders
    <3> QED
      BY <2>4, <2>5, FS_Surjection
  <2>7. /\ Cardinality(Conns) \in Nat /\ Cardinality(Threads) \in Nat
        /\ Cardinality(Holders) \in Nat
    BY <2>5, FS_CardinalityType
  <2> QED
    BY <2>5, <2>6, <2>7
<1> QED
  BY <1>1, Invariance, PTL

-----------------------------------------------------------------------------
(* What a pool of two connections for every thread gives.  An operation    *)
(* holds two at most, and one when it waits for the second: so there is    *)
(* one for it, even while all the others hold two.  With one connection    *)
(* less, they may be all in use.                                           *)

LargePool ==
  /\ IsFiniteSet(Threads) /\ IsFiniteSet(Conns)
  /\ Cardinality(Conns) >= 2 * Cardinality(Threads)

LEMMA SecondConnection ==
  ASSUME LargePool, TypeOK, PoolInv, NEW t \in Threads, pc[t] = "connect_ts"
  PROVE  idle # {}
<1> SUFFICES ASSUME idle = {} PROVE FALSE
  OBVIOUS
<1> DEFINE Others == Threads \ {t}
           First == {conn[u] : u \in Threads}
           Second == {tsConn[u] : u \in Others}
           T == Cardinality(Threads)
<1>1. Conns \subseteq First \cup Second
  <2> SUFFICES ASSUME NEW c \in Conns PROVE c \in First \cup Second
    OBVIOUS
  <2>1. PICK u \in Threads : c \in Held(u)
    BY DEF PoolInv, PoolConserved
  <2>2. u = t => c = conn[t]
    BY <2>1, ConnAssumption DEF PoolInv, Held
  <2> QED
    BY <2>1, <2>2 DEF Held
<1>2. IsFiniteSet(Threads) /\ T \in Nat /\ Cardinality(Conns) \in Nat
      /\ Cardinality(Conns) >= 2 * T
  BY FS_CardinalityType DEF LargePool
<1>3. IsFiniteSet(Others) /\ Cardinality(Others) = T - 1
  BY <1>2, FS_RemoveElement
<1>4. IsFiniteSet(First) /\ Cardinality(First) \in Nat /\ Cardinality(First) <= T
  <2> DEFINE f == [u \in Threads |-> conn[u]]
  <2>1. f \in Surjection(Threads, First)
    <3>1. f \in [Threads -> First] /\ \A x \in First : \E u \in Threads : f[u] = x
      OBVIOUS
    <3> QED
      BY <3>1 DEF Surjection
  <2> HIDE DEF f, First
  <2> QED
    BY <1>2, <2>1, FS_Surjection, FS_CardinalityType
<1>5. IsFiniteSet(Second) /\ Cardinality(Second) \in Nat /\ Cardinality(Second) <= T - 1
  <2> DEFINE f == [u \in Others |-> tsConn[u]]
  <2>1. f \in Surjection(Others, Second)
    <3>1. f \in [Others -> Second] /\ \A x \in Second : \E u \in Others : f[u] = x
      OBVIOUS
    <3> QED
      BY <3>1 DEF Surjection
  <2> HIDE DEF f, Second
  <2> QED
    BY <1>3, <2>1, FS_Surjection, FS_CardinalityType
<1> HIDE DEF First, Second, T
<1>6. /\ IsFiniteSet(First \cup Second)
      /\ Cardinality(First \cup Second) \in Nat
      /\ Cardinality(First \cup Second) <= Cardinality(First) + Cardinality(Second)
  <2>1. IsFiniteSet(First \cap Second) /\ Cardinality(First \cap Second) \in Nat
    BY <1>4, FS_Subset, FS_CardinalityType
  <2>2. /\ IsFiniteSet(First \cup Second)
        /\ Cardinality(First \cup Second)
             = Cardinality(First) + Cardinality(Second) - Cardinality(First \cap Second)
    BY <1>4, <1>5, FS_Union
  <2> QED
    BY <1>4, <1>5, <2>1, <2>2, FS_CardinalityType
<1>7. Cardinality(Conns) <= Cardinality(First \cup Second)
  BY <1>1, <1>6, FS_Subset
<1> QED
  BY <1>2, <1>4, <1>5, <1>6, <1>7

\* An operation that reports an error has changed no row.
ErrorMeansUndone ==
  \A t \in Threads : pc[t] = "return" /\ result[t] = "error" => mutatedAt[t] = 0

\* With the option, either the stamp was written after the last mutation, or
\* the thread that executed it is still on the way to its stamp.
LastMutationCovered ==
  opts.update_timestamp_on_write =>
    \/ clock = 1 \/ stampedAt = clock
    \/ \E t \in Threads : mutatedAt[t] = clock /\ pc[t] \in {"connect_ts", "stamp"}

\* A thread that has not executed its statement has mutated nothing.
FreshInv == \A t \in Threads : pc[t] \in {"idle", "called", "execute"} => mutatedAt[t] = 0

LEMMA FreshStep == TypeOK /\ FreshInv /\ [Next]_vars => FreshInv'
<1> SUFFICES ASSUME TypeOK, FreshInv, [Next]_vars PROVE FreshInv'
  OBVIOUS
<1> USE DEF TypeOK, FreshInv, Finish
<1>1. ASSUME NEW t \in Threads, NEW r \in Requests, Invoke(t, r) PROVE FreshInv'
  BY <1>1 DEF Invoke
<1>2. ASSUME NEW t \in Threads, Refuse(t) PROVE FreshInv'
  BY <1>2 DEF Refuse
<1>3. ASSUME NEW t \in Threads, Connect(t) PROVE FreshInv'
  BY <1>3 DEF Connect
<1>4. ASSUME NEW t \in Threads, Execute(t) PROVE FreshInv'
  BY <1>4 DEF Execute
<1>5. ASSUME NEW t \in Threads, ExecuteFails(t) PROVE FreshInv'
  BY <1>5 DEF ExecuteFails
<1>6. ASSUME NEW t \in Threads, ListDirBreaksOff(t) PROVE FreshInv'
  BY <1>6 DEF ListDirBreaksOff
<1>7. ASSUME NEW t \in Threads, ConnectTs(t) PROVE FreshInv'
  BY <1>7 DEF ConnectTs, BorrowTs, TimeoutTs
<1>8. ASSUME NEW t \in Threads, Stamp(t) \/ StampFails(t) PROVE FreshInv'
  BY <1>8 DEF Stamp, WriteStamp, StampFails
<1>9. ASSUME NEW t \in Threads, Return(t) PROVE FreshInv'
  BY <1>9 DEF Return, Drop
<1>10. CASE Restart
  BY <1>10 DEF Restart, WriteStamp
<1>13. CASE SetClock
  BY <1>13 DEF SetClock, callVars
<1>11. CASE UNCHANGED vars
  BY <1>11 DEF vars, callVars
<1> QED
  BY <1>1, <1>2, <1>3, <1>4, <1>5, <1>6, <1>7, <1>8, <1>9, <1>10, <1>11, <1>13 DEF Next, Run

\* An operation that reports an error although it has changed rows lacks its
\* stamp only.
LateErrorMeansUnstamped ==
  \A t \in Threads :
    pc[t] = "return" /\ result[t] = "error" /\ mutatedAt[t] # 0 =>
      call[t].op \in Mutations /\ opts.update_timestamp_on_write

(* Whatever fails, an error after the mutation comes from                  *)
(* update_modified_at: without the option an error means that nothing was  *)
(* done.                                                                   *)
THEOREM LateErrorIsTheStamp == Spec => []LateErrorMeansUnstamped
<1> DEFINE Inv == IInv /\ FreshInv /\ LateErrorMeansUnstamped
<1>1. Init => FreshInv /\ LateErrorMeansUnstamped
  BY DEF Init, FreshInv, LateErrorMeansUnstamped
<1>2. Inv /\ [Next]_vars => LateErrorMeansUnstamped'
  <2> SUFFICES ASSUME Inv, [Next]_vars PROVE LateErrorMeansUnstamped'
    OBVIOUS
  <2> USE DEF IInv, TypeOK, FreshInv, LateErrorMeansUnstamped, Finish
  <2>1. ASSUME NEW t \in Threads, NEW r \in Requests, Invoke(t, r) PROVE LateErrorMeansUnstamped'
    BY <2>1 DEF Invoke
  <2>2. ASSUME NEW t \in Threads, Refuse(t) \/ Connect(t) PROVE LateErrorMeansUnstamped'
    BY <2>2 DEF Refuse, Connect
  <2>3. ASSUME NEW t \in Threads, Execute(t) PROVE LateErrorMeansUnstamped'
    BY <2>3 DEF Execute
  <2>4. ASSUME NEW t \in Threads, ExecuteFails(t) \/ ListDirBreaksOff(t)
        PROVE  LateErrorMeansUnstamped'
    BY <2>4 DEF ExecuteFails, ListDirBreaksOff
  <2>5. ASSUME NEW t \in Threads, ConnectTs(t) PROVE LateErrorMeansUnstamped'
    BY <2>5 DEF ConnectTs, BorrowTs, TimeoutTs, CallInv
  <2>6. ASSUME NEW t \in Threads, Stamp(t) \/ StampFails(t) PROVE LateErrorMeansUnstamped'
    BY <2>6 DEF Stamp, WriteStamp, StampFails, CallInv
  <2>7. ASSUME NEW t \in Threads, Return(t) PROVE LateErrorMeansUnstamped'
    BY <2>7 DEF Return, Drop
  <2>8. CASE Restart
    BY <2>8 DEF Restart, WriteStamp
  <2>10. CASE SetClock
    BY <2>10 DEF SetClock, callVars
  <2>9. CASE UNCHANGED vars
    BY <2>9 DEF vars, callVars
  <2> QED
    BY <2>1, <2>2, <2>3, <2>4, <2>5, <2>6, <2>7, <2>8, <2>9, <2>10 DEF Next, Run
<1>3. Inv /\ [Next]_vars => FreshInv'
  BY FreshStep DEF IInv
<1> QED
  BY <1>1, <1>2, <1>3, Invariance, PTL DEF Spec

(* With such a pool and an engine that does not fail, set, erase and       *)
(* erase_prefix report an error only when nothing was done: there is no    *)
(* timeout between a mutation and its stamp.                               *)
THEOREM LargePoolErrorMeansUndone ==
  ASSUME LargePool, ~EngineMayFail
  PROVE  Spec => []ErrorMeansUndone
<1> DEFINE Inv == IInv /\ FreshInv /\ ErrorMeansUndone
<1>1. Init => FreshInv /\ ErrorMeansUndone
  BY DEF Init, FreshInv, ErrorMeansUndone
<1>2. Inv /\ [Next]_vars => ErrorMeansUndone'
  <2> SUFFICES ASSUME Inv, [Next]_vars PROVE ErrorMeansUndone'
    OBVIOUS
  <2> USE DEF IInv, TypeOK, FreshInv, ErrorMeansUndone, Finish
  <2>1. ASSUME NEW t \in Threads, NEW r \in Requests, Invoke(t, r) PROVE ErrorMeansUndone'
    BY <2>1 DEF Invoke
  <2>2. ASSUME NEW t \in Threads, Refuse(t) \/ Connect(t) PROVE ErrorMeansUndone'
    BY <2>2 DEF Refuse, Connect
  <2>3. ASSUME NEW t \in Threads, Execute(t) PROVE ErrorMeansUndone'
    BY <2>3 DEF Execute
  <2>4. ASSUME NEW t \in Threads, ExecuteFails(t) \/ ListDirBreaksOff(t) PROVE ErrorMeansUndone'
    BY <2>4 DEF ExecuteFails, ListDirBreaksOff
  <2>5. ASSUME NEW t \in Threads, ConnectTs(t) PROVE ErrorMeansUndone'
    <3>1. idle # {}
      BY <2>5, SecondConnection DEF ConnectTs
    <3>2. ~TimeoutTs(t, "error")
      BY <3>1 DEF TimeoutTs
    <3> QED
      BY <2>5, <3>2 DEF ConnectTs, BorrowTs
  <2>6. ASSUME NEW t \in Threads, Stamp(t) \/ StampFails(t) PROVE ErrorMeansUndone'
    BY <2>6 DEF Stamp, WriteStamp, StampFails
  <2>7. ASSUME NEW t \in Threads, Return(t) PROVE ErrorMeansUndone'
    BY <2>7 DEF Return, Drop
  <2>8. CASE Restart
    BY <2>8 DEF Restart, WriteStamp
  <2>10. CASE SetClock
    BY <2>10 DEF SetClock, callVars
  <2>9. CASE UNCHANGED vars
    BY <2>9 DEF vars, callVars
  <2> QED
    BY <2>1, <2>2, <2>3, <2>4, <2>5, <2>6, <2>7, <2>8, <2>9, <2>10 DEF Next, Run
<1>3. Inv /\ [Next]_vars => FreshInv'
  BY FreshStep DEF IInv
<1> QED
  BY <1>1, <1>2, <1>3, Invariance, PTL DEF Spec

(* options.rs:94, where it holds: with such a pool, an engine that does    *)
(* not fail and no crash, modified_at was written after the last mutation  *)
(* whenever no call is in progress.                                        *)
THEOREM LargePoolStampsEveryMutation ==
  ASSUME LargePool, ~EngineMayFail, MaxRestarts = 0
  PROVE  Spec => []EveryMutationStamped
<1>1. Init => LastMutationCovered
  BY DEF Init, LastMutationCovered
<1>2. IInv /\ LastMutationCovered /\ [Next]_vars => LastMutationCovered'
  <2> SUFFICES ASSUME IInv, LastMutationCovered, [Next]_vars PROVE LastMutationCovered'
    OBVIOUS
  <2> USE DEF IInv, TypeOK, LastMutationCovered, Finish
  <2>1. ASSUME NEW t \in Threads, NEW r \in Requests, Invoke(t, r) PROVE LastMutationCovered'
    BY <2>1 DEF Invoke, dbVars
  <2>2. ASSUME NEW t \in Threads, Refuse(t) \/ Connect(t) PROVE LastMutationCovered'
    BY <2>2 DEF Refuse, Connect, dbVars
  <2>3. ASSUME NEW t \in Threads, Execute(t) PROVE LastMutationCovered'
    <3>1. CASE call[t].op \in Mutations /\ opts.update_timestamp_on_write
      <4>1. mutatedAt'[t] = clock' /\ pc'[t] = "connect_ts"
        BY <2>3, <3>1 DEF Execute
      <4> QED
        BY <4>1
    <3>2. CASE call[t].op \notin Mutations
      BY <2>3, <3>2 DEF Execute
    <3>3. CASE ~opts.update_timestamp_on_write
      BY <2>3, <3>3 DEF Execute
    <3> QED
      BY <3>1, <3>2, <3>3
  <2>4. ASSUME NEW t \in Threads, ExecuteFails(t) \/ ListDirBreaksOff(t)
        PROVE  LastMutationCovered'
    BY <2>4 DEF ExecuteFails, ListDirBreaksOff, dbVars
  <2>5. ASSUME NEW t \in Threads, ConnectTs(t) PROVE LastMutationCovered'
    <3>1. idle # {}
      BY <2>5, SecondConnection DEF ConnectTs
    <3>2. ~TimeoutTs(t, "error")
      BY <3>1 DEF TimeoutTs
    <3> QED
      BY <2>5, <3>2 DEF ConnectTs, BorrowTs, dbVars
  <2>6. ASSUME NEW t \in Threads, Stamp(t) \/ StampFails(t) PROVE LastMutationCovered'
    BY <2>6 DEF Stamp, WriteStamp, StampFails
  <2>7. ASSUME NEW t \in Threads, Return(t) PROVE LastMutationCovered'
    BY <2>7 DEF Return, Drop, dbVars
  <2>8. ~Restart
    BY DEF Restart, WriteStamp
  <2>10. CASE SetClock
    BY <2>10 DEF SetClock, callVars
  <2>9. CASE UNCHANGED vars
    BY <2>9 DEF vars, dbVars, callVars
  <2> QED
    BY <2>1, <2>2, <2>3, <2>4, <2>5, <2>6, <2>7, <2>8, <2>9, <2>10 DEF Next, Run
<1>3. LastMutationCovered /\ TypeOK => EveryMutationStamped
  BY DEF LastMutationCovered, EveryMutationStamped, TypeOK
<1> QED
  BY <1>1, <1>2, <1>3, Invariance, PTL DEF Spec, IInv

-----------------------------------------------------------------------------
(* Refinement.  In the abstract store a call takes effect in one step; here *)
(* that step is the call's own statement, and the stamp that may follow    *)
(* moves no row.                                                           *)
(* The two modules serve the same requests.                                *)
LEMMA SameRequests ==
  /\ Abstract!Requests = Requests
  /\ Abstract!Mutations = Mutations
  /\ Abstract!Nothing = Nothing
  /\ \A d, r : Abstract!Effect(d, r) = Effect(d, r) /\ Abstract!Answer(d, r) = Answer(d, r)
  /\ \A d, r : Abstract!PartialAnswers(d, r) = PartialAnswers(d, r)
<1>1. Abstract!Requests = Requests
  BY DEF Requests, Set, Erase, ErasePrefix, Get, List, SetPartial, Maintenance, Singletons,
     Abstract!Requests, Abstract!Set, Abstract!Erase, Abstract!ErasePrefix, Abstract!Get,
     Abstract!List, Abstract!SetPartial, Abstract!Maintenance, Abstract!Singletons
<1>2. Abstract!Mutations = Mutations /\ Abstract!Nothing = Nothing
  BY DEF Mutations, Abstract!Mutations, Nothing, Abstract!Nothing
<1>3. \A d, r : Abstract!Effect(d, r) = Effect(d, r)
  BY <1>2 DEF Effect, Abstract!Effect
<1>4. \A d, r : Abstract!Answer(d, r) = Answer(d, r)
  BY <1>2 DEF Answer, Abstract!Answer
<1>5. \A d, r : Abstract!PartialAnswers(d, r) = PartialAnswers(d, r)
  BY DEF PartialAnswers, Abstract!PartialAnswers
<1> QED
  BY <1>1, <1>2, <1>3, <1>4, <1>5

LEMMA AbstractInit == Init => Abstract!Init
BY DEF Init, Abstract!Init, phase, Nothing, Abstract!Nothing

(* Every step of a thread is a step of its request in the abstract store,  *)
(* or none.                                                                *)
LEMMA AbstractRun ==
  ASSUME IInv, NEW t \in Threads, Run(t)
  PROVE  \/ Abstract!TakeEffect(t) \/ Abstract!ListPart(t) \/ Abstract!Fail(t)
         \/ Abstract!Return(t) \/ UNCHANGED Abstract!vars
<1> USE DEF IInv, TypeOK, CallInv, Finish, Abstract!vars
<1>1. \A u \in Threads \ {t} : pc'[u] = pc[u] /\ result'[u] = result[u]
  BY DEF Run, Refuse, Connect, Execute, ExecuteFails, ListDirBreaksOff,
         ConnectTs, BorrowTs, TimeoutTs, Stamp, WriteStamp, StampFails, Return, Drop
<1>2. phase' = [phase EXCEPT ![t] = phase'[t]]
  BY <1>1 DEF phase
<1>3. phase[t] = CASE pc[t] = "idle" -> "idle"
                   [] pc[t] \in {"called", "execute"} -> "pending"
                   [] pc[t] = "return" /\ result[t] = "error" -> "failed"
                   [] OTHER -> "applied"
  BY DEF phase
<1>4. phase'[t] = CASE pc'[t] = "idle" -> "idle"
                    [] pc'[t] \in {"called", "execute"} -> "pending"
                    [] pc'[t] = "return" /\ result'[t] = "error" -> "failed"
                    [] OTHER -> "applied"
  BY DEF phase
<1>6. phase'[t] = phase[t] => phase' = phase
  <2>1. phase = [u \in Threads |-> phase[u]]
    BY Zenon DEF phase
  <2> QED
    BY <1>2, <2>1
<1>7. CASE Refuse(t)
  <2>1. CASE result'[t] = "error"
    BY <1>2, <1>3, <1>4, <1>7, <2>1 DEF Refuse, Abstract!Fail, dbVars
  <2>2. CASE IsSkipped(call[t]) /\ result'[t] = "ok"
    <3>1. call[t] \in Requests /\ call[t].op = "checkpoint"
      BY <1>7, <2>2 DEF Refuse, IsSkipped
    <3>2. call[t].op \notin Mutations /\ call[t].keys = {}
      BY <3>1 DEF Requests, Set, Erase, ErasePrefix, Get, List, SetPartial, Maintenance, Mutations
    <3>3. Effect(data, call[t]) = data /\ Answer(data, call[t]) = got[t]
      BY <1>7, <3>2 DEF Effect, Answer, Nothing, Refuse
    <3>4. got' = [got EXCEPT ![t] = Answer(data, call[t])]
      BY <1>7, <3>3 DEF Refuse
    <3> QED
      BY <1>2, <1>3, <1>4, <1>7, <2>2, <3>3, <3>4, SameRequests
         DEF Refuse, Abstract!TakeEffect, dbVars
  <2> QED
    BY <1>7, <2>1, <2>2 DEF Refuse
<1>8. CASE Connect(t)
  BY <1>2, <1>3, <1>4, <1>6, <1>8 DEF Connect, Abstract!Fail, dbVars
<1>9. CASE Execute(t)
  BY <1>2, <1>3, <1>4, <1>9, SameRequests DEF Execute, Abstract!TakeEffect
<1>10. CASE ExecuteFails(t)
  BY <1>2, <1>3, <1>4, <1>10 DEF ExecuteFails, Abstract!Fail, dbVars
<1>11. CASE ConnectTs(t)
  BY <1>2, <1>3, <1>4, <1>6, <1>11 DEF ConnectTs, BorrowTs, TimeoutTs, Abstract!Fail, dbVars
<1>12. CASE Stamp(t)
  BY <1>3, <1>4, <1>6, <1>12 DEF Stamp, WriteStamp
<1>13. CASE StampFails(t)
  BY <1>2, <1>3, <1>4, <1>13 DEF StampFails, Abstract!Fail, dbVars
<1>14. CASE Return(t)
  BY <1>2, <1>3, <1>4, <1>14 DEF Return, Drop, Abstract!Return, dbVars, Nothing, Abstract!Nothing
<1>15. CASE ListDirBreaksOff(t)
  BY <1>2, <1>3, <1>4, <1>15, SameRequests DEF ListDirBreaksOff, Abstract!ListPart, dbVars
<1> QED
  BY <1>7, <1>8, <1>9, <1>10, <1>11, <1>12, <1>13, <1>14, <1>15 DEF Run

LEMMA AbstractStep == IInv /\ [Next]_vars => [Abstract!Next]_(Abstract!vars)
<1> SUFFICES ASSUME IInv, [Next]_vars PROVE [Abstract!Next]_(Abstract!vars)
  OBVIOUS
<1>1. ASSUME NEW t \in Threads, Run(t) PROVE [Abstract!Next]_(Abstract!vars)
  BY <1>1, AbstractRun DEF Abstract!Next
<1>2. ASSUME NEW t \in Threads, NEW r \in Requests, Invoke(t, r)
      PROVE  [Abstract!Next]_(Abstract!vars)
  <2>1. phase[t] = "idle" /\ phase' = [phase EXCEPT ![t] = "pending"]
    BY <1>2 DEF IInv, TypeOK, Invoke, phase
  <2>2. Abstract!Invoke(t, r)
    BY <1>2, <2>1 DEF Invoke, Abstract!Invoke, dbVars
  <2>3. r \in Abstract!Requests
    BY SameRequests
  <2> QED
    BY <2>2, <2>3 DEF Abstract!Next
<1>3. CASE Restart
  <2>1. phase' = [t \in Threads |-> "idle"]
    BY <1>3 DEF Restart, phase
  <2>2. Abstract!Crash
    BY <1>3, <2>1 DEF Restart, Abstract!Crash, Nothing, Abstract!Nothing
  <2> QED
    BY <2>2 DEF Abstract!Next
<1>5. CASE SetClock
  BY <1>5 DEF SetClock, callVars, phase, Abstract!vars
<1>4. CASE UNCHANGED vars
  BY <1>4 DEF vars, dbVars, callVars, phase, Abstract!vars
<1> QED
  BY <1>1, <1>2, <1>3, <1>4, <1>5 DEF Next

(* RusqliteStore is a linearizable map: each call takes effect at one      *)
(* instant between its call and its return, once at most, also when it     *)
(* reports an error because only the stamp failed.                         *)
THEOREM Refinement == Spec => Linearizable
BY AbstractInit, AbstractStep, Invariance, PTL DEF Spec, Linearizable, Abstract!Spec
=============================================================================
