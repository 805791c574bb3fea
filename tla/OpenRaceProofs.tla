--------------------------- MODULE OpenRaceProofs ---------------------------
(***************************************************************************)
(* What can be said of openers that race for one path when none of them    *)
(* passes truncate: any number of them, with any other options.            *)
(*                                                                         *)
(* No file loses its name then, so every connection there is leads to the  *)
(* same file (OneFileInv).  That holds whatever fails and whoever dies.    *)
(* If nothing does, the one that creates the file also completes it, and   *)
(* until then it is never without somebody at work (CompleteInv).          *)
(***************************************************************************)
EXTENDS OpenStoreProofs

NoTruncate == \A o \in Choices : ~o.truncate

\* An opener is past check_existence when there is a file, or it is to make
\* one; all connections are on the file; who has created the store finds its
\* own tables there.
OneFileInv ==
  \A p \in Openers :
    /\ pc[p] # "idle" => opt[p] \in Choices
    /\ pc[p] # "remove"
    /\ conns[p] \subseteq {path}
    /\ pc[p] \in {"open", "stamp", "ready"} /\ ~init[p] => path # NoFile
    /\ pc[p] \in {"core", "created_by"} \/ HasCreated(p) =>
         path # NoFile /\ db[path].creator = p

\* The steps that do not touch the path.
LEMMA OthersKeepPath ==
  ASSUME NEW p \in Openers,
         \/ \E o \in Choices : Call(p, o)
         \/ CheckExistence(p) \/ PoolBuilt(p) \/ PoolTimeout(p) \/ CreateSchema(p)
         \/ WriteCore(p) \/ WriteCreatedBy(p) \/ Stamp(p) \/ StatementFails(p)
         \/ Close(p) \/ Crash(p)
  PROVE  UNCHANGED <<path, files>>
BY DEF Call, CheckExistence, PoolBuilt, PoolTimeout, CreateSchema, WriteCore, WriteCreatedBy,
   Stamp, StatementFails, Close, Crash, diskVars

(* Once there is a file the path names it for good.                        *)
LEMMA PathStays ==
  ASSUME OneFileInv, [Next]_vars, path # NoFile
  PROVE  path' = path
<1>1. ASSUME NEW p \in Openers, RemoveFile(p) PROVE FALSE
  BY <1>1 DEF RemoveFile, OneFileInv
<1>2. ASSUME NEW p \in Openers, OpenConnection(p) \/ Reconnect(p) PROVE path' = path
  BY <1>2 DEF OpenConnection, Reconnect, Connect
<1>3. CASE UNCHANGED vars
  BY <1>3 DEF vars, diskVars
<1> QED
  BY <1>1, <1>2, <1>3, OthersKeepPath DEF Next, New

(* OneFileInv is preserved.  What holds of one opener is no concern of the *)
(* others' steps, since the path does not change behind its back (<1>d);   *)
(* so each action only has to show it of the opener that takes it (<1>g).  *)
LEMMA OneFileStep == NoTruncate /\ IInv /\ OneFileInv /\ [Next]_vars => OneFileInv'
<1> SUFFICES ASSUME NoTruncate, IInv, OneFileInv, [Next]_vars PROVE OneFileInv'
  OBVIOUS
<1>0. TypeOK
  BY DEF IInv
<1>a. path # NoFile => path' = path
  BY PathStays
<1>b. path # NoFile => /\ path \in Files
                       /\ \A p \in Openers : db[path].creator = p => db'[path].creator = p
  <2> SUFFICES ASSUME path # NoFile
               PROVE  /\ path \in Files
                      /\ \A p \in Openers : db[path].creator = p => db'[path].creator = p
    OBVIOUS
  <2>1. path \in Files
    BY <1>0 DEF TypeOK
  <2> QED
    BY <1>0, <2>1, Undone, NameAssumption DEF Kept
<1> DEFINE Fine(p) ==
             /\ pc[p] # "idle" => opt[p] \in Choices
             /\ pc[p] # "remove"
             /\ conns[p] \subseteq {path}
             /\ pc[p] \in {"open", "stamp", "ready"} /\ ~init[p] => path # NoFile
             /\ pc[p] \in {"core", "created_by"} \/ HasCreated(p) =>
                  path # NoFile /\ db[path].creator = p
<1>c. \A p \in Openers : Fine(p)
  BY DEF OneFileInv
<1>d. ASSUME NEW p \in Openers,
             pc'[p] = pc[p], opt'[p] = opt[p], init'[p] = init[p], conns'[p] \subseteq {path'}
      PROVE  Fine(p)'
  BY <1>a, <1>b, <1>c, <1>d DEF HasCreated
<1>e. path = NoFile => \A p \in Openers : conns[p] = {}
  BY <1>0, <1>c DEF TypeOK, NoFile
<1>f. \A p \in Openers : conns[p] \subseteq {path'}
  BY <1>a, <1>c, <1>e
<1> USE <1>0 DEF TypeOK, Goto, GiveUp
\* A step of p that opens nothing.
<1>g. ASSUME NEW p \in Openers,
             \A q \in Openers \ {p} :
               pc'[q] = pc[q] /\ opt'[q] = opt[q] /\ init'[q] = init[q] /\ conns'[q] = conns[q],
             conns'[p] \subseteq conns[p],
             Fine(p)'
      PROVE  \A q \in Openers : Fine(q)'
  <2> SUFFICES ASSUME NEW q \in Openers PROVE Fine(q)'
    OBVIOUS
  <2>1. CASE q = p
    BY <1>g, <2>1
  <2>2. CASE q # p
    <3>1. pc'[q] = pc[q] /\ opt'[q] = opt[q] /\ init'[q] = init[q] /\ conns'[q] \subseteq {path'}
      BY <1>f, <1>g, <2>2
    <3> HIDE DEF Fine
    <3> QED
      BY <1>d, <3>1
  <2> QED
    BY <2>1, <2>2
<1>1. ASSUME NEW p \in Openers, NEW o \in Choices, Call(p, o) PROVE \A q \in Openers : Fine(q)'
  <2>1. /\ pc'[p] = "check" /\ opt'[p] = o /\ conns' = conns
        /\ \A q \in Openers \ {p} : pc'[q] = pc[q] /\ opt'[q] = opt[q] /\ init'[q] = init[q]
    BY <1>1 DEF Call
  <2>2. Fine(p)'
    BY <1>f, <2>1 DEF HasCreated
  <2> HIDE DEF Fine
  <2> QED
    BY <1>g, <2>1, <2>2
<1>2. ASSUME NEW p \in Openers, CheckExistence(p) PROVE \A q \in Openers : Fine(q)'
  <2>1. ~opt[p].truncate /\ opt[p] \in Choices
    BY <1>2, <1>c DEF CheckExistence, NoTruncate
  <2>2. /\ opt' = opt /\ path' = path
        /\ \A q \in Openers \ {p} : pc'[q] = pc[q] /\ init'[q] = init[q] /\ conns'[q] = conns[q]
        /\ conns'[p] \subseteq conns[p]
        /\ pc'[p] \in {"open", "failed"}
        /\ pc'[p] = "open" /\ ~init'[p] => path # NoFile
    BY <1>2, <2>1 DEF CheckExistence, diskVars
  <2>3. Fine(p)'
    BY <1>f, <2>1, <2>2 DEF HasCreated
  <2> HIDE DEF Fine
  <2> QED
    BY <1>g, <2>2, <2>3
<1>3. ASSUME NEW p \in Openers, RemoveFile(p) PROVE FALSE
  BY <1>3, <1>c DEF RemoveFile
<1>4. ASSUME NEW p \in Openers, OpenConnection(p) \/ Reconnect(p)
      PROVE  \A q \in Openers : Fine(q)'
  <2>1. /\ UNCHANGED <<pc, opt, init>>
        /\ \A q \in Openers \ {p} : conns'[q] = conns[q]
        /\ conns'[p] \subseteq conns[p] \cup {path'}
    BY <1>4 DEF OpenConnection, Reconnect, Connect
  <2>2. \A q \in Openers : conns'[q] \subseteq {path'}
    BY <1>f, <2>1
  <2> HIDE DEF Fine
  <2> QED
    BY <1>d, <2>1, <2>2
<1>5. ASSUME NEW p \in Openers, PoolBuilt(p) PROVE \A q \in Openers : Fine(q)'
  <2>1. /\ conns' = conns /\ opt' = opt /\ init' = init /\ path' = path
        /\ \A q \in Openers \ {p} : pc'[q] = pc[q]
        /\ pc[p] = "open"
        /\ pc'[p] \in {"schema", "stamp", "ready"} /\ (init[p] => pc'[p] = "schema")
    BY <1>5 DEF PoolBuilt, diskVars
  <2>2. Fine(p)'
    BY <1>c, <1>f, <2>1 DEF HasCreated
  <2> HIDE DEF Fine
  <2> QED
    BY <1>g, <2>1, <2>2
<1>6. ASSUME NEW p \in Openers,
             PoolTimeout(p) \/ StatementFails(p) \/ Crash(p)
      PROVE  \A q \in Openers : Fine(q)'
  <2>1. /\ opt' = opt /\ init' = init /\ conns'[p] = {}
        /\ \A q \in Openers \ {p} : pc'[q] = pc[q] /\ conns'[q] = conns[q]
        /\ pc[p] # "idle" /\ pc'[p] \in {"failed", "dead"}
    BY <1>6 DEF PoolTimeout, StatementFails, Crash
  <2>2. Fine(p)'
    BY <1>c, <2>1 DEF HasCreated
  <2> HIDE DEF Fine
  <2> QED
    BY <1>g, <2>1, <2>2
<1>7. ASSUME NEW p \in Openers, CreateSchema(p) PROVE \A q \in Openers : Fine(q)'
  <2>1. /\ opt' = opt /\ init' = init /\ conns'[p] \subseteq conns[p] /\ path' = path
        /\ \A q \in Openers \ {p} : pc'[q] = pc[q] /\ conns'[q] = conns[q]
        /\ pc[p] = "schema"
    BY <1>7 DEF CreateSchema
  <2>2. PICK f \in conns[p] :
          \/ db' = [db EXCEPT ![f].creator = p] /\ pc'[p] = "core"
          \/ pc'[p] = "failed"
    BY <1>7 DEF CreateSchema
  <2>3. f = path /\ path # NoFile
    BY <1>c, <1>e, <2>2
  <2>4. db' = [db EXCEPT ![f].creator = p] => db'[path].creator = p
    BY <1>b, <2>3 DEF Contents
  <2>5. Fine(p)'
    BY <1>c, <1>f, <2>1, <2>2, <2>3, <2>4 DEF HasCreated
  <2> HIDE DEF Fine
  <2> QED
    BY <1>g, <2>1, <2>5
<1>8. ASSUME NEW p \in Openers, WriteCore(p) \/ WriteCreatedBy(p) PROVE \A q \in Openers : Fine(q)'
  <2>1. /\ opt' = opt /\ init' = init /\ conns'[p] \subseteq conns[p] /\ path' = path
        /\ \A q \in Openers \ {p} : pc'[q] = pc[q] /\ conns'[q] = conns[q]
        /\ pc[p] \in {"core", "created_by"}
        /\ pc'[p] \in {"created_by", "ready", "failed"}
    BY <1>8 DEF WriteCore, WriteCreatedBy
  <2>2. path # NoFile /\ db'[path].creator = p
    BY <1>b, <1>c, <2>1
  <2>3. Fine(p)'
    BY <1>c, <1>f, <2>1, <2>2
  <2> HIDE DEF Fine
  <2> QED
    BY <1>g, <2>1, <2>3
<1>9. ASSUME NEW p \in Openers, Stamp(p) PROVE \A q \in Openers : Fine(q)'
  <2>1. /\ opt' = opt /\ init' = init /\ conns'[p] \subseteq conns[p] /\ path' = path
        /\ \A q \in Openers \ {p} : pc'[q] = pc[q] /\ conns'[q] = conns[q]
        /\ pc[p] = "stamp" /\ pc'[p] \in {"ready", "failed"}
    BY <1>9 DEF Stamp
  <2>2. ~init[p]
    BY <2>1 DEF IInv, SetUpInv, SetUp
  <2>3. Fine(p)'
    BY <1>c, <1>f, <2>1, <2>2 DEF HasCreated
  <2> HIDE DEF Fine
  <2> QED
    BY <1>g, <2>1, <2>3
<1>10. ASSUME NEW p \in Openers, Close(p) PROVE \A q \in Openers : Fine(q)'
  <2>1. /\ opt' = opt /\ init' = init /\ conns'[p] = {} /\ path' = path
        /\ \A q \in Openers \ {p} : pc'[q] = pc[q] /\ conns'[q] = conns[q]
        /\ pc[p] = "ready" /\ pc'[p] = "closed"
    BY <1>10 DEF Close, diskVars
  <2>2. init[p] => path # NoFile /\ db'[path].creator = p
    BY <1>b, <1>c, <2>1 DEF HasCreated
  <2>3. Fine(p)'
    <3>1. opt'[p] \in Choices
      BY <1>c, <2>1
    <3> QED
      BY <2>1, <2>2, <3>1 DEF HasCreated
  <2> HIDE DEF Fine
  <2> QED
    BY <1>g, <2>1, <2>3
<1>11. ASSUME UNCHANGED vars PROVE \A q \in Openers : Fine(q)'
  <2> HIDE DEF Fine, TypeOK
  <2>1. pc' = pc /\ opt' = opt /\ init' = init /\ conns' = conns
    BY <1>11 DEF vars, openerVars
  <2>2. ASSUME NEW q \in Openers PROVE Fine(q)'
    BY <1>d, <1>f, <2>1
  <2> QED
    BY <2>2
<1>12. \A q \in Openers : Fine(q)'
  <2> HIDE DEF Fine
  <2> QED
    BY <1>1, <1>2, <1>3, <1>4, <1>5, <1>6, <1>7, <1>8, <1>9, <1>10, <1>11 DEF Next, New
<1> QED
  BY <1>12 DEF OneFileInv

LEMMA OneFileInvariance ==
  ASSUME NoTruncate
  PROVE  Spec => [](IInv /\ OneFileInv)
<1>1. Init => OneFileInv
  BY DEF Init, OneFileInv, HasCreated
<1>2. IInv /\ OneFileInv /\ [Next]_vars => OneFileInv'
  BY OneFileStep
<1> QED
  BY <1>1, <1>2, Invariance, PTL DEF Spec

(* Of the calls that race to create a store one at most succeeds, in       *)
(* whatever order they pass check_existence, open the file and create the  *)
(* tables, and whoever fails or dies on the way.                           *)
THEOREM OnlyOneCreates ==
  ASSUME NoTruncate
  PROVE  Spec => []OneCreator
<1>1. OneFileInv => OneCreator
  BY DEF OneFileInv, OneCreator
<1> QED
  BY <1>1, OneFileInvariance, PTL

(* All connections of all openers are on one file, the one the path names. *)
THEOREM AllOnOneFile ==
  ASSUME NoTruncate
  PROVE  Spec => [](\A p \in Openers : conns[p] \subseteq {path} /\ ~Straddles(p))
<1>1. OneFileInv => \A p \in Openers : conns[p] \subseteq {path} /\ ~Straddles(p)
  BY DEF OneFileInv, Straddles
<1> QED
  BY <1>1, OneFileInvariance, PTL

-----------------------------------------------------------------------------
(* When nothing fails and nobody dies.                                     *)

\* p has been told to set up the store, is on its file and is at one of the
\* given points.
AtWork(p, labels) == init[p] /\ path \in conns[p] /\ pc[p] \in labels

\* Before the tables are there somebody is on the way to create them; then,
\* who did is about to write the core metadata.
CompleteInv ==
  /\ \A f \in Files : f > files => db[f].creator = Nobody
  /\ path # NoFile /\ ~HasTables(path) => \E p \in Openers : AtWork(p, {"open", "schema"})
  /\ path # NoFile /\ HasTables(path) /\ ~db[path].core =>
       \E p \in Openers : AtWork(p, {"core"})

LEMMA CompleteStep ==
  ASSUME NoTruncate, ~EngineMayFail, MaxCrashes = 0
  PROVE  IInv /\ OneFileInv /\ CompleteInv /\ [Next]_vars => CompleteInv'
<1> SUFFICES ASSUME IInv, OneFileInv, CompleteInv, [Next]_vars PROVE CompleteInv'
  OBVIOUS
<1>0. TypeOK
  BY DEF IInv
<1> USE <1>0 DEF TypeOK, Goto, GiveUp
\* A step that is not one of AtWork.
<1>a. ASSUME UNCHANGED <<path, files>>,
             \A f \in Files : db'[f].creator = db[f].creator /\ db'[f].core = db[f].core,
             \A p \in Openers : AtWork(p, {"open", "schema"}) => AtWork(p, {"open", "schema"})',
             \A p \in Openers : AtWork(p, {"core"}) => AtWork(p, {"core"})'
      PROVE  CompleteInv'
  <2> HIDE DEF AtWork
  <2>1. path # NoFile => path \in Files
    OBVIOUS
  <2> QED
    BY <1>a, <2>1 DEF CompleteInv, HasTables
<1>b. ASSUME NEW p \in Openers,
             \A q \in Openers \ {p} :
               pc'[q] = pc[q] /\ init'[q] = init[q] /\ conns'[q] = conns[q],
             UNCHANGED <<path, files>>,
             \A f \in Files : db'[f].creator = db[f].creator /\ db'[f].core = db[f].core,
             \/ pc[p] \notin {"open", "schema", "core"}
             \/ ~init[p]
             \/ /\ pc[p] = "open" /\ pc'[p] = "schema"
                /\ init'[p] = init[p] /\ conns'[p] = conns[p]
      PROVE  CompleteInv'
  <2>1. \A q \in Openers : AtWork(q, {"open", "schema"}) => AtWork(q, {"open", "schema"})'
    BY <1>b DEF AtWork
  <2>2. \A q \in Openers : AtWork(q, {"core"}) => AtWork(q, {"core"})'
    BY <1>b DEF AtWork
  <2> QED
    BY <1>a, <1>b, <2>1, <2>2
<1>1. ASSUME NEW p \in Openers, NEW o \in Choices, Call(p, o) PROVE CompleteInv'
  BY <1>1, <1>b DEF Call, diskVars
<1>2. ASSUME NEW p \in Openers, CheckExistence(p) PROVE CompleteInv'
  BY <1>2, <1>b DEF CheckExistence, diskVars
<1>3. ASSUME NEW p \in Openers, RemoveFile(p) PROVE CompleteInv'
  BY <1>3 DEF RemoveFile, OneFileInv
<1>4. ASSUME NEW p \in Openers, OpenConnection(p) \/ Reconnect(p) PROVE CompleteInv'
  <2>1. Connect(p) /\ UNCHANGED <<pc, init, db>> /\ pc[p] \in {"open", "ready"}
    BY <1>4 DEF OpenConnection, Reconnect
  <2>2. CASE path # NoFile
    <3>1. UNCHANGED <<path, files>> /\ \A q \in Openers : conns[q] \subseteq conns'[q]
      BY <2>1, <2>2 DEF Connect
    <3>2. \A q \in Openers : AtWork(q, {"open", "schema"}) => AtWork(q, {"open", "schema"})'
      BY <2>1, <3>1 DEF AtWork
    <3>3. \A q \in Openers : AtWork(q, {"core"}) => AtWork(q, {"core"})'
      BY <2>1, <3>1 DEF AtWork
    <3> QED
      BY <1>a, <2>1, <3>1, <3>2, <3>3
  <2>3. CASE path = NoFile
    <3>1. /\ files' = files + 1 /\ path' = files + 1 /\ files < MaxFiles
          /\ conns' = [conns EXCEPT ![p] = @ \cup {files + 1}]
      BY <2>1, <2>3 DEF Connect
    <3>2. path' \in Files /\ path' > files
      BY <3>1, LimitAssumption DEF Files
    <3>3. ~HasTables(path)' /\ \A f \in Files : f > files' => db'[f].creator = Nobody
      BY <2>1, <3>1, <3>2 DEF CompleteInv, HasTables, Files
    <3>4. pc[p] = "open" /\ init[p]
      BY <2>1, <2>3 DEF OneFileInv, HasCreated
    <3>5. AtWork(p, {"open", "schema"})'
      BY <2>1, <3>1, <3>4 DEF AtWork
    <3> QED
      BY <3>3, <3>5 DEF CompleteInv
  <2> QED
    BY <2>2, <2>3
<1>5. ASSUME NEW p \in Openers, PoolBuilt(p) PROVE CompleteInv'
  BY <1>5, <1>b DEF PoolBuilt, diskVars
<1>6. ASSUME NEW p \in Openers, PoolTimeout(p) PROVE CompleteInv'
  <2>1. path' = NoFile /\ UNCHANGED <<db, files>>
    BY <1>6 DEF PoolTimeout, diskVars
  <2> QED
    BY <2>1 DEF CompleteInv
<1>7. ASSUME NEW p \in Openers, CreateSchema(p) PROVE CompleteInv'
  <2>1. PICK f \in conns[p] :
          \/ /\ ~HasTables(f) /\ db' = [db EXCEPT ![f].creator = p]
             /\ pc' = [pc EXCEPT ![p] = "core"] /\ UNCHANGED conns
          \/ /\ HasTables(f) /\ UNCHANGED db
             /\ pc' = [pc EXCEPT ![p] = "failed"] /\ conns' = [conns EXCEPT ![p] = {}]
    BY <1>7 DEF CreateSchema
  <2>2. UNCHANGED <<path, files, init>> /\ pc[p] = "schema"
    BY <1>7 DEF CreateSchema
  <2>3. f = path /\ path \in Files /\ path <= files /\ path # NoFile
    BY <2>1, LimitAssumption DEF OneFileInv, Files, NoFile
  <2>4. CASE ~HasTables(f)
    <3>1. db' = [db EXCEPT ![f].creator = p] /\ pc'[p] = "core" /\ UNCHANGED conns
      BY <2>1, <2>4
    <3>2. db'[path].creator = p /\ \A g \in Files : g # path => db'[g] = db[g]
      BY <2>3, <3>1 DEF Contents
    <3>3. HasTables(path)'
      BY <2>2, <3>2, NameAssumption DEF HasTables
    <3>4. init[p]
      BY <2>2 DEF IInv, SetUpInv, SetUp
    <3>5. AtWork(p, {"core"})'
      BY <2>1, <2>2, <2>3, <3>1, <3>4 DEF AtWork
    <3>6. \A g \in Files : g > files' => db'[g].creator = Nobody
      BY <2>2, <2>3, <3>2 DEF CompleteInv, Files
    <3> QED
      BY <3>3, <3>5, <3>6 DEF CompleteInv
  <2>5. CASE HasTables(f)
    <3>1. UNCHANGED db /\ \A q \in Openers \ {p} : pc'[q] = pc[q] /\ conns'[q] = conns[q]
      BY <2>1, <2>5
    <3>2. \A q \in Openers : AtWork(q, {"core"}) => AtWork(q, {"core"})'
      BY <2>2, <3>1 DEF AtWork
    <3>3. HasTables(path)'
      BY <2>2, <2>3, <2>5, <3>1 DEF HasTables
    <3> QED
      BY <2>2, <2>3, <2>5, <3>1, <3>2, <3>3 DEF CompleteInv
  <2> QED
    BY <2>4, <2>5
<1>8. ASSUME NEW p \in Openers, WriteCore(p) PROVE CompleteInv'
  <2>1. UNCHANGED <<path, files, init>> /\ pc[p] = "core"
    BY <1>8 DEF WriteCore
  <2>2. PICK f \in conns[p] : HasTables(f) => db' = [db EXCEPT ![f].core = TRUE]
    BY <1>8 DEF WriteCore
  <2>3. f = path /\ path \in Files /\ path # NoFile /\ db[path].creator = p
    BY <2>1, <2>2, LimitAssumption DEF OneFileInv, Files, NoFile
  <2>4. db' = [db EXCEPT ![path].core = TRUE]
    BY <2>2, <2>3, NameAssumption DEF HasTables
  <2>5. db'[path].core /\ \A g \in Files : db'[g].creator = db[g].creator
    BY <2>3, <2>4 DEF Contents
  <2>6. HasTables(path)' /\ path' = path
    BY <2>1, <2>3, <2>5, NameAssumption DEF HasTables
  <2> QED
    BY <2>1, <2>5, <2>6 DEF CompleteInv
<1>9. ASSUME NEW p \in Openers, WriteCreatedBy(p) PROVE CompleteInv'
  <2>1. /\ db' = [db EXCEPT ![at[p]].created_by = p] /\ pc[p] = "created_by"
        /\ pc' = [pc EXCEPT ![p] = "ready"]
        /\ UNCHANGED <<path, files, init, conns>>
    BY <1>9 DEF WriteCreatedBy
  <2>2. \A f \in Files : db'[f].creator = db[f].creator /\ db'[f].core = db[f].core
    BY <2>1 DEF Contents
  <2> QED
    BY <1>b, <2>1, <2>2
<1>10. ASSUME NEW p \in Openers, Stamp(p) PROVE CompleteInv'
  <2>1. /\ db' = db \/ \E f \in conns[p] : db' = [db EXCEPT ![f].modified_at = TRUE]
        /\ pc[p] = "stamp" /\ UNCHANGED <<path, files, init>>
        /\ \A q \in Openers \ {p} : pc'[q] = pc[q] /\ conns'[q] = conns[q]
    BY <1>10 DEF Stamp
  <2>2. \A f \in Files : db'[f].creator = db[f].creator /\ db'[f].core = db[f].core
    BY <2>1 DEF Contents
  <2> QED
    BY <1>b, <2>1, <2>2
<1>11. ASSUME NEW p \in Openers, Close(p) PROVE CompleteInv'
  BY <1>11, <1>b DEF Close, diskVars
<1>12. ASSUME NEW p \in Openers, StatementFails(p) \/ Crash(p) PROVE FALSE
  BY <1>12 DEF StatementFails, Crash
<1>13. CASE UNCHANGED vars
  <2>1. pc' = pc /\ init' = init /\ conns' = conns /\ path' = path /\ files' = files /\ db' = db
    BY <1>13 DEF vars, openerVars, diskVars
  <2> QED
    BY <1>a, <2>1 DEF AtWork
<1> QED
  BY <1>1, <1>2, <1>3, <1>4, <1>5, <1>6, <1>7, <1>8, <1>9, <1>10, <1>11, <1>12, <1>13
  DEF Next, New

(* The safety part of FileBecomesStore: if nothing fails and nobody dies,  *)
(* a store is complete or somebody is completing it.  A crash at any step  *)
(* of RusqliteStore::new breaks it, since the file stays as it is.         *)
THEOREM SomeoneAlwaysCompletes ==
  ASSUME NoTruncate, ~EngineMayFail, MaxCrashes = 0
  PROVE  Spec => []SomeoneCompletes
<1>1. Init => CompleteInv
  <2> SUFFICES ASSUME Init PROVE CompleteInv
    OBVIOUS
  <2>1. \A f \in Files : db[f] = EmptyFile \/ (f = 1 /\ path = 1 /\ files = 1 /\ db[f] = EarlierStore)
    BY DEF Init
  <2>2. 1 \in Files
    BY LimitAssumption DEF Files
  <2>3. path = NoFile \/ (path = 1 /\ db[1] = EarlierStore)
    BY <2>2 DEF Init
  <2>4. path # NoFile => HasTables(path) /\ db[path].core
    BY <2>3, NameAssumption DEF HasTables, EarlierStore
  <2>5. \A f \in Files : f > files => db[f].creator = Nobody
    BY <2>1 DEF EmptyFile
  <2> QED
    BY <2>4, <2>5 DEF CompleteInv
<1>2. IInv /\ OneFileInv /\ CompleteInv /\ [Next]_vars => CompleteInv'
  BY CompleteStep
<1>3. CompleteInv => SomeoneCompletes
  <2> SUFFICES ASSUME CompleteInv, path # NoFile, ~WellFormed(path)
               PROVE  \E p \in Openers :
                        init[p] /\ path \in conns[p] /\ pc[p] \in {"open", "schema", "core"}
    BY DEF SomeoneCompletes
  <2>1. CASE ~HasTables(path)
    BY <2>1 DEF CompleteInv, AtWork
  <2>2. CASE HasTables(path) /\ ~db[path].core
    BY <2>2 DEF CompleteInv, AtWork
  <2> QED
    BY <2>1, <2>2 DEF WellFormed
<1> QED
  BY <1>1, <1>2, <1>3, OneFileInvariance, PTL DEF Spec
=============================================================================
