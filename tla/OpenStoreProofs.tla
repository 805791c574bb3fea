-------------------------- MODULE OpenStoreProofs --------------------------
(***************************************************************************)
(* Proofs about OpenStore, for any number of openers with any options, any *)
(* number of files and of crashes.                                         *)
(***************************************************************************)
EXTENDS OpenStore, TLAPS

\* What a caller has done to the files of its pool by the time it is at a
\* point of `new`.
SetUp(p) ==
  /\ pc[p] \in {"core", "created_by"} \/ (pc[p] = "ready" /\ init[p]) =>
       \E f \in conns[p] : db[f].creator = p
  /\ pc[p] = "created_by" =>
       at[p] \in conns[p] /\ HasTables(at[p]) /\ db[at[p]].core
  /\ pc[p] = "ready" /\ init[p] =>
       \E f \in conns[p] : HasTables(f) /\ db[f].core /\ db[f].created_by # Nobody
  /\ pc[p] \in {"schema", "core", "created_by"} => init[p]
  /\ pc[p] = "stamp" => ~init[p]

SetUpInv == \A p \in Openers : SetUp(p)

\* From the moment the options that ask for a new file have their way, the
\* path names no file that is older than the call.
FreshInv ==
  \A p \in Openers :
    /\ pc[p] \in {"open", "schema", "core", "created_by", "stamp", "ready"}
    /\ opt[p].exclusive \/ opt[p].truncate
    => /\ init[p]
       /\ path # NoFile => path > before[p]
       /\ \A f \in conns[p] : f > before[p]

\* Until it opens the pool, and after it has left, a caller has no connection.
ConnInv ==
  \A p \in Openers :
    pc[p] \in {"idle", "check", "remove", "closed", "failed", "dead"} => conns[p] = {}

\* Who removed what: one file per caller, from the moment it has left
\* "remove", and none that it has open.  A file that has not been created, or
\* that has its name, was removed by nobody.
RemovedInv ==
  /\ \A f \in Files : f > files \/ f = path => removedBy[f] = Nobody
  /\ \A f \in 1..files : f # path =>
       removedBy[f] \in Openers /\ opt[removedBy[f]].truncate
  /\ \A f, g \in Files : removedBy[f] \in Openers /\ removedBy[g] = removedBy[f] => f = g
  /\ \A p \in Openers :
       /\ pc[p] \in {"idle", "check", "remove"} => \A f \in Files : removedBy[f] # p
       /\ pc[p] = "remove" => opt[p].truncate
       /\ \A f \in conns[p] : removedBy[f] # p

\* An opener that may not create has seen a file.
SeenInv ==
  \A p \in Openers :
    pc[p] = "open" /\ ~opt[p].create /\ ~opt[p].truncate => ~init[p] /\ files > 0

IInv == TypeOK /\ SetUpInv /\ FreshInv /\ ConnInv /\ RemovedInv /\ SeenInv

-----------------------------------------------------------------------------
LEMMA SomeOptionsType == SomeOptions \in BuiltOptions
<1> DEFINE o == [write |-> FALSE, create |-> FALSE, exclusive |-> FALSE,
                 truncate |-> FALSE, update_timestamp_on_write |-> FALSE,
                 backend |-> "turso"]
<1>1. o \in BuiltOptions
  BY DEF BuiltOptions, Options
<1> QED
  BY <1>1 DEF SomeOptions

LEMMA ContentsTypes ==
  EmptyFile \in Contents /\ EarlierStore \in Contents
BY DEF EmptyFile, EarlierStore, Contents, Names

LEMMA InitInv == Init => IInv
<1> SUFFICES ASSUME Init PROVE IInv
  OBVIOUS
<1>1. TypeOK
  <2>1. db \in [Files -> Contents]
    BY ContentsTypes DEF Init
  <2>2. path \in Files \cup {NoFile} /\ files \in 0..MaxFiles /\ path <= files
    BY LimitAssumption DEF Init, Files, NoFile
  <2>3. removedBy \in [Files -> Names]
    BY DEF Init, Names
  <2> QED
    BY <2>1, <2>2, <2>3, SomeOptionsType DEF Init, TypeOK
<1>2. SetUpInv /\ FreshInv /\ ConnInv
  BY DEF Init, SetUpInv, SetUp, FreshInv, ConnInv
<1>3. RemovedInv /\ SeenInv
  BY NameAssumption DEF Init, RemovedInv, SeenInv, Files, NoFile
<1> QED
  BY <1>1, <1>2, <1>3 DEF IInv

(* Setting up a file leaves a table of files.                              *)
LEMMA ContentsUpdate ==
  ASSUME db \in [Files -> Contents], NEW p \in Openers, NEW f
  PROVE  /\ [db EXCEPT ![f].creator = p] \in [Files -> Contents]
         /\ [db EXCEPT ![f].core = TRUE] \in [Files -> Contents]
         /\ [db EXCEPT ![f].created_by = p] \in [Files -> Contents]
         /\ [db EXCEPT ![f].modified_at = TRUE] \in [Files -> Contents]
<1>1. \A g \in Files :
        /\ [db[g] EXCEPT !.creator = p] \in Contents
        /\ [db[g] EXCEPT !.core = TRUE] \in Contents
        /\ [db[g] EXCEPT !.created_by = p] \in Contents
        /\ [db[g] EXCEPT !.modified_at = TRUE] \in Contents
  BY DEF Contents, Names
<1> QED
  BY <1>1

LEMMA DbType ==
  ASSUME TypeOK, NEW p \in Openers, CreateSchema(p) \/ WriteCore(p) \/ WriteCreatedBy(p) \/ Stamp(p)
  PROVE  db' \in [Files -> Contents]
<1> db \in [Files -> Contents]
  BY DEF TypeOK
<1>1. CASE CreateSchema(p)
  <2>1. PICK f \in conns[p] : db' = db \/ db' = [db EXCEPT ![f].creator = p]
    BY <1>1 DEF CreateSchema
  <2>2. [db EXCEPT ![f].creator = p] \in [Files -> Contents]
    BY ContentsUpdate
  <2> QED
    BY <2>1, <2>2
<1>2. CASE WriteCore(p)
  <2>1. PICK f \in conns[p] : db' = db \/ db' = [db EXCEPT ![f].core = TRUE]
    BY <1>2 DEF WriteCore
  <2>2. [db EXCEPT ![f].core = TRUE] \in [Files -> Contents]
    BY ContentsUpdate
  <2> QED
    BY <2>1, <2>2
<1>3. CASE WriteCreatedBy(p)
  <2>1. db' = [db EXCEPT ![at[p]].created_by = p]
    BY <1>3 DEF WriteCreatedBy
  <2>2. [db EXCEPT ![at[p]].created_by = p] \in [Files -> Contents]
    BY ContentsUpdate
  <2> QED
    BY <2>1, <2>2
<1>4. CASE Stamp(p)
  <2>1. PICK f \in conns[p] : db' = db \/ db' = [db EXCEPT ![f].modified_at = TRUE]
    BY <1>4 DEF Stamp
  <2>2. [db EXCEPT ![f].modified_at = TRUE] \in [Files -> Contents]
    BY ContentsUpdate
  <2> QED
    BY <2>1, <2>2
<1> QED
  BY <1>1, <1>2, <1>3, <1>4

(* A new connection is on a file that exists.                              *)
LEMMA ConnectType ==
  ASSUME TypeOK, NEW p \in Openers, Connect(p)
  PROVE  /\ path' \in Files \cup {NoFile} /\ files' \in 0..MaxFiles /\ path' <= files'
         /\ conns' \in [Openers -> SUBSET (1..files')]
         /\ before \in [Openers -> 0..files']
<1> USE LimitAssumption DEF TypeOK, Files, NoFile
<1>1. CASE path # NoFile /\ conns' = [conns EXCEPT ![p] = @ \cup {path}] /\ UNCHANGED <<path, files>>
  BY <1>1
<1>2. CASE /\ files < MaxFiles /\ files' = files + 1 /\ path' = files + 1
           /\ conns' = [conns EXCEPT ![p] = @ \cup {files + 1}]
  <2>1. files' \in 0..MaxFiles /\ path' \in Files /\ path' <= files'
    BY <1>2
  <2>2. \A q \in Openers : conns[q] \cup {files + 1} \subseteq 1..files' /\ conns[q] \subseteq 1..files'
    BY <1>2
  <2>3. \A q \in Openers : before[q] \in 0..files'
    BY <1>2
  <2> QED
    BY <1>2, <2>1, <2>2, <2>3
<1> QED
  BY <1>1, <1>2 DEF Connect

LEMMA TypeStep == TypeOK /\ [Next]_vars => TypeOK'
<1> SUFFICES ASSUME TypeOK, [Next]_vars PROVE TypeOK'
  OBVIOUS
<1> USE LimitAssumption DEF TypeOK, Goto, GiveUp, Files, NoFile, diskVars
<1>1. ASSUME NEW p \in Openers, NEW o \in Choices, Call(p, o) PROVE TypeOK'
  BY <1>1, ChoiceAssumption DEF Call
<1>2. ASSUME NEW p \in Openers, CheckExistence(p) PROVE TypeOK'
  BY <1>2 DEF CheckExistence
<1>3. ASSUME NEW p \in Openers, RemoveFile(p) PROVE TypeOK'
  <2>1. path' \in Files \cup {NoFile} /\ path' <= files'
    BY <1>3 DEF RemoveFile
  <2>2. /\ pc' = [pc EXCEPT ![p] = "open"] \/ pc' = [pc EXCEPT ![p] = "failed"]
        /\ init' = init \/ init' = [init EXCEPT ![p] = TRUE]
        /\ conns' = conns \/ conns' = [conns EXCEPT ![p] = {}]
        /\ at' = at \/ at' = [at EXCEPT ![p] = NoFile]
    BY <1>3 DEF RemoveFile
  <2>3. removedBy' \in [Files -> Names]
    BY <1>3 DEF RemoveFile, Names
  <2> QED
    BY <1>3, <2>1, <2>2, <2>3 DEF RemoveFile
<1>4. ASSUME NEW p \in Openers, OpenConnection(p) PROVE TypeOK'
  BY <1>4, ConnectType DEF OpenConnection
<1>5. ASSUME NEW p \in Openers, PoolBuilt(p) PROVE TypeOK'
  BY <1>5 DEF PoolBuilt
<1>6. ASSUME NEW p \in Openers, PoolTimeout(p) PROVE TypeOK'
  BY <1>6 DEF PoolTimeout
<1>7. ASSUME NEW p \in Openers, Reconnect(p) PROVE TypeOK'
  BY <1>7, ConnectType DEF Reconnect
<1>8. ASSUME NEW p \in Openers, CreateSchema(p) PROVE TypeOK'
  <2>1. db' \in [Files -> Contents]
    BY <1>8, DbType
  <2> QED
    BY <1>8, <2>1 DEF CreateSchema
<1>9. ASSUME NEW p \in Openers, WriteCore(p) PROVE TypeOK'
  <2>1. db' \in [Files -> Contents]
    BY <1>9, DbType
  <2> QED
    <3>1. at' \in [Openers -> Files \cup {NoFile}]
      <4>1. conns[p] \subseteq Files
        OBVIOUS
      <4>2. \E f \in Files \cup {NoFile} : at' = [at EXCEPT ![p] = f]
        BY <1>9, <4>1 DEF WriteCore
      <4> QED
        BY <4>2
    <3>2. /\ pc' = [pc EXCEPT ![p] = "created_by"] \/ pc' = [pc EXCEPT ![p] = "failed"]
          /\ conns' = conns \/ conns' = [conns EXCEPT ![p] = {}]
      BY <1>9 DEF WriteCore
    <3> QED
      BY <1>9, <2>1, <3>1, <3>2 DEF WriteCore
<1>10. ASSUME NEW p \in Openers, WriteCreatedBy(p) PROVE TypeOK'
  <2>1. db' \in [Files -> Contents]
    BY <1>10, DbType
  <2> QED
    BY <1>10, <2>1 DEF WriteCreatedBy
<1>11. ASSUME NEW p \in Openers, Stamp(p) PROVE TypeOK'
  <2>1. db' \in [Files -> Contents]
    BY <1>11, DbType
  <2> QED
    BY <1>11, <2>1 DEF Stamp
<1>12. ASSUME NEW p \in Openers, StatementFails(p) PROVE TypeOK'
  BY <1>12 DEF StatementFails
<1>13. ASSUME NEW p \in Openers, Close(p) PROVE TypeOK'
  BY <1>13 DEF Close
<1>14. ASSUME NEW p \in Openers, Crash(p) PROVE TypeOK'
  BY <1>14 DEF Crash
<1>15. CASE UNCHANGED vars
  BY <1>15 DEF vars, openerVars
<1> QED
  BY <1>1, <1>2, <1>3, <1>4, <1>5, <1>6, <1>7, <1>8, <1>9, <1>10, <1>11, <1>12,
     <1>13, <1>14, <1>15 DEF Next, New

-----------------------------------------------------------------------------
(* ConnInv and FreshInv.                                                   *)
LEMMA ConnStep == TypeOK /\ ConnInv /\ [Next]_vars => ConnInv'
<1> SUFFICES ASSUME TypeOK, ConnInv, [Next]_vars PROVE ConnInv'
  OBVIOUS
<1> USE DEF TypeOK, ConnInv, Goto, GiveUp
<1>1. ASSUME NEW p \in Openers, NEW o \in Choices, Call(p, o) PROVE ConnInv'
  BY <1>1 DEF Call
<1>2. ASSUME NEW p \in Openers, CheckExistence(p) \/ RemoveFile(p) PROVE ConnInv'
  BY <1>2 DEF CheckExistence, RemoveFile
<1>3. ASSUME NEW p \in Openers, OpenConnection(p) \/ Reconnect(p) PROVE ConnInv'
  BY <1>3 DEF OpenConnection, Reconnect, Connect
<1>4. ASSUME NEW p \in Openers, PoolBuilt(p) \/ PoolTimeout(p) PROVE ConnInv'
  BY <1>4 DEF PoolBuilt, PoolTimeout
<1>5. ASSUME NEW p \in Openers, CreateSchema(p) \/ WriteCore(p) PROVE ConnInv'
  BY <1>5 DEF CreateSchema, WriteCore
<1>6. ASSUME NEW p \in Openers, WriteCreatedBy(p) \/ Stamp(p) \/ StatementFails(p)
      PROVE  ConnInv'
  BY <1>6 DEF WriteCreatedBy, Stamp, StatementFails
<1>7. ASSUME NEW p \in Openers, Close(p) \/ Crash(p) PROVE ConnInv'
  BY <1>7 DEF Close, Crash
<1>8. CASE UNCHANGED vars
  BY <1>8 DEF vars, openerVars
<1> QED
  BY <1>1, <1>2, <1>3, <1>4, <1>5, <1>6, <1>7, <1>8 DEF Next, New

(* A file that comes to have the name is younger than every call made so   *)
(* far; and the options that ask for a new one only go on once the old one *)
(* has lost it.                                                            *)
LEMMA FreshStep == TypeOK /\ ConnInv /\ FreshInv /\ [Next]_vars => FreshInv'
<1> SUFFICES ASSUME TypeOK, ConnInv, FreshInv, [Next]_vars PROVE FreshInv'
  OBVIOUS
<1> USE DEF TypeOK, ConnInv, FreshInv, Goto, GiveUp, NoFile, Files, diskVars
<1>1. ASSUME NEW p \in Openers, NEW o \in Choices, Call(p, o) PROVE FreshInv'
  BY <1>1 DEF Call
<1>2. ASSUME NEW p \in Openers, CheckExistence(p) PROVE FreshInv'
  BY <1>2 DEF CheckExistence
<1>3. ASSUME NEW p \in Openers, RemoveFile(p) PROVE FreshInv'
  <2>1. CASE path' # path
    <3>1. /\ path # NoFile /\ path' = NoFile /\ init' = [init EXCEPT ![p] = TRUE]
          /\ UNCHANGED <<opt, before, conns>> /\ pc' = [pc EXCEPT ![p] = "open"]
          /\ conns[p] = {}
      BY <1>3, <2>1 DEF RemoveFile
    <3> QED
      BY <3>1
  <2>2. CASE path' = path
    <3>1. /\ UNCHANGED <<path, init, opt, before>> /\ pc' = [pc EXCEPT ![p] = "failed"]
          /\ conns' = [conns EXCEPT ![p] = {}]
      BY <1>3, <2>2 DEF RemoveFile
    <3> QED
      BY <3>1
  <2> QED
    BY <2>1, <2>2
<1>4. ASSUME NEW p \in Openers, OpenConnection(p) \/ Reconnect(p) PROVE FreshInv'
  <2>1. Connect(p) /\ UNCHANGED <<pc, opt, init, before>>
        /\ pc[p] \in {"open", "ready"}
    BY <1>4 DEF OpenConnection, Reconnect
  <2>2. CASE path # NoFile /\ conns' = [conns EXCEPT ![p] = @ \cup {path}] /\ UNCHANGED <<path, files>>
    BY <2>1, <2>2
  <2>3. CASE /\ path = NoFile /\ files' = files + 1 /\ path' = files + 1
             /\ conns' = [conns EXCEPT ![p] = @ \cup {files + 1}]
    <3>1. \A q \in Openers : path' > before[q]
      BY <2>3
    <3>2. \A q \in Openers : conns'[q] \subseteq conns[q] \cup {path'}
      BY <2>3
    <3> QED
      BY <2>1, <3>1, <3>2
  <2> QED
    BY <2>1, <2>2, <2>3 DEF Connect
<1>5. ASSUME NEW p \in Openers, PoolBuilt(p) \/ PoolTimeout(p) PROVE FreshInv'
  BY <1>5 DEF PoolBuilt, PoolTimeout
<1>6. ASSUME NEW p \in Openers, CreateSchema(p) PROVE FreshInv'
  <2>1. /\ UNCHANGED <<path, opt, init, before>>
        /\ conns' = conns \/ conns' = [conns EXCEPT ![p] = {}]
        /\ pc[p] = "schema"
        /\ pc' = [pc EXCEPT ![p] = "core"] \/ pc' = [pc EXCEPT ![p] = "failed"]
    BY <1>6 DEF CreateSchema
  <2> QED
    BY <2>1
<1>7. ASSUME NEW p \in Openers, WriteCore(p) PROVE FreshInv'
  BY <1>7 DEF WriteCore
<1>8. ASSUME NEW p \in Openers, WriteCreatedBy(p) \/ StatementFails(p) PROVE FreshInv'
  BY <1>8 DEF WriteCreatedBy, StatementFails
<1>9. ASSUME NEW p \in Openers, Stamp(p) PROVE FreshInv'
  <2>1. /\ UNCHANGED <<path, opt, init, before>>
        /\ conns' = conns \/ conns' = [conns EXCEPT ![p] = {}]
        /\ pc[p] = "stamp"
        /\ pc' = [pc EXCEPT ![p] = "ready"] \/ pc' = [pc EXCEPT ![p] = "failed"]
    BY <1>9 DEF Stamp
  <2> QED
    BY <2>1
<1>10. ASSUME NEW p \in Openers, Close(p) \/ Crash(p) PROVE FreshInv'
  BY <1>10 DEF Close, Crash
<1>11. CASE UNCHANGED vars
  BY <1>11 DEF vars, openerVars
<1> QED
  BY <1>1, <1>2, <1>3, <1>4, <1>5, <1>6, <1>7, <1>8, <1>9, <1>10, <1>11 DEF Next, New

-----------------------------------------------------------------------------
(* SetUpInv.  What is in a file stays (NothingUndone), and the pool of an  *)
(* opener that has not left only grows; so what an opener has done to the  *)
(* files of its pool stays too.                                            *)
LEMMA Undone ==
  ASSUME TypeOK, [Next]_vars, NEW f \in Files
  PROVE  Kept(f)
<1> USE NameAssumption DEF Kept
<1>0. db \in [Files -> Contents]
  BY DEF TypeOK
<1>1. CASE UNCHANGED db
  BY <1>1
<1>2. ASSUME NEW p \in Openers, CreateSchema(p) PROVE Kept(f)
  <2>1. db' = db \/ \E g \in conns[p] : ~HasTables(g) /\ db' = [db EXCEPT ![g].creator = p]
    BY <1>2 DEF CreateSchema
  <2> QED
    BY <1>0, <2>1 DEF HasTables, Contents
<1>3. ASSUME NEW p \in Openers, WriteCore(p) PROVE Kept(f)
  <2>1. db' = db \/ \E g \in conns[p] : db' = [db EXCEPT ![g].core = TRUE]
    BY <1>3 DEF WriteCore
  <2> QED
    BY <1>0, <2>1 DEF Contents
<1>4. ASSUME NEW p \in Openers, WriteCreatedBy(p) PROVE Kept(f)
  <2>1. db' = [db EXCEPT ![at[p]].created_by = p]
    BY <1>4 DEF WriteCreatedBy
  <2> QED
    BY <1>0, <2>1 DEF Contents
<1>5. ASSUME NEW p \in Openers, Stamp(p) PROVE Kept(f)
  <2>1. db' = db \/ \E g \in conns[p] : db' = [db EXCEPT ![g].modified_at = TRUE]
    BY <1>5 DEF Stamp
  <2> QED
    BY <1>0, <2>1 DEF Contents
<1>6. ASSUME NEW p \in Openers, NEW o \in Choices, Call(p, o) PROVE UNCHANGED db
  BY <1>6 DEF Call, diskVars
<1>7. ASSUME NEW p \in Openers,
             \/ CheckExistence(p) \/ RemoveFile(p) \/ OpenConnection(p) \/ PoolBuilt(p)
             \/ PoolTimeout(p) \/ Reconnect(p) \/ StatementFails(p) \/ Close(p) \/ Crash(p)
      PROVE  UNCHANGED db
  BY <1>7 DEF CheckExistence, RemoveFile, OpenConnection, PoolBuilt, PoolTimeout, Reconnect,
     StatementFails, Close, Crash, diskVars
<1>8. CASE UNCHANGED vars
  BY <1>8, <1>1 DEF vars, diskVars
<1> QED
  BY <1>1, <1>2, <1>3, <1>4, <1>5, <1>6, <1>7, <1>8 DEF Next, New

(* What the others do leaves SetUp(p) alone, whatever they write.          *)
LEMMA SetUpKept ==
  ASSUME TypeOK, [Next]_vars, NEW p \in Openers, SetUp(p),
         pc'[p] = pc[p], init'[p] = init[p], at'[p] = at[p], conns[p] \subseteq conns'[p]
  PROVE  SetUp(p)'
<1>1. \A f \in conns[p] : Kept(f)
  <2>1. conns[p] \subseteq Files
    BY LimitAssumption DEF TypeOK, Files
  <2> QED
    BY <2>1, Undone
<1>2. \A f \in conns[p] : db[f].creator = p => db'[f].creator = p
  BY <1>1, NameAssumption DEF Kept
<1>3. \A f \in conns[p] : HasTables(f) => HasTables(f)'
  BY <1>1 DEF Kept, HasTables
<1>4. \A f \in conns[p] : (db[f].core => db'[f].core)
                          /\ (db[f].created_by # Nobody => db'[f].created_by # Nobody)
  BY <1>1 DEF Kept
<1> QED
  BY <1>2, <1>3, <1>4 DEF SetUp

LEMMA SetUpStep == TypeOK /\ ConnInv /\ SetUpInv /\ [Next]_vars => SetUpInv'
<1> SUFFICES ASSUME TypeOK, ConnInv, SetUpInv, [Next]_vars, NEW q \in Openers PROVE SetUp(q)'
  BY DEF SetUpInv
<1>0. SetUp(q)
  BY DEF SetUpInv
<1> USE DEF Goto, GiveUp
<1>1. ASSUME pc'[q] = pc[q], init'[q] = init[q], at'[q] = at[q], conns[q] \subseteq conns'[q]
      PROVE  SetUp(q)'
  BY <1>0, <1>1, SetUpKept
<1>2. ASSUME pc'[q] \in {"idle", "check", "remove", "open", "closed", "failed", "dead"}
      PROVE  SetUp(q)'
  BY <1>2 DEF SetUp
<1>3. ASSUME NEW p \in Openers, NEW o \in Choices, Call(p, o) PROVE SetUp(q)'
  BY <1>1, <1>2, <1>3 DEF Call, TypeOK
<1>4. ASSUME NEW p \in Openers,
             CheckExistence(p) \/ RemoveFile(p) \/ PoolTimeout(p) \/ StatementFails(p)
             \/ Close(p) \/ Crash(p)
      PROVE  SetUp(q)'
  <2>1. CASE q = p
    BY <1>2, <1>4, <2>1 DEF CheckExistence, RemoveFile, PoolTimeout, StatementFails, Close, Crash,
       TypeOK
  <2>2. CASE q # p
    BY <1>1, <1>4, <2>2 DEF CheckExistence, RemoveFile, PoolTimeout, StatementFails, Close, Crash,
       TypeOK
  <2> QED
    BY <2>1, <2>2
<1>5. ASSUME NEW p \in Openers, OpenConnection(p) \/ Reconnect(p) PROVE SetUp(q)'
  <2>1. UNCHANGED <<pc, init, at>> /\ conns[q] \subseteq conns'[q]
    BY <1>5 DEF OpenConnection, Reconnect, Connect, TypeOK
  <2> QED
    BY <1>1, <2>1
<1>6. ASSUME NEW p \in Openers, PoolBuilt(p) PROVE SetUp(q)'
  <2>1. CASE q = p
    <3>1. \/ pc'[q] = "schema" /\ init'[q]
          \/ pc'[q] = "stamp" /\ ~init'[q]
          \/ pc'[q] = "ready" /\ ~init'[q]
      BY <1>6, <2>1 DEF PoolBuilt, TypeOK
    <3> QED
      BY <3>1 DEF SetUp
  <2>2. CASE q # p
    BY <1>1, <1>6, <2>2 DEF PoolBuilt, TypeOK
  <2> QED
    BY <2>1, <2>2
<1>7. ASSUME NEW p \in Openers, CreateSchema(p) PROVE SetUp(q)'
  <2>1. CASE q = p
    <3>1. PICK f \in conns[p] :
            \/ /\ db' = [db EXCEPT ![f].creator = p]
               /\ pc' = [pc EXCEPT ![p] = "core"] /\ UNCHANGED conns
            \/ pc' = [pc EXCEPT ![p] = "failed"]
      BY <1>7 DEF CreateSchema
    <3>2. CASE pc' = [pc EXCEPT ![p] = "failed"]
      BY <1>2, <2>1, <3>2 DEF TypeOK
    <3>3. CASE db' = [db EXCEPT ![f].creator = p] /\ pc' = [pc EXCEPT ![p] = "core"] /\ UNCHANGED conns
      <4>1. f \in Files
        BY LimitAssumption DEF TypeOK, Files
      <4>2. db'[f].creator = p
        BY <3>3, <4>1 DEF TypeOK, Contents
      <4>3. pc'[q] = "core" /\ init'[q] = init[q] /\ pc[q] = "schema"
        BY <1>7, <2>1, <3>3 DEF TypeOK, CreateSchema
      <4> QED
        BY <1>0, <2>1, <3>3, <4>2, <4>3 DEF SetUp
    <3> QED
      BY <3>1, <3>2, <3>3
  <2>2. CASE q # p
    BY <1>1, <1>7, <2>2 DEF CreateSchema, TypeOK
  <2> QED
    BY <2>1, <2>2
<1>8. ASSUME NEW p \in Openers, WriteCore(p) PROVE SetUp(q)'
  <2>1. CASE q = p
    <3>1. PICK f \in conns[p] :
            \/ /\ HasTables(f) /\ db' = [db EXCEPT ![f].core = TRUE]
               /\ at' = [at EXCEPT ![p] = f]
               /\ pc' = [pc EXCEPT ![p] = "created_by"] /\ UNCHANGED conns
            \/ pc' = [pc EXCEPT ![p] = "failed"]
      BY <1>8 DEF WriteCore
    <3>2. CASE pc' = [pc EXCEPT ![p] = "failed"]
      BY <1>2, <2>1, <3>2 DEF TypeOK
    <3>3. CASE /\ HasTables(f) /\ db' = [db EXCEPT ![f].core = TRUE]
               /\ at' = [at EXCEPT ![p] = f]
               /\ pc' = [pc EXCEPT ![p] = "created_by"] /\ UNCHANGED conns
      <4>1. f \in Files /\ conns[p] \subseteq Files
        BY LimitAssumption DEF TypeOK, Files
      <4>2. db'[f].core /\ \A g \in Files : db'[g].creator = db[g].creator
        BY <3>3, <4>1 DEF TypeOK, Contents
      <4>3. pc'[q] = "created_by" /\ init'[q] = init[q] /\ pc[q] = "core" /\ at'[q] = f
        BY <1>8, <2>1, <3>3 DEF TypeOK, WriteCore
      <4>4. HasTables(f)'
        BY <3>3, <4>1, <4>2 DEF HasTables
      <4> QED
        BY <1>0, <2>1, <3>3, <4>1, <4>2, <4>3, <4>4 DEF SetUp
    <3> QED
      BY <3>1, <3>2, <3>3
  <2>2. CASE q # p
    BY <1>1, <1>8, <2>2 DEF WriteCore, TypeOK
  <2> QED
    BY <2>1, <2>2
<1>9. ASSUME NEW p \in Openers, WriteCreatedBy(p) PROVE SetUp(q)'
  <2>1. CASE q = p
    <3>1. /\ db' = [db EXCEPT ![at[p]].created_by = p] /\ pc[p] = "created_by"
          /\ pc' = [pc EXCEPT ![p] = "ready"] /\ UNCHANGED <<conns, init>>
      BY <1>9 DEF WriteCreatedBy
    <3>2. at[p] \in conns[p] /\ HasTables(at[p]) /\ db[at[p]].core
      BY <1>0, <2>1, <3>1 DEF SetUp
    <3>3. conns[p] \subseteq Files
      BY LimitAssumption DEF TypeOK, Files
    <3>4. /\ db'[at[p]].created_by = p /\ db'[at[p]].core
          /\ \A g \in Files : db'[g].creator = db[g].creator
      BY <3>1, <3>2, <3>3 DEF TypeOK, Contents
    <3>5. HasTables(at[p])' <=> db'[at'[p]].creator # Nobody
      BY DEF HasTables
    <3>6. \E f \in conns'[p] : HasTables(f)' /\ db'[f].core /\ db'[f].created_by # Nobody
      BY <3>1, <3>2, <3>3, <3>4, NameAssumption DEF HasTables
    <3>7. \E f \in conns'[p] : db'[f].creator = p
      BY <1>0, <2>1, <3>1, <3>3, <3>4 DEF SetUp
    <3>8. pc'[p] = "ready"
      BY <3>1 DEF TypeOK
    <3> QED
      BY <2>1, <3>6, <3>7, <3>8 DEF SetUp
  <2>2. CASE q # p
    BY <1>1, <1>9, <2>2 DEF WriteCreatedBy, TypeOK
  <2> QED
    BY <2>1, <2>2
<1>10. ASSUME NEW p \in Openers, Stamp(p) PROVE SetUp(q)'
  <2>1. CASE q = p
    <3>1. pc'[q] \in {"ready", "failed"} /\ init'[q] = init[q] /\ pc[q] = "stamp"
      BY <1>10, <2>1 DEF Stamp, TypeOK
    <3> QED
      BY <1>0, <1>2, <3>1 DEF SetUp
  <2>2. CASE q # p
    BY <1>1, <1>10, <2>2 DEF Stamp, TypeOK
  <2> QED
    BY <2>1, <2>2
<1>11. CASE UNCHANGED vars
  BY <1>1, <1>11 DEF vars, openerVars
<1> QED
  BY <1>3, <1>4, <1>5, <1>6, <1>7, <1>8, <1>9, <1>10, <1>11 DEF Next, New

-----------------------------------------------------------------------------
(* RemovedInv and SeenInv.                                                 *)
LEMMA RemovedStep == TypeOK /\ ConnInv /\ RemovedInv /\ [Next]_vars => RemovedInv'
<1> SUFFICES ASSUME TypeOK, ConnInv, RemovedInv, [Next]_vars PROVE RemovedInv'
  OBVIOUS
<1> USE NameAssumption, LimitAssumption
    DEF TypeOK, RemovedInv, Goto, GiveUp, NoFile, Files, Names, diskVars
<1>1. ASSUME NEW p \in Openers, NEW o \in Choices, Call(p, o) PROVE RemovedInv'
  BY <1>1 DEF Call
<1>2. ASSUME NEW p \in Openers, CheckExistence(p) PROVE RemovedInv'
  <2>1. /\ UNCHANGED <<path, files, removedBy, opt>> /\ pc[p] = "check"
        /\ \A q \in Openers \ {p} : pc'[q] = pc[q] /\ conns'[q] = conns[q]
        /\ conns'[p] \subseteq conns[p]
        /\ pc'[p] \in {"remove", "open", "failed"}
        /\ pc'[p] = "remove" => opt[p].truncate
    BY <1>2 DEF CheckExistence
  <2>2. \A q \in Openers :
          /\ pc'[q] \in {"idle", "check", "remove"} => \A f \in Files : removedBy[f] # q
          /\ pc'[q] = "remove" => opt[q].truncate
          /\ \A f \in conns'[q] : removedBy[f] # q
    BY <2>1
  <2> QED
    BY <2>1, <2>2
<1>3. ASSUME NEW p \in Openers, RemoveFile(p) PROVE RemovedInv'
  <2>1. CASE path' # path
    <3>1. /\ path # NoFile /\ path' = NoFile /\ removedBy' = [removedBy EXCEPT ![path] = p]
          /\ UNCHANGED <<opt, conns, files>> /\ pc' = [pc EXCEPT ![p] = "open"]
          /\ pc[p] = "remove"
      BY <1>3, <2>1 DEF RemoveFile
    <3>2. path \in Files /\ path <= files /\ conns[p] = {}
      BY <3>1 DEF ConnInv
    <3>3. /\ removedBy'[path] = p
          /\ \A f \in Files : f # path => removedBy'[f] = removedBy[f]
      BY <3>1, <3>2
    <3>4. \A q \in Openers : q # p => \A f \in conns[q] : removedBy'[f] # q
      BY <3>2, <3>3
    <3>5. \A f, g \in Files : removedBy'[f] \in Openers /\ removedBy'[g] = removedBy'[f] => f = g
      BY <3>1, <3>3
    <3>6. \A f \in 1..files : removedBy'[f] \in Openers /\ opt[removedBy'[f]].truncate
      BY <3>1, <3>2, <3>3
    <3> QED
      BY <3>1, <3>2, <3>3, <3>4, <3>5, <3>6
  <2>2. CASE path' = path
    <3>1. /\ UNCHANGED <<path, removedBy, opt, files>> /\ pc' = [pc EXCEPT ![p] = "failed"]
          /\ conns' = [conns EXCEPT ![p] = {}]
      BY <1>3, <2>2 DEF RemoveFile
    <3> QED
      BY <3>1
  <2> QED
    BY <2>1, <2>2
<1>4. ASSUME NEW p \in Openers, OpenConnection(p) \/ Reconnect(p) PROVE RemovedInv'
  <2>1. Connect(p) /\ UNCHANGED <<pc, opt, removedBy>> /\ pc[p] \in {"open", "ready"}
    BY <1>4 DEF OpenConnection, Reconnect
  <2>2. CASE path # NoFile /\ conns' = [conns EXCEPT ![p] = @ \cup {path}] /\ UNCHANGED <<path, files>>
    BY <2>1, <2>2
  <2>3. CASE /\ path = NoFile /\ files < MaxFiles /\ files' = files + 1 /\ path' = files + 1
             /\ conns' = [conns EXCEPT ![p] = @ \cup {files + 1}]
    <3>1. files + 1 \in Files /\ removedBy[files + 1] = Nobody
      BY <2>3
    <3>2. \A f \in Files : f > files' \/ f = path' => removedBy[f] = Nobody
      BY <2>3, <3>1
    <3>3. \A f \in 1..files' : f # path' => f \in 1..files /\ f # path
      BY <2>3
    <3>4. \A q \in Openers : \A f \in conns'[q] : f \in conns[q] \/ f = files + 1
      BY <2>3
    <3> QED
      BY <2>1, <3>1, <3>2, <3>3, <3>4
  <2> QED
    BY <2>1, <2>2, <2>3 DEF Connect
<1>5. ASSUME NEW p \in Openers,
             UNCHANGED <<path, files, removedBy, opt>>,
             conns' = conns \/ conns' = [conns EXCEPT ![p] = {}],
             NEW l \in {"schema", "stamp", "ready", "core", "created_by", "failed", "closed", "dead"},
             pc' = [pc EXCEPT ![p] = l]
      PROVE  RemovedInv'
  <2>0. conns \in [Openers -> SUBSET (1..files)]
    OBVIOUS
  <2>1. \A q \in Openers : conns'[q] \subseteq conns[q]
    <3> HIDE DEF TypeOK, RemovedInv
    <3>1. CASE conns' = conns
      BY <3>1
    <3>2. CASE conns' = [conns EXCEPT ![p] = {}]
      BY <2>0, <3>2
    <3> QED
      BY <1>5, <3>1, <3>2
  <2>2. \A q \in Openers : pc'[q] \in {"idle", "check", "remove"} => pc'[q] = pc[q]
    BY <1>5
  <2>3. \A q \in Openers :
          /\ pc'[q] \in {"idle", "check", "remove"} => \A f \in Files : removedBy[f] # q
          /\ pc'[q] = "remove" => opt[q].truncate
          /\ \A f \in conns'[q] : removedBy[f] # q
    BY <2>1, <2>2
  <2> QED
    BY <1>5, <2>3
<1>6. ASSUME NEW p \in Openers, CreateSchema(p) \/ WriteCore(p) \/ Stamp(p) PROVE RemovedInv'
  BY <1>5, <1>6 DEF CreateSchema, WriteCore, Stamp
<1>7. ASSUME NEW p \in Openers,
             PoolBuilt(p) \/ PoolTimeout(p) \/ WriteCreatedBy(p) \/ StatementFails(p)
      PROVE  RemovedInv'
  BY <1>5, <1>7 DEF PoolBuilt, PoolTimeout, WriteCreatedBy, StatementFails
<1>8. ASSUME NEW p \in Openers, Close(p) \/ Crash(p) PROVE RemovedInv'
  BY <1>5, <1>8 DEF Close, Crash
<1>9. CASE UNCHANGED vars
  BY <1>9 DEF vars, openerVars
<1> QED
  BY <1>1, <1>2, <1>3, <1>4, <1>6, <1>7, <1>8, <1>9 DEF Next, New

LEMMA SeenStep == TypeOK /\ RemovedInv /\ SeenInv /\ [Next]_vars => SeenInv'
<1> SUFFICES ASSUME TypeOK, RemovedInv, SeenInv, [Next]_vars PROVE SeenInv'
  OBVIOUS
<1> USE DEF TypeOK, SeenInv, Goto, GiveUp, NoFile, Files, diskVars
<1>1. ASSUME NEW p \in Openers, NEW o \in Choices, Call(p, o) PROVE SeenInv'
  BY <1>1 DEF Call
<1>2. ASSUME NEW p \in Openers, CheckExistence(p) PROVE SeenInv'
  <2>1. /\ UNCHANGED <<path, files, opt>>
        /\ \/ /\ path # NoFile
              /\ pc' = [pc EXCEPT ![p] = "open"] /\ init' = [init EXCEPT ![p] = FALSE]
           \/ /\ opt[p].create
              /\ pc' = [pc EXCEPT ![p] = "open"] /\ init' = [init EXCEPT ![p] = TRUE]
           \/ UNCHANGED init /\ \E l \in {"remove", "failed"} : pc' = [pc EXCEPT ![p] = l]
    BY <1>2 DEF CheckExistence
  <2>2. path # NoFile => files > 0
    BY LimitAssumption
  <2>3. \A q \in Openers : q # p => pc'[q] = pc[q] /\ init'[q] = init[q]
    BY <2>1
  <2>4. pc'[p] = "open" /\ ~opt[p].create => ~init'[p] /\ files > 0
    BY <2>1, <2>2
  <2> QED
    BY <2>1, <2>3, <2>4
<1>3. ASSUME NEW p \in Openers, RemoveFile(p) PROVE SeenInv'
  <2>1. pc[p] = "remove" /\ opt[p].truncate
    BY <1>3 DEF RemoveFile, RemovedInv
  <2>2. /\ UNCHANGED <<files, opt>>
        /\ pc' = [pc EXCEPT ![p] = "open"] \/ pc' = [pc EXCEPT ![p] = "failed"]
        /\ init' = init \/ init' = [init EXCEPT ![p] = TRUE]
    BY <1>3 DEF RemoveFile
  <2> QED
    BY <2>1, <2>2
<1>4. ASSUME NEW p \in Openers, OpenConnection(p) \/ Reconnect(p) PROVE SeenInv'
  <2>1. UNCHANGED <<pc, opt, init>> /\ files' \in {files, files + 1}
    BY <1>4 DEF OpenConnection, Reconnect, Connect
  <2> QED
    BY <2>1, LimitAssumption
<1>5. ASSUME NEW p \in Openers,
             PoolBuilt(p) \/ PoolTimeout(p) \/ CreateSchema(p) \/ WriteCore(p)
             \/ WriteCreatedBy(p) \/ Stamp(p) \/ StatementFails(p) \/ Close(p) \/ Crash(p)
      PROVE  SeenInv'
  <2>1. /\ UNCHANGED <<files, opt, init>>
        /\ \E l \in {"schema", "stamp", "ready", "core", "created_by", "failed", "closed", "dead"} :
             pc' = [pc EXCEPT ![p] = l]
    BY <1>5 DEF PoolBuilt, PoolTimeout, CreateSchema, WriteCore, WriteCreatedBy, Stamp,
       StatementFails, Close, Crash
  <2> QED
    BY <2>1
<1>6. CASE UNCHANGED vars
  BY <1>6 DEF vars, openerVars
<1> QED
  BY <1>1, <1>2, <1>3, <1>4, <1>5, <1>6 DEF Next, New

-----------------------------------------------------------------------------
LEMMA Invariance == Spec => []IInv
<1>1. Init => IInv
  BY InitInv
<1>2. IInv /\ [Next]_vars => IInv'
  BY TypeStep, ConnStep, FreshStep, SetUpStep, RemovedStep, SeenStep DEF IInv
<1> QED
  BY <1>1, <1>2, PTL DEF Spec

(* Every variable keeps its type.                                          *)
THEOREM TypeCorrect == Spec => []TypeOK
BY Invariance, PTL DEF IInv

(* check_existence is no more than a hint: two openers may both be told    *)
(* that there is no file, but two stores that `new` reports as created are *)
(* never on the same one.  Each made the tables of a file   *)
(* of its pool, and a file's tables are made once.                         *)
THEOREM CreatedAreApart == Spec => []CreatedApart
<1>1. IInv => CreatedApart
  <2> SUFFICES ASSUME IInv, NEW p \in Openers, NEW q \in Openers, p # q,
                      Opened(p), init[p], ~Straddles(p),
                      Opened(q), init[q], ~Straddles(q)
               PROVE  conns[p] \cap conns[q] = {}
    BY DEF CreatedApart
  <2>1. PICK f \in conns[p] : db[f].creator = p
    BY DEF IInv, SetUpInv, SetUp, Opened
  <2>2. PICK g \in conns[q] : db[g].creator = q
    BY DEF IInv, SetUpInv, SetUp, Opened
  <2>3. conns[p] = {f} /\ conns[q] = {g} /\ f # g
    BY <2>1, <2>2 DEF Straddles
  <2> QED
    BY <2>3
<1> QED
  BY <1>1, Invariance, PTL

(* A store that RusqliteStore::new reports as created, and whose pool is   *)
(* on one file, has the tables, the core metadata and a creator's name     *)
(* there, and the tables are its own.                                      *)
THEOREM CreatedAreComplete == Spec => []CreatedIsComplete
<1>1. IInv => CreatedIsComplete
  BY DEF IInv, SetUpInv, SetUp, Opened, CreatedIsComplete
<1> QED
  BY <1>1, Invariance, PTL

(* exclusive() and truncate() mean a new file, also when check_existence   *)
(* and remove_file raced with other openers: a store opened with either is *)
(* on no file that existed when RusqliteStore::new was called.             *)
THEOREM FreshAreNew == Spec => []FreshMeansNew
<1>1. IInv => FreshMeansNew
  <2> SUFFICES ASSUME IInv, NEW p \in Openers, Opened(p),
                      opt[p].exclusive \/ opt[p].truncate
               PROVE  /\ \A f \in conns[p] : f > before[p]
                      /\ \E f \in Files : f > before[p] /\ db[f].creator = p
    BY DEF FreshMeansNew
  <2>1. init[p] /\ \A f \in conns[p] : f > before[p]
    BY DEF IInv, FreshInv, Opened
  <2>2. \E f \in conns[p] : db[f].creator = p
    BY <2>1 DEF IInv, SetUpInv, SetUp, Opened
  <2>3. conns[p] \subseteq Files
    BY LimitAssumption DEF IInv, TypeOK, Files
  <2> QED
    BY <2>1, <2>2, <2>3
<1> QED
  BY <1>1, Invariance, PTL

(* No opener undoes what another has set up, however it ends.              *)
THEOREM NothingIsUndone == Spec => NothingUndone
<1>1. IInv /\ [Next]_vars => [\A f \in Files : Kept(f)]_vars
  BY Undone DEF IInv
<1> QED
  BY <1>1, Invariance, PTL DEF Spec, NothingUndone

(* created_by names the creator of the file it is written to, unless the   *)
(* writer's pool is on two files.                                          *)
THEOREM CreatedByNamesCreator == Spec => CreatedByCreator
<1> DEFINE Good == \A f \in Files :
             db'[f].created_by # db[f].created_by =>
               \/ db'[f].created_by = db[f].creator
               \/ \E p \in Openers : pc[p] = "created_by" /\ pc'[p] = "ready" /\ Straddles(p)
<1>1. IInv /\ [Next]_vars => [Good]_vars
  <2> SUFFICES ASSUME IInv, Next, NEW f \in Files, db'[f].created_by # db[f].created_by
               PROVE  \/ db'[f].created_by = db[f].creator
                      \/ \E p \in Openers :
                           pc[p] = "created_by" /\ pc'[p] = "ready" /\ Straddles(p)
    OBVIOUS
  <2> USE DEF IInv, TypeOK, Contents
  <2>1. ASSUME NEW p \in Openers, WriteCreatedBy(p)
        PROVE  \/ db'[f].created_by = db[f].creator
               \/ pc[p] = "created_by" /\ pc'[p] = "ready" /\ Straddles(p)
    <3>1. /\ db' = [db EXCEPT ![at[p]].created_by = p]
          /\ pc[p] = "created_by" /\ pc'[p] = "ready"
      BY <2>1 DEF WriteCreatedBy, Goto
    <3>2. f = at[p] /\ db'[f].created_by = p
      BY <3>1
    <3>3. f \in conns[p] /\ \E g \in conns[p] : db[g].creator = p
      BY <3>1, <3>2 DEF SetUpInv, SetUp
    <3> QED
      BY <3>1, <3>2, <3>3 DEF Straddles
  <2>2. ASSUME NEW p \in Openers, CreateSchema(p) \/ WriteCore(p) \/ Stamp(p) PROVE FALSE
    <3>1. \/ db' = db
          \/ \E g \in conns[p] : \/ db' = [db EXCEPT ![g].creator = p]
                                 \/ db' = [db EXCEPT ![g].core = TRUE]
                                 \/ db' = [db EXCEPT ![g].modified_at = TRUE]
      BY <2>2 DEF CreateSchema, WriteCore, Stamp
    <3> QED
      BY <3>1
  <2>3. ASSUME NEW p \in Openers,
               \/ CheckExistence(p) \/ RemoveFile(p) \/ OpenConnection(p) \/ PoolBuilt(p)
               \/ PoolTimeout(p) \/ Reconnect(p) \/ StatementFails(p) \/ Close(p) \/ Crash(p)
               \/ \E o \in Choices : Call(p, o)
        PROVE  FALSE
    BY <2>3 DEF CheckExistence, RemoveFile, OpenConnection, PoolBuilt, PoolTimeout, Reconnect,
       StatementFails, Close, Crash, Call, diskVars
  <2> QED
    BY <2>1, <2>2, <2>3 DEF Next, New
<1> QED
  BY <1>1, Invariance, PTL DEF Spec, CreatedByCreator

(* Without truncate no database is lost: however openers race between      *)
(* is_file and remove_file, each truncating call takes at most one file,   *)
(* never one it has open, and no other call takes any.                     *)
THEOREM LostOnlyToTruncate == Spec => []LostToTruncate
<1>1. IInv => LostToTruncate
  <2> SUFFICES ASSUME IInv, NEW f \in 1..files, f # path
               PROVE  /\ removedBy[f] \in Openers /\ opt[removedBy[f]].truncate
                      /\ f \notin conns[removedBy[f]]
                      /\ \A g \in Files : removedBy[g] = removedBy[f] => g = f
    BY DEF LostToTruncate
  <2>1. f \in Files
    BY LimitAssumption DEF IInv, TypeOK, Files
  <2> QED
    BY <2>1 DEF IInv, RemovedInv
<1> QED
  BY <1>1, Invariance, PTL

(* A missing file is created only for those who asked for it, except by a  *)
(* TursoStore whose file another opener removed during its call.           *)
THEOREM CreatedIsAllowed == Spec => CreatedAsAllowed
<1> DEFINE Good == files' > files =>
             \E p \in Openers :
               /\ files' \in conns'[p]
               /\ \/ opt[p].create \/ opt[p].truncate
                  \/ /\ opt[p].backend = "turso" /\ ~init[p]
                     /\ \E f \in Files : removedBy[f] \in Openers \ {p}
<1>1. IInv /\ [Next]_vars => [Good]_vars
  <2> SUFFICES ASSUME IInv, Next, files' > files
               PROVE  \E p \in Openers :
                        /\ files' \in conns'[p]
                        /\ \/ opt[p].create \/ opt[p].truncate
                           \/ /\ opt[p].backend = "turso" /\ ~init[p]
                              /\ \E f \in Files : removedBy[f] \in Openers \ {p}
    OBVIOUS
  <2> USE DEF IInv, TypeOK
  <2>1. ASSUME NEW p \in Openers, OpenConnection(p) \/ Reconnect(p)
        PROVE  /\ files' \in conns'[p]
               /\ \/ opt[p].create \/ opt[p].truncate
                  \/ /\ opt[p].backend = "turso" /\ ~init[p]
                     /\ \E f \in Files : removedBy[f] \in Openers \ {p}
    <3>1. path = NoFile /\ MayCreate(p) /\ files' \in conns'[p]
      BY <2>1, LimitAssumption DEF OpenConnection, Reconnect, Connect
    <3>2. CASE opt[p].create \/ opt[p].truncate
      BY <3>1, <3>2
    <3>3. CASE ~opt[p].create /\ ~opt[p].truncate
      <4>1. opt[p].backend = "turso" /\ pc[p] = "open"
        BY <2>1, <3>1, <3>3 DEF MayCreate, OpenConnection, Reconnect
      <4>2. ~init[p] /\ files > 0
        BY <3>3, <4>1 DEF SeenInv
      <4>3. files \in 1..files /\ files \in Files /\ files # path
        BY <3>1, <4>2, LimitAssumption DEF NoFile, Files
      <4>4. removedBy[files] \in Openers /\ opt[removedBy[files]].truncate
        BY <4>3 DEF RemovedInv
      <4> QED
        BY <3>1, <3>3, <4>1, <4>2, <4>3, <4>4
    <3> QED
      BY <3>2, <3>3
  <2>2. ASSUME NEW p \in Openers, NEW o \in Choices, Call(p, o) PROVE FALSE
    BY <2>2, LimitAssumption DEF Call, diskVars
  <2>3. ASSUME NEW p \in Openers,
               \/ CheckExistence(p) \/ RemoveFile(p) \/ PoolBuilt(p) \/ PoolTimeout(p)
               \/ CreateSchema(p) \/ WriteCore(p) \/ WriteCreatedBy(p) \/ Stamp(p)
               \/ StatementFails(p) \/ Close(p) \/ Crash(p)
        PROVE  FALSE
    <3>1. files' = files
      BY <2>3 DEF CheckExistence, RemoveFile, PoolBuilt, PoolTimeout, CreateSchema, WriteCore,
         WriteCreatedBy, Stamp, StatementFails, Close, Crash, diskVars
    <3> QED
      BY <3>1, LimitAssumption
  <2> QED
    BY <2>1, <2>2, <2>3 DEF Next, New
<1> QED
  BY <1>1, Invariance, PTL DEF Spec, CreatedAsAllowed
=============================================================================
