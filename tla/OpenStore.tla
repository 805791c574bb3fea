----------------------------- MODULE OpenStore -----------------------------
(***************************************************************************)
(* RusqliteStore::new and TursoStore::new on one path, called by several   *)
(* processes at a time: Options::check_existence, the opening of the file, *)
(* create_schema, write_metadata, update_modified_at.  Each of these is a  *)
(* step of its own, any of them may be the last one before a crash (or, in *)
(* TursoStore, before the future is dropped), and what check_existence saw *)
(* may no longer hold when the file is opened.                             *)
(*                                                                         *)
(* A path names at most one file; a file removed while it is open lives on *)
(* without a name.  Files are numbered in the order of their creation.     *)
(*                                                                         *)
(* External parts, as this code uses them.  r2d2 opens the connections of  *)
(* the pool one by one, each by the path, tries again until its timeout    *)
(* when that fails, and later replaces connections that are too old.       *)
(* SQLite creates a missing file only under SQLITE_OPEN_CREATE.  Turso     *)
(* opens the file once, creates it if it is missing, and makes all its     *)
(* connections on it.  Both run a transaction atomically or not at all.    *)
(***************************************************************************)
EXTENDS Integers

CONSTANTS Openers,        \* callers of `new`, one call each
          Earlier,        \* whoever made the file that may exist at first
          Nobody,         \* no creator, no created_by row
          Choices,        \* the options that the openers may pass
          EngineMayFail,  \* can opening or removing a file, or a statement, fail
          MaxFiles,       \* bound: files created in a behaviour
          MaxCrashes      \* bound: openers that die

\* The options, and the store that is opened with them.
Options == [write : BOOLEAN, create : BOOLEAN, exclusive : BOOLEAN,
            truncate : BOOLEAN, update_timestamp_on_write : BOOLEAN,
            backend : {"rusqlite", "turso"}]

\* exclusive() calls create(), create() and truncate() call write().
BuiltOptions ==
  {o \in Options : /\ o.exclusive => o.create
                   /\ o.create \/ o.truncate => o.write}

ASSUME ChoiceAssumption == Choices \subseteq BuiltOptions
ASSUME NameAssumption == Nobody \notin Openers /\ Earlier \notin Openers \cup {Nobody}
ASSUME LimitAssumption ==
  EngineMayFail \in BOOLEAN /\ MaxFiles \in Nat \ {0} /\ MaxCrashes \in Nat

NoFile == 0
Files == 1..MaxFiles
Names == Openers \cup {Earlier, Nobody}

VARIABLES path,     \* the file the path names, or NoFile
          files,    \* number of files created so far
          db,       \* what each file holds
          removedBy,  \* history: the opener that removed each file
          pc,       \* where each opener is in `new`
          opt,      \* its options
          init,     \* what check_existence returned
          conns,    \* the files that its connections are on
          at,       \* the file write_metadata is writing to
          before,   \* history: number of files when `new` was called
          crashes   \* number of crashes, up to MaxCrashes

diskVars == <<path, files, db, removedBy>>
openerVars == <<pc, opt, init, conns, at, before>>
vars == <<diskVars, openerVars, crashes>>

\* Who created the tables, whether the core rows of the metadata are there,
\* the row created_by, and whether there is a row modified_at.
Contents == [creator : Names, core : BOOLEAN, created_by : Names, modified_at : BOOLEAN]

EmptyFile == [creator |-> Nobody, core |-> FALSE, created_by |-> Nobody, modified_at |-> FALSE]

EarlierStore ==
  [creator |-> Earlier, core |-> TRUE, created_by |-> Earlier, modified_at |-> FALSE]

SomeOptions == CHOOSE o \in BuiltOptions : TRUE

\* Either there is no file, or a store made before.
Init ==
  /\ \/ path = NoFile /\ files = 0 /\ db = [f \in Files |-> EmptyFile]
     \/ path = 1 /\ files = 1 /\ db = [[f \in Files |-> EmptyFile] EXCEPT ![1] = EarlierStore]
  /\ removedBy = [f \in Files |-> Nobody]
  /\ pc = [p \in Openers |-> "idle"]
  /\ opt = [p \in Openers |-> SomeOptions]
  /\ init = [p \in Openers |-> FALSE]
  /\ conns = [p \in Openers |-> {}]
  /\ at = [p \in Openers |-> NoFile]
  /\ before = [p \in Openers |-> 0]
  /\ crashes = 0

Call(p, o) ==
  /\ pc[p] = "idle"
  /\ pc' = [pc EXCEPT ![p] = "check"]
  /\ opt' = [opt EXCEPT ![p] = o]
  /\ before' = [before EXCEPT ![p] = files]
  /\ UNCHANGED <<diskVars, init, conns, at, crashes>>

Goto(p, label) == pc' = [pc EXCEPT ![p] = label]

\* `new` returns an error; the store and its connections are dropped.
GiveUp(p) ==
  /\ Goto(p, "failed")
  /\ conns' = [conns EXCEPT ![p] = {}]
  /\ at' = [at EXCEPT ![p] = NoFile]

-----------------------------------------------------------------------------
(* Options::check_existence.                                               *)

\* Mutant: exclusive deletes the file instead of failing.
CheckExistenceDeleting(p) ==
  /\ pc[p] = "check"
  /\ \/ /\ path # NoFile /\ (opt[p].truncate \/ opt[p].exclusive)
        /\ Goto(p, "remove")
        /\ UNCHANGED init
     \/ /\ path # NoFile /\ ~opt[p].truncate /\ ~opt[p].exclusive
        /\ Goto(p, "open")
        /\ init' = [init EXCEPT ![p] = FALSE]
     \/ /\ path = NoFile /\ opt[p].create
        /\ Goto(p, "open")
        /\ init' = [init EXCEPT ![p] = TRUE]
  /\ UNCHANGED <<diskVars, conns, at, opt, before, crashes>>

CheckExistence(p) ==
  /\ pc[p] = "check"
  /\ \/ /\ path # NoFile /\ opt[p].truncate
        /\ Goto(p, "remove")
        /\ UNCHANGED <<init, conns, at>>
     \/ /\ path # NoFile /\ ~opt[p].truncate /\ opt[p].exclusive
        /\ GiveUp(p)
        /\ UNCHANGED init
     \/ /\ path # NoFile /\ ~opt[p].truncate /\ ~opt[p].exclusive
        /\ Goto(p, "open")
        /\ init' = [init EXCEPT ![p] = FALSE]
        /\ UNCHANGED <<conns, at>>
     \/ /\ path = NoFile /\ ~opt[p].create
        /\ GiveUp(p)
        /\ UNCHANGED init
     \/ /\ path = NoFile /\ opt[p].create
        /\ Goto(p, "open")
        /\ init' = [init EXCEPT ![p] = TRUE]
        /\ UNCHANGED <<conns, at>>
  /\ UNCHANGED <<diskVars, opt, before, crashes>>

\* Mutant: the file keeps its name.
RemoveFileKept(p) ==
  /\ pc[p] = "remove"
  /\ init' = [init EXCEPT ![p] = TRUE]
  /\ Goto(p, "open")
  /\ UNCHANGED <<diskVars, opt, conns, at, before, crashes>>

\* std::fs::remove_file(p)?: whatever file the path names by now, and an error
\* if there is none, or it cannot be removed.
RemoveFile(p) ==
  /\ pc[p] = "remove"
  /\ \/ /\ path # NoFile
        /\ path' = NoFile
        /\ removedBy' = [removedBy EXCEPT ![path] = p]
        /\ init' = [init EXCEPT ![p] = TRUE]
        /\ Goto(p, "open")
        /\ UNCHANGED <<conns, at>>
     \/ /\ path = NoFile \/ EngineMayFail
        /\ GiveUp(p)
        /\ UNCHANGED <<path, removedBy, init>>
  /\ UNCHANGED <<files, db, opt, before, crashes>>

-----------------------------------------------------------------------------
(* The pool.                                                               *)

\* Mutant: every store that writes is opened with SQLITE_OPEN_CREATE.
MayCreateToWrite(p) == opt[p].backend = "turso" \/ opt[p].write

\* The OpenFlags of the connection manager; turso::Builder is given none.
MayCreate(p) ==
  \/ opt[p].backend = "turso"
  \/ opt[p].write /\ (opt[p].create \/ opt[p].truncate)

\* Mutant: the open of a missing file succeeds.
ConnectAnyway(p) ==
  /\ conns' = [conns EXCEPT ![p] = @ \cup {path}]
  /\ UNCHANGED <<path, files>>

\* One more connection, on the file the path names, created if need be.
Connect(p) ==
  \/ /\ path # NoFile
     /\ conns' = [conns EXCEPT ![p] = @ \cup {path}]
     /\ UNCHANGED <<path, files>>
  \/ /\ path = NoFile /\ MayCreate(p)
     /\ files < MaxFiles
     /\ files' = files + 1
     /\ path' = files + 1
     /\ conns' = [conns EXCEPT ![p] = @ \cup {files + 1}]

\* r2d2::Pool::new(mgr)? opens the connections of the pool; the Database of
\* Turso opens one file ...
OpenConnection(p) ==
  /\ pc[p] = "open"
  /\ opt[p].backend = "turso" => conns[p] = {}
  /\ Connect(p)
  /\ UNCHANGED <<db, removedBy, pc, opt, init, at, before, crashes>>

\* Mutant: the outcome of check_existence is forgotten.
PoolBuiltUninitialised(p) ==
  /\ pc[p] = "open"
  /\ conns[p] # {}
  /\ Goto(p, IF opt[p].write /\ ~opt[p].update_timestamp_on_write THEN "stamp" ELSE "ready")
  /\ UNCHANGED <<diskVars, opt, init, conns, at, before, crashes>>

\* ... and they return when that is done.
PoolBuilt(p) ==
  /\ pc[p] = "open"
  /\ conns[p] # {}
  /\ Goto(p, IF init[p] THEN "schema"
             ELSE IF opt[p].write /\ ~opt[p].update_timestamp_on_write THEN "stamp"
             ELSE "ready")
  /\ UNCHANGED <<diskVars, opt, init, conns, at, before, crashes>>

\* Nothing could be opened: r2d2's timeout has passed, or Turso has failed.
PoolTimeout(p) ==
  /\ pc[p] = "open"
  /\ EngineMayFail \/ (path = NoFile /\ ~MayCreate(p))
  /\ GiveUp(p)
  /\ UNCHANGED <<diskVars, opt, init, before, crashes>>

\* A connection of a store in use is too old or broken: r2d2 opens another.
Reconnect(p) ==
  /\ pc[p] = "ready"
  /\ opt[p].backend = "rusqlite"
  /\ Connect(p)
  /\ UNCHANGED <<db, removedBy, pc, opt, init, at, before, crashes>>

-----------------------------------------------------------------------------
(* Initialisation, on any connection of the pool.                          *)

HasTables(f) == db[f].creator # Nobody

\* Mutant: CREATE TABLE IF NOT EXISTS.
CreateSchemaIfNotExists(p) ==
  /\ pc[p] = "schema"
  /\ \E f \in conns[p] : db' = IF HasTables(f) THEN db ELSE [db EXCEPT ![f].creator = p]
  /\ Goto(p, "core")
  /\ UNCHANGED <<path, files, removedBy, opt, init, conns, at, before, crashes>>

\* Mutant: DROP TABLE IF EXISTS before CREATE TABLE.
CreateSchemaAnew(p) ==
  /\ pc[p] = "schema"
  /\ \E f \in conns[p] : db' = [db EXCEPT ![f] = [EmptyFile EXCEPT !.creator = p]]
  /\ Goto(p, "core")
  /\ UNCHANGED <<path, files, removedBy, opt, init, conns, at, before, crashes>>

\* One transaction; CREATE TABLE fails if the table exists.
CreateSchema(p) ==
  /\ pc[p] = "schema"
  /\ \E f \in conns[p] :
       \/ /\ ~HasTables(f)
          /\ db' = [db EXCEPT ![f].creator = p]
          /\ Goto(p, "core")
          /\ UNCHANGED <<conns, at>>
       \/ /\ HasTables(f)
          /\ GiveUp(p)
          /\ UNCHANGED db
  /\ UNCHANGED <<path, files, removedBy, opt, init, before, crashes>>

\* Mutant: created_by is left out.
WriteCoreOnly(p) ==
  /\ pc[p] = "core"
  /\ \E f \in conns[p] : HasTables(f) /\ db' = [db EXCEPT ![f].core = TRUE]
  /\ Goto(p, "ready")
  /\ UNCHANGED <<path, files, removedBy, opt, init, conns, at, before, crashes>>

\* insert_core_metadata_query: version and flags in one statement.
WriteCore(p) ==
  /\ pc[p] = "core"
  /\ \E f \in conns[p] :
       \/ /\ HasTables(f)
          /\ db' = [db EXCEPT ![f].core = TRUE]
          /\ at' = [at EXCEPT ![p] = f]
          /\ Goto(p, "created_by")
          /\ UNCHANGED conns
       \/ /\ ~HasTables(f)
          /\ GiveUp(p)
          /\ UNCHANGED db
  /\ UNCHANGED <<path, files, removedBy, opt, init, before, crashes>>

\* maybe_insert_created_by_query, on the connection of WriteCore.  There is
\* no modified_at to write: make_metadata leaves it out.
WriteCreatedBy(p) ==
  /\ pc[p] = "created_by"
  /\ db' = [db EXCEPT ![at[p]].created_by = p]
  /\ at' = [at EXCEPT ![p] = NoFile]
  /\ Goto(p, "ready")
  /\ UNCHANGED <<path, files, removedBy, opt, init, conns, before, crashes>>

\* update_modified_at of a store that was opened, not created.
Stamp(p) ==
  /\ pc[p] = "stamp"
  /\ \E f \in conns[p] :
       \/ /\ HasTables(f)
          /\ db' = [db EXCEPT ![f].modified_at = TRUE]
          /\ Goto(p, "ready")
          /\ UNCHANGED <<conns, at>>
       \/ /\ ~HasTables(f)
          /\ GiveUp(p)
          /\ UNCHANGED db
  /\ UNCHANGED <<path, files, removedBy, opt, init, before, crashes>>

\* A statement fails: the database is busy, the disk is full.
StatementFails(p) ==
  /\ EngineMayFail
  /\ pc[p] \in {"schema", "core", "created_by", "stamp"}
  /\ GiveUp(p)
  /\ UNCHANGED <<diskVars, opt, init, before, crashes>>

\* The last handle of the store is dropped.
Close(p) ==
  /\ pc[p] = "ready"
  /\ Goto(p, "closed")
  /\ conns' = [conns EXCEPT ![p] = {}]
  /\ UNCHANGED <<diskVars, opt, init, at, before, crashes>>

\* The process of p dies, or the future of TursoStore::new is dropped.
Crash(p) ==
  /\ crashes < MaxCrashes
  /\ pc[p] \notin {"idle", "failed", "closed", "dead"}
  /\ crashes' = crashes + 1
  /\ Goto(p, "dead")
  /\ conns' = [conns EXCEPT ![p] = {}]
  /\ at' = [at EXCEPT ![p] = NoFile]
  /\ UNCHANGED <<diskVars, opt, init, before>>

\* A step of `new`.
New(p) ==
  \/ CheckExistence(p) \/ RemoveFile(p) \/ PoolBuilt(p) \/ PoolTimeout(p)
  \/ CreateSchema(p) \/ WriteCore(p) \/ WriteCreatedBy(p) \/ Stamp(p)
  \/ StatementFails(p)

Next ==
  \E p \in Openers :
    \/ \E o \in Choices : Call(p, o)
    \/ New(p) \/ OpenConnection(p) \/ Reconnect(p) \/ Close(p) \/ Crash(p)

Spec == Init /\ [][Next]_vars

\* An opener that is not dead goes on, and r2d2 keeps opening connections
\* until it has the first ones.
Fairness ==
  \A p \in Openers : WF_vars(New(p)) /\ WF_vars(OpenConnection(p))

FairSpec == Spec /\ Fairness

-----------------------------------------------------------------------------
(* Properties.                                                             *)

\* The values that each variable can have.
TypeOK ==
  /\ path \in Files \cup {NoFile}
  /\ files \in 0..MaxFiles
  /\ path <= files
  /\ db \in [Files -> Contents]
  /\ removedBy \in [Files -> Names]
  /\ pc \in [Openers -> {"idle", "check", "remove", "open", "schema", "core", "created_by",
                         "stamp", "ready", "closed", "failed", "dead"}]
  /\ opt \in [Openers -> BuiltOptions]
  /\ init \in [Openers -> BOOLEAN]
  /\ conns \in [Openers -> SUBSET (1..files)]
  /\ at \in [Openers -> Files \cup {NoFile}]
  /\ before \in [Openers -> 0..files]
  /\ crashes \in Nat

\* `new` has returned Ok.
Opened(p) == pc[p] = "ready"

\* The pool of p is on two files: the path came to name another one.
Straddles(p) == \E f, g \in conns[p] : f # g

\* However many openers race past check_existence with "there is no file",
\* one of them sets a file up: two stores that `new` reports as created
\* (rusqlite_store.rs:49-53) are never on the same file, as long as neither
\* has reconnected to another.
CreatedApart ==
  \A p, q \in Openers :
    /\ p # q
    /\ Opened(p) /\ init[p] /\ ~Straddles(p)
    /\ Opened(q) /\ init[q] /\ ~Straddles(q)
    => conns[p] \cap conns[q] = {}

\* A store that `new` reports as created is complete, unless the path came to
\* name another file during the call: its database has the tables and the
\* core metadata without which read_metadata fails, and it is its own.
CreatedIsComplete ==
  \A p \in Openers : \A f \in Files :
    Opened(p) /\ init[p] /\ conns[p] = {f} =>
      db[f].creator = p /\ db[f].core /\ db[f].created_by # Nobody

\* created_by names whoever made the tables: a row that is written names the
\* creator of the file it is written to, unless the pool of the writer is on
\* two files.
CreatedByCreator ==
  [][\A f \in Files :
       db'[f].created_by # db[f].created_by =>
         \/ db'[f].created_by = db[f].creator
         \/ \E p \in Openers : pc[p] = "created_by" /\ pc'[p] = "ready" /\ Straddles(p)]_vars

\* options.rs:67,76 "Fail if the SQLite file already exists", "If the SQLite
\* file already exists, delete it first": whatever the other openers do, a
\* store opened with either option is on files that did not exist when `new`
\* was called, and made the tables of one.
FreshMeansNew ==
  \A p \in Openers :
    Opened(p) /\ (opt[p].exclusive \/ opt[p].truncate) =>
      /\ \A f \in conns[p] : f > before[p]
      /\ \E f \in Files : f > before[p] /\ db[f].creator = p

\* A file that was set up keeps its tables, its metadata and its stamp: no
\* opener, not even one that gives up or dies halfway, undoes them.
Kept(f) ==
  /\ db[f].creator # Nobody => db'[f].creator = db[f].creator
  /\ db[f].core => db'[f].core
  /\ db[f].created_by # Nobody => db'[f].created_by # Nobody
  /\ db[f].modified_at => db'[f].modified_at

NothingUndone == [][\A f \in Files : Kept(f)]_vars

\* options.rs:80 "it will overwrite an existing one": a database loses its
\* name, and with it all that is written to it later by whoever has it open,
\* only to a call with truncate; one call takes one database at most, and
\* never one that it opens itself.
LostToTruncate ==
  \A f \in 1..files :
    f # path =>
      LET q == removedBy[f] IN
        /\ q \in Openers /\ opt[q].truncate /\ f \notin conns[q]
        /\ \A g \in Files : removedBy[g] = q => g = f

\* options.rs:51 "Allow creating an SQLite file if it does not exist": a store
\* opened without create or truncate makes no file; except that TursoStore
\* does when another opener took the file away after check_existence saw it.
CreatedAsAllowed ==
  [][files' > files =>
       \E p \in Openers :
         /\ files' \in conns'[p]
         /\ \/ opt[p].create \/ opt[p].truncate
            \/ /\ opt[p].backend = "turso" /\ ~init[p]
               /\ \E f \in Files : removedBy[f] \in Openers \ {p}]_vars

WellFormed(f) == HasTables(f) /\ db[f].core

\* `new` has returned, and has said that it created the store.
HasCreated(p) == pc[p] \in {"ready", "closed"} /\ init[p]

\* Without removals, of all the calls that found no file one at most creates
\* the store: the others come to find its tables there and return an error
\* (rusqlite_store.rs:49-53).
OneCreator == \A p, q \in Openers : HasCreated(p) /\ HasCreated(q) => p = q

\* Without removals, failures and crashes, a store that is not complete has
\* somebody at work on it: who loses the race to create it never takes the
\* task away from the winner.
SomeoneCompletes ==
  path # NoFile /\ ~WellFormed(path) =>
    \E p \in Openers : init[p] /\ path \in conns[p] /\ pc[p] \in {"open", "schema", "core"}

\* Without removals, failures and crashes, a file that exists is a complete
\* store in the end: whoever loses the race to create it leaves the winner
\* to finish.
FileBecomesStore == path # NoFile ~> path # NoFile /\ WellFormed(path)
=============================================================================
