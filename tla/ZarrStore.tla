----------------------------- MODULE ZarrStore -----------------------------
(***************************************************************************)
(* What a zarrs store promises to its concurrent clients, whatever backend *)
(* is underneath: a map from keys to values in which every request takes   *)
(* effect at one instant between its call and its return, at most once.    *)
(* A request that returns Ok took effect.  A request that returns an error *)
(* may or may not have taken effect, but never will after the return; nor  *)
(* will one that its client drops.  A crash forgets the requests in flight *)
(* and nothing else.                                                       *)
(*                                                                         *)
(* list_dir promises less than the others: the rows it returns with Ok are *)
(* those of one instant, but some may be missing.                          *)
(*                                                                         *)
(* RusqliteStore and TursoStore are shown to implement this module.        *)
(***************************************************************************)
EXTENDS Naturals, StoreRequests

CONSTANTS Clients,   \* callers of the store
          NoRequest  \* the request of an idle client

VARIABLES data,       \* the map itself
          req,        \* the request of each client
          phase,      \* how far each request has got
          got,        \* what each request has read
          drops       \* number of cancellations and crashes so far

vars == <<data, req, phase, got, drops>>

Init ==
  /\ data = [k \in Keys |-> Absent]
  /\ req = [c \in Clients |-> NoRequest]
  /\ phase = [c \in Clients |-> "idle"]
  /\ got = [c \in Clients |-> Nothing]
  /\ drops = 0

Invoke(c, r) ==
  /\ phase[c] = "idle"
  /\ phase' = [phase EXCEPT ![c] = "pending"]
  /\ req' = [req EXCEPT ![c] = r]
  /\ UNCHANGED <<data, got, drops>>

TakeEffect(c) ==
  /\ phase[c] = "pending"
  /\ data' = Effect(data, req[c])
  /\ got' = [got EXCEPT ![c] = Answer(data, req[c])]
  /\ phase' = [phase EXCEPT ![c] = "applied"]
  /\ UNCHANGED <<req, drops>>

ListPart(c) ==
  /\ phase[c] = "pending"
  /\ req[c].op = "list_dir"
  /\ \E part \in PartialAnswers(data, req[c]) : got' = [got EXCEPT ![c] = part]
  /\ phase' = [phase EXCEPT ![c] = "applied"]
  /\ UNCHANGED <<data, req, drops>>

Fail(c) ==
  /\ phase[c] \in {"pending", "applied"}
  /\ phase' = [phase EXCEPT ![c] = "failed"]
  /\ UNCHANGED <<data, req, got, drops>>

Return(c) ==
  /\ phase[c] \in {"applied", "failed"}
  /\ phase' = [phase EXCEPT ![c] = "idle"]
  /\ req' = [req EXCEPT ![c] = NoRequest]
  /\ got' = [got EXCEPT ![c] = Nothing]
  /\ UNCHANGED <<data, drops>>

\* A client drops its request without waiting for the return.
Cancel(c) ==
  /\ phase[c] # "idle"
  /\ phase' = [phase EXCEPT ![c] = "idle"]
  /\ req' = [req EXCEPT ![c] = NoRequest]
  /\ got' = [got EXCEPT ![c] = Nothing]
  /\ drops' = drops + 1
  /\ UNCHANGED data

Crash ==
  /\ phase' = [c \in Clients |-> "idle"]
  /\ req' = [c \in Clients |-> NoRequest]
  /\ got' = [c \in Clients |-> Nothing]
  /\ drops' = drops + 1
  /\ UNCHANGED data

Next ==
  \/ \E c \in Clients :
       \/ \E r \in Requests : Invoke(c, r)
       \/ TakeEffect(c)
       \/ ListPart(c)
       \/ Fail(c)
       \/ Return(c)
       \/ Cancel(c)
  \/ Crash

Spec == Init /\ [][Next]_vars
=============================================================================
