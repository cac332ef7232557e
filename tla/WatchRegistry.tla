---------------------------- MODULE WatchRegistry ----------------------------
(***************************************************************************)
(* What the watch manager promises to its callers, without workers, polls, *)
(* tokens, requests or notifications: a registry of watches.  A watch is   *)
(* known to the running process (mem) and to the database (row); it is     *)
(* WATCHING until it ends, once, with one status.  WatchManager implements *)
(* this specification (WatchManager!Registry).                             *)
(*                                                                         *)
(* The two copies differ in one case only: the database refused to record  *)
(* the end.  Then the process knows the watch FAILED (STALE when it was    *)
(* closing), the database still has it WATCHING, and no other watch of     *)
(* its key can start before a restart has found the row.                   *)
(***************************************************************************)
EXTENDS FiniteSets

CONSTANTS
  Ids,        \* watch IDs
  Keys,       \* what a watch follows: a login and a pull request
  EndStatus,  \* how a watch can end: STALE, FAILED, or another status but WATCHING
  Nil

VARIABLES
  mem,   \* the watches of this process: watch ID -> [key, status], or Nil
  row    \* the database: watch ID -> [key, status], or Nil

registry == <<mem, row>>

Status == EndStatus \union {"WATCHING"}
Entry  == [key: Keys, status: Status]

RegistryTypeOK ==
  /\ mem \in [Ids -> Entry \union {Nil}]
  /\ row \in [Ids -> Entry \union {Nil}]

Watching(f, w) == f[w] # Nil /\ f[w].status = "WATCHING"
Watched(f, k)  == \E w \in Ids : Watching(f, w) /\ f[w].key = k
Marked(f, S, s) == [w \in Ids |-> IF w \in S THEN [f[w] EXCEPT !.status = s] ELSE f[w]]

\* A watch starts on a key that neither the process nor the database watches.
Register(w, k) ==
  /\ mem[w] = Nil /\ row[w] = Nil
  /\ ~Watched(mem, k) /\ ~Watched(row, k)
  /\ mem' = [mem EXCEPT ![w] = [key |-> k, status |-> "WATCHING"]]
  /\ row' = [row EXCEPT ![w] = [key |-> k, status |-> "WATCHING"]]

\* A watch ends, and the database knows.
End(w, s) ==
  /\ Watching(mem, w)
  /\ mem' = Marked(mem, {w}, s)
  /\ row' = Marked(row, {w}, s)

\* A watch ends because the database refuses a write about it.
Lose(w) ==
  /\ Watching(mem, w)
  /\ \E s \in {"FAILED", "STALE"} : mem' = Marked(mem, {w}, s)
  /\ UNCHANGED row

\* The process stops serving: all its watches end; lost is what the database refused.
StopAll ==
  \E lost \in SUBSET {w \in Ids : Watching(mem, w)} :
    /\ mem' = Marked(mem, {w \in Ids : Watching(mem, w)}, "STALE")
    /\ row' = Marked(row, {w \in Ids : Watching(mem, w)} \ lost, "STALE")

\* Faulty variants: the new process takes the live watches over; it leaves their
\* rows alone.
ReplaceResumes ==
  /\ mem' = [w \in Ids |-> IF Watching(row, w) THEN row[w] ELSE Nil]
  /\ UNCHANGED row

ReplaceUnaware ==
  /\ mem' = [w \in Ids |-> Nil]
  /\ UNCHANGED row

\* The process is replaced by another, which finds what the database has WATCHING.
Replace ==
  /\ mem' = [w \in Ids |-> Nil]
  /\ row' = Marked(row, {w \in Ids : Watching(row, w)}, "STALE")

RegistryInit ==
  /\ mem = [w \in Ids |-> Nil]
  /\ row = [w \in Ids |-> Nil]

RegistryNext ==
  \/ \E w \in Ids, k \in Keys : Register(w, k)
  \/ \E w \in Ids, s \in EndStatus : End(w, s)
  \/ \E w \in Ids : Lose(w)
  \/ StopAll
  \/ Replace

RegistrySpec == RegistryInit /\ [][RegistryNext]_registry
====
