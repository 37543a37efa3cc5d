----------------------------- MODULE Idempotency -----------------------------
(***************************************************************************)
(* IdempotencyService.run and the two operations of an order that go       *)
(* through it: resend the voucher's mail, and retry the fulfilment (create *)
(* the voucher if there is none, then mail it).  Every await of run is an  *)
(* action; several calls with one key may be in progress.  The handlers    *)
(* return an object, so a DONE row always has a response.                  *)
(*                                                                         *)
(* One order.  A key stands for a pair (scope, key): each endpoint has a   *)
(* scope of its own.  Nothing deletes rows but run itself.                 *)
(***************************************************************************)
EXTENDS Naturals, FiniteSets

CONSTANTS
  Calls,        \* requests that may be in progress at one time
  Keys,         \* pairs of scope and key
  NoKey,
  ResendKeys,   \* those of scope EMAIL_SEND: POST /:id/resend
  MaxRuns,      \* bound: runs of the handler of one key
  MaxFaults     \* bound: crashes and failed statements

ASSUME IdempotencyAssumption ==
  /\ NoKey \notin Keys
  /\ ResendKeys \subseteq Keys
  /\ IsFiniteSet(Calls)
  /\ MaxRuns \in Nat /\ MaxFaults \in Nat

VARIABLES
  row,       \* IdempotencyKey.status of each key, "none" without a row
  voucher,   \* the order has a voucher
  pc,        \* the step each call takes next
  key,       \* the key of each call
  runs,      \* how often the handler of each key was started
  failures,  \* how often it, or the write of its result, failed
  seen,      \* how many calls have found the key FAILED
  stranded,  \* keys whose call died, or could not write what became of it
  faults

vars == <<row, voucher, pc, key, runs, failures, seen, stranded, faults>>
counters == <<runs, failures, seen>>

Statuses == {"IN_PROGRESS", "DONE", "FAILED"}
Handling == {"order", "voucher", "mail", "done"}
Steps    == {"idle", "find", "delete", "create", "race", "fail"} \cup Handling

TypeOK ==
  /\ row \in [Keys -> Statuses \cup {"none"}]
  /\ voucher \in BOOLEAN
  /\ pc \in [Calls -> Steps]
  /\ key \in [Calls -> Keys \cup {NoKey}]
  /\ runs \in [Keys -> Nat] /\ failures \in [Keys -> Nat]
  /\ seen \in [Keys -> Nat]
  /\ stranded \subseteq Keys
  /\ faults \in Nat

Init ==
  /\ row = [k \in Keys |-> "none"]
  /\ voucher \in BOOLEAN
  /\ pc = [c \in Calls |-> "idle"]
  /\ key = [c \in Calls |-> NoKey]
  /\ runs = [k \in Keys |-> 0]
  /\ failures = [k \in Keys |-> 0]
  /\ seen = [k \in Keys |-> 0]
  /\ stranded = {}
  /\ faults = 0

-----------------------------------------------------------------------------
(***************************************************************************)
(* run, up to its handler.                                                 *)
(***************************************************************************)
Goto(c, from, to) == pc[c] = from /\ pc' = [pc EXCEPT ![c] = to]
RowIs(c, s) == row[key[c]] = s

Request(c, k) ==
  /\ Goto(c, "idle", "find")
  /\ runs[k] < MaxRuns
  /\ key' = [key EXCEPT ![c] = k]
  /\ UNCHANGED <<row, voucher, counters, stranded, faults>>

Resend(c) == \E k \in ResendKeys : Request(c, k)
RetryFulfilment(c) == \E k \in Keys \ ResendKeys : Request(c, k)

\* A bug the code avoids: a key in progress is taken for one that failed.
FindUnlocked(c) ==
  /\ \/ Goto(c, "find", "idle") /\ RowIs(c, "DONE")
     \/ Goto(c, "find", "create") /\ RowIs(c, "none")
     \/ Goto(c, "find", "delete") /\ ~RowIs(c, "DONE")
  /\ UNCHANGED seen
  /\ UNCHANGED <<row, voucher, key, runs, failures, stranded, faults>>

\* findUnique: a result, a conflict, or on to claim the key.
Find(c) ==
  /\ \/ /\ Goto(c, "find", "idle") /\ (RowIs(c, "DONE") \/ RowIs(c, "IN_PROGRESS"))
        /\ UNCHANGED seen
     \/ /\ Goto(c, "find", "create") /\ RowIs(c, "none")
        /\ UNCHANGED seen
     \/ /\ Goto(c, "find", "delete") /\ RowIs(c, "FAILED")
        /\ seen' = [seen EXCEPT ![key[c]] = @ + 1]
  /\ UNCHANGED <<row, voucher, key, runs, failures, stranded, faults>>

\* delete, whatever the row has become; without a row it throws.
Delete(c) ==
  /\ \/ Goto(c, "delete", "create") /\ ~RowIs(c, "none")
     \/ Goto(c, "delete", "idle") /\ RowIs(c, "none")
  /\ row' = [row EXCEPT ![key[c]] = "none"]
  /\ UNCHANGED <<voucher, key, counters, stranded, faults>>

\* The insert that claims the key: unique by (scope, key).
Create(c) ==
  /\ \/ /\ Goto(c, "create", "order") /\ RowIs(c, "none")
        /\ row' = [row EXCEPT ![key[c]] = "IN_PROGRESS"]
        /\ runs' = [runs EXCEPT ![key[c]] = @ + 1]
     \/ /\ Goto(c, "create", "race") /\ ~RowIs(c, "none")
        /\ UNCHANGED <<row, runs>>
  /\ UNCHANGED <<voucher, key, failures, seen, stranded, faults>>

\* The loser of the insert reads again: a result, or a conflict, never a run.
Race(c) ==
  /\ Goto(c, "race", "idle")
  /\ UNCHANGED <<row, voucher, key, counters, stranded, faults>>

-----------------------------------------------------------------------------
(***************************************************************************)
(* The handlers, and the record of what became of them.                    *)
(***************************************************************************)
\* resendEmail refuses an order without voucher; retryFulfilment creates it.
ReadOrder(c) ==
  /\ \/ voucher /\ Goto(c, "order", "mail")
     \/ ~voucher /\ key[c] \in ResendKeys /\ Goto(c, "order", "fail")
     \/ ~voucher /\ key[c] \notin ResendKeys /\ Goto(c, "order", "voucher")
  /\ UNCHANGED <<row, voucher, key, counters, stranded, faults>>

\* createForPackage: the voucher is unique by order, a second insert throws.
CreateVoucher(c) ==
  /\ \/ ~voucher /\ Goto(c, "voucher", "mail")
     \/ voucher /\ Goto(c, "voucher", "fail")
  /\ voucher' = TRUE
  /\ UNCHANGED <<row, key, counters, stranded, faults>>

\* sendOrderCompleted never throws: a mail that could not be sent is a result like
\* another, and the handler is at its end.
SendMail(c) ==
  /\ Goto(c, "mail", "done")
  /\ UNCHANGED <<row, voucher, key, counters, stranded, faults>>

\* A bug the code avoids: a status that find does not know.
WriteCompleted(c) ==
  /\ Goto(c, "done", "idle")
  /\ row' = [row EXCEPT ![key[c]] = "COMPLETED"]
  /\ UNCHANGED <<voucher, key, counters, stranded, faults>>

\* update throws without a row; so may another call's delete have made it.
WriteDone(c) ==
  /\ \/ /\ Goto(c, "done", "idle") /\ ~RowIs(c, "none")
        /\ row' = [row EXCEPT ![key[c]] = "DONE"]
     \/ /\ Goto(c, "done", "fail") /\ RowIs(c, "none")
        /\ UNCHANGED row
  /\ UNCHANGED <<voucher, key, counters, stranded, faults>>

\* A bug the code avoids: the failure is rethrown without a trace.
RethrowOnly(c) ==
  /\ Goto(c, "fail", "idle")
  /\ failures' = [failures EXCEPT ![key[c]] = @ + 1]
  /\ UNCHANGED <<row, voucher, key, runs, seen, stranded, faults>>

\* The catch block; update without a row is swallowed.
WriteFailed(c) ==
  /\ Goto(c, "fail", "idle")
  /\ row' = [row EXCEPT ![key[c]] = IF @ = "none" THEN @ ELSE "FAILED"]
  /\ failures' = [failures EXCEPT ![key[c]] = @ + 1]
  /\ UNCHANGED <<voucher, key, runs, seen, stranded, faults>>

-----------------------------------------------------------------------------
(***************************************************************************)
(* Faults: a statement fails, or the backend restarts.                     *)
(***************************************************************************)
Fault == faults < MaxFaults /\ faults' = faults + 1

\* Before the handler the error is the caller's; in it, the catch block's; in
\* the catch block nobody's.
StatementFails(c) ==
  /\ Fault
  /\ \/ /\ \E s \in {"find", "delete", "create", "race"} : Goto(c, s, "idle")
        /\ UNCHANGED stranded
     \/ /\ \E s \in {"order", "voucher", "done"} : Goto(c, s, "fail")
        /\ UNCHANGED stranded
     \/ /\ Goto(c, "fail", "idle")
        /\ stranded' = stranded \cup {key[c]}
  /\ UNCHANGED <<row, voucher, key, counters>>

Crash ==
  /\ Fault
  /\ \E c \in Calls : pc[c] # "idle"
  /\ pc' = [c \in Calls |-> "idle"]
  /\ stranded' = stranded \cup {key[c] : c \in {d \in Calls : pc[d] \in Handling \cup {"fail"}}}
  /\ UNCHANGED <<row, voucher, key, counters>>

Handle(c) ==
  \/ Find(c) \/ Delete(c) \/ Create(c) \/ Race(c)
  \/ ReadOrder(c) \/ CreateVoucher(c) \/ SendMail(c)
  \/ WriteDone(c) \/ WriteFailed(c)

Next ==
  \/ \E c \in Calls :
       Resend(c) \/ RetryFulfilment(c) \/ Handle(c) \/ StatementFails(c)
  \/ Crash

\* A pending continuation of the event loop is run; nothing else is certain.
Spec == Init /\ [][Next]_vars /\ \A c \in Calls : WF_vars(Handle(c))

-----------------------------------------------------------------------------
(***************************************************************************)
(* Properties.                                                             *)
(***************************************************************************)
\* "handler runs once for a pair (scope, key)" (idempotency.service.ts:5), as far
\* as the code keeps it: each further run is paid for by a call that found the
\* key FAILED, and no call finds it so before a run has failed.  However calls
\* overlap and wherever the backend dies, a key that never failed runs once.
OneRunPerLicence ==
  \A k \in Keys : /\ runs[k] <= 1 + seen[k]
                  /\ seen[k] > 0 => failures[k] > 0

\* Every claim ends, in DONE or FAILED, unless its call dies.
ClaimEnds ==
  \A k \in Keys : row[k] = "IN_PROGRESS" ~> (row[k] # "IN_PROGRESS" \/ k \in stranded)
=============================================================================
