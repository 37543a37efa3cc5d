-------------------------- MODULE IdempotencyProofs --------------------------
(***************************************************************************)
(* Theorems about Idempotency for any number of calls, keys, runs and      *)
(* faults.                                                                 *)
(*                                                                         *)
(* OneRunPerLicence is not inductive: it says nothing of the calls that    *)
(* have found a key FAILED and have not yet deleted the row.  Each of them *)
(* is a licence taken and not used, and a row is a licence used for good   *)
(* until some call deletes it; Licences counts both.                       *)
(***************************************************************************)
EXTENDS Idempotency, FiniteSetTheorems, TLAPS

CallHasKey == \A c \in Calls : pc[c] # "idle" => key[c] \in Keys

Deleting(k) == {c \in Calls : pc[c] = "delete" /\ key[c] = k}

Licences ==
  \A k \in Keys :
    runs[k] + Cardinality(Deleting(k)) <= seen[k] + (IF row[k] = "none" THEN 0 ELSE 1)

FailureIsKnown ==
  \A k \in Keys : row[k] = "FAILED" \/ seen[k] > 0 => failures[k] > 0

TypeInv    == TypeOK /\ CallHasKey
LicenceInv == Licences /\ FailureIsKnown

(***************************************************************************)
(* Every variable has its type, and a call under way has a key.            *)
(***************************************************************************)
LEMMA TypesHold == Spec => []TypeInv
<1>1. Init => TypeInv
  BY IdempotencyAssumption DEF Init, TypeInv, TypeOK, CallHasKey, Steps, Handling
<1>2. TypeInv /\ [Next]_vars => TypeInv'
  <2> SUFFICES ASSUME TypeInv, [Next]_vars PROVE TypeInv'
    OBVIOUS
  <2> USE IdempotencyAssumption DEF TypeInv, TypeOK, CallHasKey, Steps, Handling, Statuses
  <2>1. ASSUME NEW c \in Calls, NEW k \in Keys, Request(c, k) PROVE TypeInv'
    BY <2>1 DEF Request, Goto, counters
  <2>2. ASSUME NEW c \in Calls, Find(c) PROVE TypeInv'
    <3>1. key[c] \in Keys
      BY <2>2 DEF Find, Goto
    <3>2. QED BY <2>2, <3>1 DEF Find, Goto, RowIs
  <2>3. ASSUME NEW c \in Calls, Delete(c) PROVE TypeInv'
    BY <2>3 DEF Delete, Goto, RowIs, counters
  <2>4. ASSUME NEW c \in Calls, Create(c) PROVE TypeInv'
    <3>1. key[c] \in Keys
      BY <2>4 DEF Create, Goto
    <3>2. QED BY <2>4, <3>1 DEF Create, Goto, RowIs
  <2>5. ASSUME NEW c \in Calls, Race(c) PROVE TypeInv'
    BY <2>5 DEF Race, Goto, counters
  <2>6. ASSUME NEW c \in Calls, ReadOrder(c) PROVE TypeInv'
    BY <2>6 DEF ReadOrder, Goto, counters
  <2>7. ASSUME NEW c \in Calls, CreateVoucher(c) PROVE TypeInv'
    BY <2>7 DEF CreateVoucher, Goto, counters
  <2>8. ASSUME NEW c \in Calls, SendMail(c) PROVE TypeInv'
    BY <2>8 DEF SendMail, Goto, counters
  <2>9. ASSUME NEW c \in Calls, WriteDone(c) PROVE TypeInv'
    BY <2>9 DEF WriteDone, Goto, RowIs, counters
  <2>10. ASSUME NEW c \in Calls, WriteFailed(c) PROVE TypeInv'
    <3>1. key[c] \in Keys
      BY <2>10 DEF WriteFailed, Goto
    <3>2. QED BY <2>10, <3>1 DEF WriteFailed, Goto
  <2>11. ASSUME NEW c \in Calls, StatementFails(c) PROVE TypeInv'
    BY <2>11 DEF StatementFails, Fault, Goto, counters
  <2>12. CASE Crash
    BY <2>12 DEF Crash, Fault, counters
  <2>13. CASE UNCHANGED vars
    BY <2>13 DEF vars
  <2>14. QED
    BY <2>1, <2>2, <2>3, <2>4, <2>5, <2>6, <2>7, <2>8, <2>9, <2>10, <2>11, <2>12, <2>13
       DEF Next, Handle, Resend, RetryFulfilment
<1>3. QED
  BY <1>1, <1>2, PTL DEF Spec

\* Every variable has its type, through any overlap and fault.
THEOREM TypeCorrect == Spec => []TypeOK
BY TypesHold, PTL DEF TypeInv

-----------------------------------------------------------------------------
(***************************************************************************)
(* The sets Deleting(k) and their sizes, before and after a step of one    *)
(* call.                                                                   *)
(***************************************************************************)
LEMMA DeletingIsFinite ==
  ASSUME NEW k
  PROVE  /\ IsFiniteSet(Deleting(k)) /\ Cardinality(Deleting(k)) \in Nat
         /\ Cardinality(Deleting(k)') \in Nat
<1>1. Deleting(k) \subseteq Calls /\ Deleting(k)' \subseteq Calls
  BY DEF Deleting
<1>2. IsFiniteSet(Deleting(k)) /\ IsFiniteSet(Deleting(k)')
  BY <1>1, IdempotencyAssumption, FS_Subset
<1>3. QED
  BY <1>2, FS_CardinalityType

\* A call that does not go to the delete leaves every count as it was, or lower.
LEMMA LeavesLicence ==
  ASSUME TypeInv, NEW c \in Calls, NEW to \in Steps \ {"delete"},
         pc' = [pc EXCEPT ![c] = to], pc[c] = "idle" \/ key' = key,
         \A d \in Calls \ {c} : key'[d] = key[d],
         NEW k \in Keys
  PROVE  /\ Deleting(k)' = Deleting(k) \ {c}
         /\ Cardinality(Deleting(k)') <= Cardinality(Deleting(k))
<1>1. Deleting(k)' = Deleting(k) \ {c}
  BY DEF TypeInv, TypeOK, Deleting
<1>2. IsFiniteSet(Deleting(k)) /\ Deleting(k)' \subseteq Deleting(k)
  BY <1>1, DeletingIsFinite
<1>3. QED
  BY <1>1, <1>2, FS_Subset

\* A call that finds the key FAILED takes one licence.
LEMMA TakesLicence ==
  ASSUME TypeInv, NEW c \in Calls, pc[c] = "find",
         pc' = [pc EXCEPT ![c] = "delete"], key' = key, NEW k \in Keys
  PROVE  Cardinality(Deleting(k)') = Cardinality(Deleting(k)) + (IF key[c] = k THEN 1 ELSE 0)
<1>1. Deleting(k)' = IF key[c] = k THEN Deleting(k) \cup {c} ELSE Deleting(k)
  BY DEF TypeInv, TypeOK, Deleting
<1>2. c \notin Deleting(k) /\ IsFiniteSet(Deleting(k))
  BY DeletingIsFinite DEF Deleting
<1>3. Cardinality(Deleting(k) \cup {c}) = Cardinality(Deleting(k)) + 1
  BY <1>2, FS_AddElement
<1>4. Cardinality(Deleting(k)) \in Nat
  BY DeletingIsFinite
<1>5. QED
  BY <1>1, <1>3, <1>4

\* The delete uses it.
LEMMA UsesLicence ==
  ASSUME TypeInv, NEW c \in Calls, pc[c] = "delete", NEW to \in Steps \ {"delete"},
         pc' = [pc EXCEPT ![c] = to], key' = key, NEW k \in Keys
  PROVE  Cardinality(Deleting(k)') = Cardinality(Deleting(k)) - (IF key[c] = k THEN 1 ELSE 0)
<1>1. Deleting(k)' = Deleting(k) \ {c}
  BY DEF TypeInv, TypeOK, Deleting
<1>2. IsFiniteSet(Deleting(k)) /\ Cardinality(Deleting(k)) \in Nat
  BY DeletingIsFinite
<1>3. CASE key[c] = k
  <2>1. c \in Deleting(k)
    BY <1>3 DEF Deleting
  <2>2. Cardinality(Deleting(k) \ {c}) = Cardinality(Deleting(k)) - 1
    BY <1>2, <2>1, FS_RemoveElement
  <2>3. QED
    BY <1>1, <1>2, <1>3, <2>2
<1>4. CASE key[c] # k
  <2>1. Deleting(k)' = Deleting(k)
    BY <1>1, <1>4 DEF Deleting
  <2>2. QED
    BY <1>2, <1>4, <2>1
<1>5. QED
  BY <1>3, <1>4

-----------------------------------------------------------------------------
(***************************************************************************)
(* A key that never failed runs once, and each run beyond the first was    *)
(* allowed by a call that found the key FAILED: for any number of calls    *)
(* that overlap in any way, with any number of crashes and errors.         *)
(***************************************************************************)
THEOREM RunsAreLicensed == Spec => []OneRunPerLicence
<1>1. Init => LicenceInv
  <2> SUFFICES ASSUME Init PROVE LicenceInv
    OBVIOUS
  <2>1. \A k \in Keys : Deleting(k) = {}
    BY DEF Init, Deleting
  <2>2. \A k \in Keys : Cardinality(Deleting(k)) = 0
    BY <2>1, FS_EmptySet
  <2>3. QED
    BY <2>2 DEF Init, LicenceInv, Licences, FailureIsKnown
<1>2. TypeInv /\ LicenceInv /\ [Next]_vars => LicenceInv'
  <2> SUFFICES ASSUME TypeInv, LicenceInv, [Next]_vars PROVE LicenceInv'
    OBVIOUS
  <2> USE DEF LicenceInv, Licences, FailureIsKnown
  <2>0. \A k \in Keys : Cardinality(Deleting(k)) \in Nat /\ Cardinality(Deleting(k)') \in Nat
    BY DeletingIsFinite
  <2> DEFINE NoLicenceMore ==
               \A k \in Keys : Cardinality(Deleting(k)') <= Cardinality(Deleting(k))
  <2>a. ASSUME NoLicenceMore, UNCHANGED <<row, runs, failures, seen>> PROVE LicenceInv'
    <3>1. seen \in [Keys -> Nat] /\ runs \in [Keys -> Nat]
      BY DEF TypeInv, TypeOK
    <3>2. QED
      BY <2>0, <2>a, <3>1
  <2>1. ASSUME NEW c \in Calls, NEW j \in Keys, Request(c, j) PROVE LicenceInv'
    <3>1. UNCHANGED <<row, runs, failures, seen>>
      BY <2>1 DEF Request, counters
    <3>2. key' = [key EXCEPT ![c] = j] /\ \A d \in Calls \ {c} : key'[d] = key[d]
      BY <2>1 DEF Request, TypeInv, TypeOK
    <3>3. pc[c] = "idle" /\ pc' = [pc EXCEPT ![c] = "find"]
      BY <2>1 DEF Request, Goto
    <3>4. "find" \in Steps \ {"delete"}
      BY DEF Steps
    <3>5. NoLicenceMore
      BY <3>2, <3>3, <3>4, LeavesLicence
    <3>6. QED
      BY <2>a, <3>1, <3>5
  <2>2. ASSUME NEW c \in Calls, Find(c) PROVE LicenceInv'
    <3>0. key[c] \in Keys
      BY <2>2 DEF Find, Goto, TypeInv, CallHasKey
    <3>1. CASE Goto(c, "find", "delete") /\ RowIs(c, "FAILED")
      <4>1. seen' = [seen EXCEPT ![key[c]] = @ + 1] /\ UNCHANGED <<row, key, runs, failures>>
        BY <2>2, <3>1 DEF Find, Goto, RowIs, TypeInv, TypeOK, Steps
      <4>2. \A k \in Keys : Cardinality(Deleting(k)') =
                               Cardinality(Deleting(k)) + (IF key[c] = k THEN 1 ELSE 0)
        BY <3>1, <4>1, TakesLicence DEF Goto
      <4>3. QED
        BY <2>0, <3>0, <3>1, <4>1, <4>2 DEF RowIs, TypeInv, TypeOK
    <3>2. CASE ~RowIs(c, "FAILED")
      <4>1. UNCHANGED <<row, key, runs, failures, seen>>
        BY <2>2, <3>2 DEF Find
      <4>2. \E to \in Steps \ {"delete"} : pc' = [pc EXCEPT ![c] = to]
        BY <2>2, <3>2 DEF Find, Goto, Steps
      <4>3. NoLicenceMore
        BY <4>1, <4>2, LeavesLicence
      <4>4. QED
        BY <2>a, <4>1, <4>3
    <3>3. QED
      BY <2>2, <3>1, <3>2 DEF Find, RowIs
  <2>3. ASSUME NEW c \in Calls, Delete(c) PROVE LicenceInv'
    <3>1. key[c] \in Keys /\ UNCHANGED <<key, runs, failures, seen>>
      BY <2>3 DEF Delete, Goto, TypeInv, CallHasKey, counters
    <3>2. \A k \in Keys : Cardinality(Deleting(k)') =
                             Cardinality(Deleting(k)) - (IF key[c] = k THEN 1 ELSE 0)
      BY <2>3, <3>1, UsesLicence DEF Delete, Goto, Steps
    <3>3. QED
      BY <2>0, <2>3, <3>1, <3>2 DEF Delete, TypeInv, TypeOK
  <2>4. ASSUME NEW c \in Calls, Create(c) PROVE LicenceInv'
    <3>1. key[c] \in Keys /\ UNCHANGED <<key, failures, seen>>
      BY <2>4 DEF Create, Goto, TypeInv, CallHasKey
    <3>2. NoLicenceMore
      BY <2>4, <3>1, LeavesLicence DEF Create, Goto, Steps, Handling
    <3>3. QED
      BY <2>0, <2>4, <3>1, <3>2 DEF Create, RowIs, TypeInv, TypeOK
  <2>5. ASSUME NEW c \in Calls, Race(c) PROVE LicenceInv'
    <3>1. UNCHANGED <<row, key, runs, failures, seen>>
      BY <2>5 DEF Race, counters
    <3>2. \E to \in Steps \ {"delete"} : pc' = [pc EXCEPT ![c] = to]
      BY <2>5 DEF Race, Goto, Steps
    <3>3. NoLicenceMore
      BY <3>1, <3>2, LeavesLicence
    <3>4. QED
      BY <2>a, <3>1, <3>3
  <2>6. ASSUME NEW c \in Calls, ReadOrder(c) \/ CreateVoucher(c) \/ SendMail(c)
        PROVE  LicenceInv'
    <3>1. UNCHANGED <<row, key, runs, failures, seen>>
      BY <2>6 DEF ReadOrder, CreateVoucher, SendMail, counters
    <3>2. \E to \in Steps \ {"delete"} : pc' = [pc EXCEPT ![c] = to]
      BY <2>6 DEF ReadOrder, CreateVoucher, SendMail, Goto, Steps, Handling
    <3>3. NoLicenceMore
      BY <3>1, <3>2, LeavesLicence
    <3>4. QED
      BY <2>a, <3>1, <3>3
  <2>7. ASSUME NEW c \in Calls, WriteDone(c) PROVE LicenceInv'
    <3>1. key[c] \in Keys /\ UNCHANGED <<key, runs, failures, seen>>
      BY <2>7 DEF WriteDone, Goto, TypeInv, CallHasKey, counters
    <3>2. NoLicenceMore
      BY <2>7, <3>1, LeavesLicence DEF WriteDone, Goto, Steps
    <3>3. QED
      BY <2>0, <2>7, <3>1, <3>2 DEF WriteDone, RowIs, TypeInv, TypeOK
  <2>8. ASSUME NEW c \in Calls, WriteFailed(c) PROVE LicenceInv'
    <3>1. key[c] \in Keys /\ UNCHANGED <<key, runs, seen>>
      BY <2>8 DEF WriteFailed, Goto, TypeInv, CallHasKey
    <3>2. NoLicenceMore
      BY <2>8, <3>1, LeavesLicence DEF WriteFailed, Goto, Steps
    <3>3. QED
      BY <2>0, <2>8, <3>1, <3>2 DEF WriteFailed, TypeInv, TypeOK
  <2>9. ASSUME NEW c \in Calls, StatementFails(c) PROVE LicenceInv'
    <3>1. UNCHANGED <<row, key, runs, failures, seen>>
      BY <2>9 DEF StatementFails, counters
    <3>2. \E to \in Steps \ {"delete"} : pc' = [pc EXCEPT ![c] = to]
      BY <2>9 DEF StatementFails, Goto, Steps
    <3>3. NoLicenceMore
      BY <3>1, <3>2, LeavesLicence
    <3>4. QED
      BY <2>a, <3>1, <3>3
  <2>10. CASE Crash
    <3>1. \A k \in Keys : Deleting(k)' = {}
      BY <2>10 DEF Crash, Deleting
    <3>2. \A k \in Keys : Cardinality(Deleting(k)') = 0
      BY <3>1, FS_EmptySet
    <3>3. QED
      BY <2>0, <2>10, <3>2 DEF Crash, counters, TypeInv, TypeOK
  <2>11. CASE UNCHANGED vars
    <3>1. \A k \in Keys : Deleting(k)' = Deleting(k)
      BY <2>11 DEF vars, Deleting
    <3>2. NoLicenceMore
      BY <2>0, <3>1
    <3>3. QED
      BY <2>a, <2>11, <3>2 DEF vars
  <2>12. QED
    BY <2>1, <2>2, <2>3, <2>4, <2>5, <2>6, <2>7, <2>8, <2>9, <2>10, <2>11,
       IdempotencyAssumption DEF Next, Handle, Resend, RetryFulfilment
<1>3. TypeInv /\ LicenceInv => OneRunPerLicence
  BY DeletingIsFinite
     DEF TypeInv, TypeOK, LicenceInv, Licences, FailureIsKnown, OneRunPerLicence
<1>4. QED
  BY <1>1, <1>2, <1>3, TypesHold, PTL DEF Spec
=============================================================================
