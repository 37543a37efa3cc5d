------------------------ MODULE SupplierFinanceProofs ------------------------
(***************************************************************************)
(* Theorems about SupplierFinance for any number of handlers, requests,    *)
(* disputes and faults, and any list of required documents: the numbers of *)
(* a supplier's documents, its types, the money that a dispute holds, and  *)
(* the account (SupplierAccount).                                          *)
(*                                                                         *)
(* NumbersAreUnique is not inductive: it says nothing of the numbers that  *)
(* a handler has taken and not yet written into a document.  NumberInv     *)
(* adds those, and that no number was given that the sequence has not      *)
(* passed.  MoneyInv, FrozenInv and AccountInv, further down, add what the *)
(* tasks that move money carry from what they read to what they write.     *)
(***************************************************************************)
EXTENDS SupplierFinance, SequenceTheorems, FiniteSetTheorems, TLAPS

Document == [type : DocTypes, number : Nat, status : {"DRAFT", "ISSUED", "FAILED", "CANCELED"}]

IsHandler(h) ==
  /\ h = [do |-> h.do, id |-> h.id, amount |-> h.amount, read |-> h.read, to |-> h.to,
          plan |-> h.plan]
  /\ h.do \in Tasks /\ h.plan \in Seq(Planned)
  /\ h.do = "number" => Len(h.plan) < Len(Required)
  /\ h.do \in {"validate", "draft", "render"} => h.plan # <<>>

\* While it renders, the first document of the plan has been inserted.
Unwritten(h) == (IF h.do = "render" THEN 2 ELSE 1)..Len(h.plan)

Same(a, b) == NumberType(a.type) = NumberType(b.type) /\ a.number = b.number
GivenOut(a) == a.number <= lastNumber[NumberType(a.type)]

PapersTyped == /\ lastNumber \in [NumberTypes -> Nat]
               /\ docs \in Seq(Document)
               /\ doing = [p \in Procs |-> doing[p]]
HandlersTyped == \A p \in Procs : IsHandler(doing[p])
DocsGiven == \A n \in 1..Len(docs) : GivenOut(docs[n])
PlansGiven == \A p \in Procs : \A n \in Unwritten(doing[p]) : GivenOut(doing[p].plan[n])
DocsDiffer == \A m, n \in 1..Len(docs) : m # n => ~Same(docs[m], docs[n])
PlansDiffer ==
  \A p, q \in Procs : \A m \in Unwritten(doing[p]), n \in Unwritten(doing[q]) :
    p # q \/ m # n => ~Same(doing[p].plan[m], doing[q].plan[n])
PlansAreNew ==
  \A p \in Procs : \A m \in Unwritten(doing[p]), n \in 1..Len(docs) :
    ~Same(doing[p].plan[m], docs[n])

NumberInv == /\ PapersTyped /\ HandlersTyped
             /\ DocsGiven /\ PlansGiven
             /\ DocsDiffer /\ PlansDiffer /\ PlansAreNew

\* The rows of the documents stay, but for their status.
DocsStay ==
  /\ docs' \in Seq(Document) /\ Len(docs') = Len(docs)
  /\ \A n \in 1..Len(docs) : docs'[n].type = docs[n].type /\ docs'[n].number = docs[n].number

(***************************************************************************)
(* A step of one handler that plans no more than it had planned.           *)
(***************************************************************************)
LEMMA PlanShrinks ==
  ASSUME NumberInv, DocsStay, lastNumber' = lastNumber, NEW p \in Procs, NEW h, IsHandler(h),
         doing' = [doing EXCEPT ![p] = h], NEW shift \in Nat,
         \A n \in Unwritten(h) : /\ n + shift \in Unwritten(doing[p])
                                 /\ h.plan[n] = doing[p].plan[n + shift]
  PROVE  NumberInv'
<1>a. doing = [q \in Procs |-> doing[q]]
  BY DEF NumberInv, PapersTyped
<1>1. \A q \in Procs : doing'[q] = IF q = p THEN h ELSE doing[q]
  BY <1>a
<1>b. doing' = [q \in Procs |-> doing'[q]]
  BY <1>a
<1>c. PapersTyped'
  BY <1>b DEF NumberInv, PapersTyped, DocsStay
<1>d. \A q \in Procs : IsHandler(doing[q])
  BY DEF NumberInv, HandlersTyped
<1>e. \A q \in Procs : IsHandler(doing'[q])
  BY <1>1, <1>d
<1>2. PapersTyped' /\ HandlersTyped'
  BY <1>c, <1>e DEF HandlersTyped, IsHandler
<1>3. \A a, b : Same(a, b)' <=> Same(a, b)
  BY DEF Same
<1>4. \A q \in Procs : \A n \in Unwritten(doing'[q]) :
        \E m \in Unwritten(doing[q]) :
          doing'[q].plan[n] = doing[q].plan[m] /\ m = (IF q = p THEN n + shift ELSE n)
  BY <1>1
<1>5. DocsGiven' /\ DocsDiffer'
  BY DEF NumberInv, DocsStay, DocsGiven, GivenOut, DocsDiffer, Same
<1>6. PlansGiven'
  BY <1>4 DEF NumberInv, PlansGiven, GivenOut, Unwritten
<1>7. PlansDiffer'
  <2>1. ASSUME NEW q \in Procs, NEW r \in Procs,
               NEW m \in Unwritten(doing'[q]), NEW n \in Unwritten(doing'[r]), q # r \/ m # n
        PROVE  ~Same(doing'[q].plan[m], doing'[r].plan[n])
    <3>1. PICK i \in Unwritten(doing[q]) :
            doing'[q].plan[m] = doing[q].plan[i] /\ i = (IF q = p THEN m + shift ELSE m)
      BY <1>4
    <3>2. PICK j \in Unwritten(doing[r]) :
            doing'[r].plan[n] = doing[r].plan[j] /\ j = (IF r = p THEN n + shift ELSE n)
      BY <1>4
    <3>3. m \in Int /\ n \in Int
      BY DEF Unwritten
    <3>4. q # r \/ i # j
      BY <2>1, <3>1, <3>2, <3>3
    <3>5. QED
      BY <3>1, <3>2, <3>4 DEF NumberInv, PlansDiffer
  <2>2. QED
    BY <2>1 DEF PlansDiffer, Unwritten, Same
<1>8. PlansAreNew'
  <2>1. ASSUME NEW q \in Procs, NEW m \in Unwritten(doing'[q]), NEW n \in 1..Len(docs)
        PROVE  ~Same(doing'[q].plan[m], docs'[n])
    <3>1. PICK i \in Unwritten(doing[q]) : doing'[q].plan[m] = doing[q].plan[i]
      BY <1>4
    <3>2. ~Same(doing[q].plan[i], docs[n])
      BY DEF NumberInv, PlansAreNew
    <3>3. QED
      BY <3>1, <3>2 DEF Same, DocsStay
  <2>2. Len(docs') = Len(docs)
    BY DEF DocsStay
  <2>3. QED
    BY <2>1, <2>2 DEF PlansAreNew, Unwritten, Same
<1>9. QED
  BY <1>2, <1>5, <1>6, <1>7, <1>8 DEF NumberInv

\* It plans nothing.
LEMMA NothingPlanned ==
  ASSUME NumberInv, DocsStay, lastNumber' = lastNumber, NEW p \in Procs, NEW h, IsHandler(h),
         h.plan = <<>>, doing' = [doing EXCEPT ![p] = h]
  PROVE  NumberInv'
<1>1. Unwritten(h) = {}
  BY DEF Unwritten
<1>2. QED
  BY <1>1, PlanShrinks

\* It goes on with the plan it has.
LEMMA PlanKept ==
  ASSUME NumberInv, DocsStay, lastNumber' = lastNumber, NEW p \in Procs, NEW h, IsHandler(h),
         h.plan = doing[p].plan, h.do # "render", doing[p].do # "render",
         doing' = [doing EXCEPT ![p] = h]
  PROVE  NumberInv'
<1>1. Unwritten(h) = Unwritten(doing[p])
  BY DEF Unwritten
<1>2. \A n \in Unwritten(h) : n + 0 = n
  BY DEF Unwritten
<1>3. QED
  BY <1>1, <1>2, PlanShrinks

\* It ends.
LEMMA HandlerEnds ==
  ASSUME NumberInv, DocsStay, lastNumber' = lastNumber, NEW p \in Procs, Finish(p)
  PROVE  NumberInv'
<1>1. IsHandler(Idle) /\ Idle.plan = <<>>
  BY DEF Idle, IsHandler, Tasks
<1>2. QED
  BY <1>1, NothingPlanned DEF Finish, Then

\* It turns to another task that takes no number and writes no document.
LEMMA HandlerGoesOn ==
  ASSUME NumberInv, DocsStay, lastNumber' = lastNumber, NEW p \in Procs,
         NEW to \in Tasks \ {"number", "render"}, Go(p, to), doing[p].do # "render",
         to \in {"validate", "draft"} => doing[p].plan # <<>>
  PROVE  NumberInv'
<1> DEFINE g == [doing[p] EXCEPT !.do = to]
<1>1. IsHandler(doing[p])
  BY DEF NumberInv, HandlersTyped
<1>2. IsHandler(g) /\ g.plan = doing[p].plan /\ g.do = to
  BY <1>1 DEF IsHandler
<1>3. PICK h : h = g
  OBVIOUS
<1>4. QED
  BY <1>2, <1>3, PlanKept DEF Go, Then

\* A handler begins with an empty plan.
LEMMA HandlerBegins ==
  ASSUME NumberInv, NEW p \in Procs, NEW role, NEW h, IsHandler(h), h.plan = <<>>,
         Begin(role, p, h)
  PROVE  NumberInv'
<1>1. DocsStay /\ lastNumber' = lastNumber
  BY DEF Begin, papers, DocsStay, NumberInv, PapersTyped
<1>2. QED
  BY <1>1, NothingPlanned DEF Begin

\* A step of no handler that changes at most the status of documents.
LEMMA OnlyStatus ==
  ASSUME NumberInv, DocsStay, lastNumber' = lastNumber, doing' = doing
  PROVE  NumberInv'
<1>1. PapersTyped' /\ HandlersTyped'
  BY DEF NumberInv, PapersTyped, HandlersTyped, DocsStay
<1>2. DocsGiven' /\ DocsDiffer'
  BY DEF NumberInv, DocsStay, DocsGiven, GivenOut, DocsDiffer, Same
<1>3. PlansGiven' /\ PlansDiffer'
  BY DEF NumberInv, PlansGiven, GivenOut, PlansDiffer, Same
<1>4. PlansAreNew'
  BY DEF NumberInv, DocsStay, PlansAreNew, Same
<1>5. QED
  BY <1>1, <1>2, <1>3, <1>4 DEF NumberInv

\* A step of neither documents nor handlers.
LEMMA NothingMoves ==
  ASSUME NumberInv, UNCHANGED <<docs, lastNumber, doing>>
  PROVE  NumberInv'
BY DEF NumberInv, PapersTyped, HandlersTyped, DocsGiven, PlansGiven, DocsDiffer, PlansDiffer,
       PlansAreNew, GivenOut, Same, Unwritten, IsHandler

\* The list of required documents is made of known types.
LEMMA RequiredIsTyped == Required \in Seq(DocTypes) /\ Len(Required) >= 2
<1>1. Closing \in DocTypes
  BY FinanceAssumption DEF DocTypes
<1>2. <<"AGENT_REPORT", Closing>> \in Seq(DocTypes) /\ Len(<<"AGENT_REPORT", Closing>>) = 2
  BY <1>1 DEF DocTypes
<1>3. \A c \in BOOLEAN : (IF c THEN <<"INVOICE">> ELSE <<>>) \in Seq(DocTypes)
  <2>1. <<"INVOICE">> \in Seq(DocTypes)
    BY DEF DocTypes
  <2>2. <<>> \in Seq(DocTypes)
    OBVIOUS
  <2>3. QED
    BY <2>1, <2>2
<1>4. \A c \in BOOLEAN : (IF c THEN <<"VAT_INVOICE">> ELSE <<>>) \in Seq(DocTypes)
  <2>1. <<"VAT_INVOICE">> \in Seq(DocTypes)
    BY DEF DocTypes
  <2>2. <<>> \in Seq(DocTypes)
    OBVIOUS
  <2>3. QED
    BY <2>1, <2>2
<1>5. \A s, t, u \in Seq(DocTypes) :
        s \o t \o u \in Seq(DocTypes) /\ Len(s \o t \o u) = Len(s) + Len(t) + Len(u)
  OBVIOUS
<1>6. \A s \in Seq(DocTypes) : Len(s) \in Nat
  OBVIOUS
<1>7. Invoices \in BOOLEAN /\ VatPayer \in BOOLEAN
  BY FinanceAssumption
<1>8. QED
  BY <1>2, <1>3, <1>4, <1>5, <1>6, <1>7 DEF Required

(***************************************************************************)
(* A handler takes the next number: it is above every number given in its  *)
(* sequence, so it differs from those of the documents and of the plans.   *)
(***************************************************************************)
LEMMA NumberTaken ==
  ASSUME NumberInv, NEW p \in Procs, NextNumber(p)
  PROVE  NumberInv'
<1>1. PICK old : old = doing[p]
  OBVIOUS
<1>2. IsHandler(old) /\ old.do = "number"
  BY <1>1 DEF NumberInv, HandlersTyped, NextNumber, At
<1>3. PICK type : type = Required[Len(old.plan) + 1]
  OBVIOUS
<1>4. type \in DocTypes
  BY <1>2, <1>3, RequiredIsTyped DEF IsHandler
<1>5. PICK seq : seq = NumberType(type)
  OBVIOUS
<1>6. seq \in NumberTypes
  BY <1>4, <1>5 DEF NumberTypes
<1>7. PICK new : new = [type |-> type, number |-> lastNumber[seq] + 1]
  OBVIOUS
<1>8. lastNumber[seq] \in Nat
  BY <1>6 DEF NumberInv, PapersTyped
<1>9. new \in Planned /\ NumberType(new.type) = seq /\ new.number = lastNumber[seq] + 1
  BY <1>4, <1>5, <1>7, <1>8 DEF Planned
<1>10. PICK plan : plan = Append(old.plan, new)
  OBVIOUS
<1>11. /\ plan \in Seq(Planned) /\ plan # <<>> /\ Len(plan) = Len(old.plan) + 1
       /\ plan[Len(plan)] = new
       /\ \A n \in 1..Len(old.plan) : plan[n] = old.plan[n]
  BY <1>2, <1>9, <1>10 DEF IsHandler
<1>12. PICK h : h = [old EXCEPT !.plan = plan,
                       !.do = IF Len(plan) < Len(Required) THEN "number" ELSE "validate"]
  OBVIOUS
<1>13. IsHandler(h) /\ h.plan = plan /\ h.do # "render"
  BY <1>2, <1>11, <1>12 DEF IsHandler, Tasks
<1>14. /\ doing' = [doing EXCEPT ![p] = h]
       /\ lastNumber' = [lastNumber EXCEPT ![seq] = lastNumber[seq] + 1]
       /\ docs' = docs
  BY <1>1, <1>3, <1>5, <1>7, <1>10, <1>12 DEF NextNumber, Then
<1>15. \A q \in Procs : doing'[q] = IF q = p THEN h ELSE doing[q]
  BY <1>14 DEF NumberInv, PapersTyped
<1>16. PapersTyped' /\ HandlersTyped'
  <2>1. doing' = [q \in Procs |-> doing'[q]]
    BY <1>14 DEF NumberInv, PapersTyped
  <2>2. lastNumber' \in [NumberTypes -> Nat]
    BY <1>6, <1>8, <1>14 DEF NumberInv, PapersTyped
  <2>3. PapersTyped'
    BY <1>14, <2>1, <2>2 DEF NumberInv, PapersTyped
  <2>4. \A q \in Procs : IsHandler(doing'[q])
    BY <1>13, <1>15 DEF NumberInv, HandlersTyped
  <2>5. QED
    BY <2>3, <2>4 DEF HandlersTyped, IsHandler
<1>17. /\ \A n \in Unwritten(h) : \/ n \in Unwritten(old) /\ h.plan[n] = old.plan[n]
                                  \/ n = Len(plan) /\ h.plan[n] = new
  <2>1. Unwritten(h) = 1..Len(plan) /\ Unwritten(old) = 1..Len(old.plan)
    BY <1>2, <1>13 DEF Unwritten
  <2>2. Len(old.plan) \in Nat
    BY <1>2 DEF IsHandler
  <2>3. \A n \in 1..Len(plan) : n \in 1..Len(old.plan) \/ n = Len(plan)
    BY <1>11, <2>2
  <2>4. QED
    BY <1>11, <1>13, <2>1, <2>3
<1>18. \A a : GivenOut(a) /\ a.number \in Int /\ NumberType(a.type) \in NumberTypes
                => a.number <= lastNumber'[NumberType(a.type)] /\ ~Same(a, new) /\ ~Same(new, a)
  BY <1>6, <1>8, <1>9, <1>14 DEF GivenOut, Same, NumberInv, PapersTyped
<1>19. new.number <= lastNumber'[NumberType(new.type)]
  BY <1>6, <1>8, <1>9, <1>14 DEF NumberInv, PapersTyped
<1>20. \A n \in 1..Len(docs) :
         GivenOut(docs[n]) /\ docs[n].number \in Int /\ NumberType(docs[n].type) \in NumberTypes
  <2>1. \A n \in 1..Len(docs) : docs[n] \in Document
    BY DEF NumberInv, PapersTyped
  <2>2. QED
    BY <2>1 DEF NumberInv, DocsGiven, Document, NumberTypes
<1>21. \A q \in Procs : \A n \in Unwritten(doing[q]) :
         /\ GivenOut(doing[q].plan[n]) /\ doing[q].plan[n].number \in Int
         /\ NumberType(doing[q].plan[n].type) \in NumberTypes
  <2>1. \A q \in Procs : \A n \in Unwritten(doing[q]) : doing[q].plan[n] \in Planned
    <3>1. ASSUME NEW q \in Procs, NEW n \in Unwritten(doing[q])
          PROVE  doing[q].plan[n] \in Planned
      <4>1. doing[q].plan \in Seq(Planned)
        BY DEF NumberInv, HandlersTyped, IsHandler
      <4>2. n \in 1..Len(doing[q].plan)
        BY <4>1 DEF Unwritten
      <4>3. QED
        BY <4>1, <4>2
    <3>2. QED
      BY <3>1
  <2>2. QED
    BY <2>1 DEF NumberInv, PlansGiven, Planned, NumberTypes
<1>22. DocsGiven'
  <2>1. \A n \in 1..Len(docs) : docs[n].number <= lastNumber'[NumberType(docs[n].type)]
    BY <1>18, <1>20
  <2>2. QED
    BY <1>14, <2>1 DEF DocsGiven, GivenOut
<1>23. PlansGiven'
  <2>1. ASSUME NEW q \in Procs, NEW n \in Unwritten(doing'[q])
        PROVE  doing'[q].plan[n].number <= lastNumber'[NumberType(doing'[q].plan[n].type)]
    <3>1. CASE q # p
      BY <1>15, <1>18, <1>21, <3>1
    <3>2. CASE q = p
      BY <1>1, <1>15, <1>17, <1>18, <1>19, <1>21, <3>2
    <3>3. QED
      BY <3>1, <3>2
  <2>2. QED
    BY <2>1 DEF PlansGiven, GivenOut, Unwritten
<1>24. DocsDiffer'
  BY <1>14 DEF NumberInv, DocsDiffer, Same
<1>25. PlansDiffer'
  <2>1. ASSUME NEW q \in Procs, NEW r \in Procs,
               NEW m \in Unwritten(doing'[q]), NEW n \in Unwritten(doing'[r]), q # r \/ m # n
        PROVE  ~Same(doing'[q].plan[m], doing'[r].plan[n])
    <3>1. \/ m \in Unwritten(doing[q]) /\ doing'[q].plan[m] = doing[q].plan[m]
          \/ q = p /\ m = Len(plan) /\ doing'[q].plan[m] = new
      BY <1>1, <1>15, <1>17
    <3>2. \/ n \in Unwritten(doing[r]) /\ doing'[r].plan[n] = doing[r].plan[n]
          \/ r = p /\ n = Len(plan) /\ doing'[r].plan[n] = new
      BY <1>1, <1>15, <1>17
    <3>3. CASE m \in Unwritten(doing[q]) /\ doing'[q].plan[m] = doing[q].plan[m]
               /\ n \in Unwritten(doing[r]) /\ doing'[r].plan[n] = doing[r].plan[n]
      BY <2>1, <3>3 DEF NumberInv, PlansDiffer
    <3>4. CASE m \in Unwritten(doing[q]) /\ doing'[q].plan[m] = doing[q].plan[m]
               /\ doing'[r].plan[n] = new
      BY <1>18, <1>21, <3>4
    <3>5. CASE n \in Unwritten(doing[r]) /\ doing'[r].plan[n] = doing[r].plan[n]
               /\ doing'[q].plan[m] = new
      BY <1>18, <1>21, <3>5
    <3>6. QED
      BY <2>1, <3>1, <3>2, <3>3, <3>4, <3>5
  <2>2. QED
    BY <2>1 DEF PlansDiffer, Unwritten, Same
<1>26. PlansAreNew'
  <2>1. ASSUME NEW q \in Procs, NEW m \in Unwritten(doing'[q]), NEW n \in 1..Len(docs)
        PROVE  ~Same(doing'[q].plan[m], docs[n])
    <3>1. \/ m \in Unwritten(doing[q]) /\ doing'[q].plan[m] = doing[q].plan[m]
          \/ q = p /\ m = Len(plan) /\ doing'[q].plan[m] = new
      BY <1>1, <1>15, <1>17
    <3>2. CASE m \in Unwritten(doing[q]) /\ doing'[q].plan[m] = doing[q].plan[m]
      BY <3>2 DEF NumberInv, PlansAreNew
    <3>3. CASE doing'[q].plan[m] = new
      BY <1>18, <1>20, <3>3
    <3>4. QED
      BY <3>1, <3>2, <3>3
  <2>2. QED
    BY <1>14, <2>1 DEF PlansAreNew, Unwritten, Same
<1>27. QED
  BY <1>16, <1>22, <1>23, <1>24, <1>25, <1>26 DEF NumberInv

(***************************************************************************)
(* A planned document is inserted: its number moves from the plan to the   *)
(* documents, and is looked for in the plan no more.                       *)
(***************************************************************************)
LEMMA Drafted ==
  ASSUME NumberInv, NEW p \in Procs, Draft(p)
  PROVE  NumberInv'
<1>1. PICK old : old = doing[p]
  OBVIOUS
<1>2. IsHandler(old) /\ old.do = "draft" /\ old.plan # <<>>
  BY <1>1 DEF NumberInv, HandlersTyped, IsHandler, Draft, At
<1>3. /\ old.plan \in Seq(Planned) /\ Len(old.plan) \in Nat /\ Len(old.plan) >= 1
      /\ Head(old.plan) = old.plan[1]
  BY <1>2 DEF IsHandler
<1>4. PICK row : row = [type |-> Head(old.plan).type, number |-> Head(old.plan).number,
                        status |-> "DRAFT"]
  OBVIOUS
<1>5. old.plan[1] \in Planned
  BY <1>3
<1>6. row \in Document /\ row.type = old.plan[1].type /\ row.number = old.plan[1].number
  BY <1>3, <1>4, <1>5 DEF Planned, Document
<1>7. PICK h : h = [old EXCEPT !.do = "render", !.read = Len(docs) + 1]
  OBVIOUS
<1>8. IsHandler(h) /\ h.plan = old.plan /\ h.do = "render"
  BY <1>2, <1>7 DEF IsHandler, Tasks
<1>9. docs' = Append(docs, row) /\ lastNumber' = lastNumber /\ doing' = [doing EXCEPT ![p] = h]
  BY <1>1, <1>4, <1>7 DEF Draft, Then
<1>10. \A q \in Procs : doing'[q] = IF q = p THEN h ELSE doing[q]
  BY <1>9 DEF NumberInv, PapersTyped
<1>11. /\ docs' \in Seq(Document) /\ Len(docs') = Len(docs) + 1 /\ Len(docs) \in Nat
       /\ docs'[Len(docs) + 1] = row
       /\ \A n \in 1..Len(docs) : docs'[n] = docs[n]
  BY <1>6, <1>9 DEF NumberInv, PapersTyped
<1>12. \A n \in 1..Len(docs') : \/ n \in 1..Len(docs) /\ docs'[n] = docs[n]
                                \/ n = Len(docs) + 1 /\ docs'[n] = row
  BY <1>11
<1>13. PapersTyped' /\ HandlersTyped'
  <2>1. doing' = [q \in Procs |-> doing'[q]]
    BY <1>9 DEF NumberInv, PapersTyped
  <2>2. PapersTyped'
    BY <1>9, <1>11, <2>1 DEF NumberInv, PapersTyped
  <2>3. \A q \in Procs : IsHandler(doing'[q])
    BY <1>8, <1>10 DEF NumberInv, HandlersTyped
  <2>4. QED
    BY <2>2, <2>3 DEF HandlersTyped, IsHandler
<1>14. Unwritten(old) = 1..Len(old.plan) /\ Unwritten(h) = 2..Len(old.plan)
  BY <1>2, <1>8 DEF Unwritten
<1>15. \A q \in Procs : \A n \in Unwritten(doing'[q]) :
         /\ n \in Unwritten(doing[q]) /\ doing'[q].plan[n] = doing[q].plan[n]
         /\ q = p => n # 1
  BY <1>1, <1>3, <1>8, <1>10, <1>14
<1>16. 1 \in Unwritten(doing[p]) /\ Same(row, doing[p].plan[1])
  BY <1>1, <1>3, <1>6, <1>14 DEF Same
<1>17. \A a : Same(row, a) <=> Same(doing[p].plan[1], a)
  BY <1>1, <1>6 DEF Same
<1>18. \A a : Same(a, row) <=> Same(a, doing[p].plan[1])
  BY <1>1, <1>6 DEF Same
<1>19. DocsGiven'
  <2>1. GivenOut(row)
    BY <1>1, <1>6, <1>16 DEF NumberInv, PlansGiven, GivenOut
  <2>2. \A n \in 1..Len(docs') : GivenOut(docs'[n])
    BY <1>12, <2>1 DEF NumberInv, DocsGiven
  <2>3. QED
    BY <1>9, <2>2 DEF DocsGiven, GivenOut
<1>20. PlansGiven'
  <2>1. \A q \in Procs : \A n \in Unwritten(doing'[q]) : GivenOut(doing'[q].plan[n])
    BY <1>15 DEF NumberInv, PlansGiven
  <2>2. QED
    BY <1>9, <2>1 DEF PlansGiven, GivenOut, Unwritten
<1>21. DocsDiffer'
  <2>1. \A n \in 1..Len(docs) : ~Same(docs[n], row) /\ ~Same(row, docs[n])
    BY <1>16, <1>17, <1>18 DEF NumberInv, PlansAreNew, Same
  <2>2. ASSUME NEW m \in 1..Len(docs'), NEW n \in 1..Len(docs'), m # n
        PROVE  ~Same(docs'[m], docs'[n])
    BY <1>12, <2>1, <2>2 DEF NumberInv, DocsDiffer
  <2>3. QED
    BY <2>2 DEF DocsDiffer, Same
<1>22. PlansDiffer'
  <2>1. \A q, r \in Procs : \A m \in Unwritten(doing'[q]), n \in Unwritten(doing'[r]) :
          q # r \/ m # n => ~Same(doing'[q].plan[m], doing'[r].plan[n])
    BY <1>15 DEF NumberInv, PlansDiffer
  <2>2. QED
    BY <2>1 DEF PlansDiffer, Unwritten, Same
<1>23. PlansAreNew'
  <2>1. ASSUME NEW q \in Procs, NEW m \in Unwritten(doing'[q]), NEW n \in 1..Len(docs')
        PROVE  ~Same(doing'[q].plan[m], docs'[n])
    <3>1. /\ m \in Unwritten(doing[q]) /\ doing'[q].plan[m] = doing[q].plan[m]
          /\ q # p \/ m # 1
      BY <1>15
    <3>2. CASE n \in 1..Len(docs) /\ docs'[n] = docs[n]
      BY <3>1, <3>2 DEF NumberInv, PlansAreNew
    <3>3. CASE docs'[n] = row
      BY <1>16, <1>18, <3>1, <3>3 DEF NumberInv, PlansDiffer
    <3>4. QED
      BY <1>12, <3>2, <3>3
  <2>2. QED
    BY <2>1 DEF PlansAreNew, Unwritten, Same
<1>24. QED
  BY <1>13, <1>19, <1>20, <1>21, <1>22, <1>23 DEF NumberInv

(***************************************************************************)
(* An inserted document is rendered or not; the plan loses its first       *)
(* document, whose number the handler no longer owes to anything.          *)
(***************************************************************************)
LEMMA Rendered ==
  ASSUME NumberInv, NEW p \in Procs, Render(p)
  PROVE  NumberInv'
<1>1. PICK old : old = doing[p]
  OBVIOUS
<1>2. IsHandler(old) /\ old.do = "render" /\ old.plan # <<>>
  BY <1>1 DEF NumberInv, HandlersTyped, IsHandler, Render, At
<1>3. /\ old.plan \in Seq(Planned) /\ Len(old.plan) \in Nat /\ Len(old.plan) >= 1
      /\ Tail(old.plan) \in Seq(Planned) /\ Len(Tail(old.plan)) = Len(old.plan) - 1
      /\ \A n \in 1..Len(Tail(old.plan)) : Tail(old.plan)[n] = old.plan[n + 1]
  BY <1>2 DEF IsHandler
<1>4. DocsStay /\ lastNumber' = lastNumber
  <2>k. PICK k : k = doing[p].read
    OBVIOUS
  <2>s. PICK s \in {"ISSUED", "FAILED"} : docs' = [docs EXCEPT ![doing[p].read].status = s]
    BY DEF Render
  <2>1. docs' = [docs EXCEPT ![k] = [docs[k] EXCEPT !.status = s]]
    BY <2>k, <2>s
  <2>2. docs \in Seq(Document)
    BY DEF NumberInv, PapersTyped
  <2>3. ASSUME NEW d \in Document
        PROVE  /\ [d EXCEPT !.status = s] \in Document
               /\ [d EXCEPT !.status = s].type = d.type
               /\ [d EXCEPT !.status = s].number = d.number
    BY DEF Document
  <2>4. \A n \in 1..Len(docs) : docs[n] \in Document
    BY <2>2
  <2>5. PICK row : row = [docs[k] EXCEPT !.status = s]
    OBVIOUS
  <2>6. k \in 1..Len(docs) => row \in Document /\ row.type = docs[k].type
                               /\ row.number = docs[k].number
    BY <2>3, <2>4, <2>5
  <2>7. docs' = [docs EXCEPT ![k] = row]
    BY <2>1, <2>5
  <2>8. /\ docs' \in Seq(Document) /\ Len(docs') = Len(docs)
        /\ \A n \in 1..Len(docs) : docs'[n] = IF n = k THEN row ELSE docs[n]
    <3>1. CASE k \in 1..Len(docs)
      BY <2>2, <2>6, <2>7, <3>1, ExceptSeq
    <3>2. CASE k \notin 1..Len(docs)
      <4>1. docs' = docs
        BY <2>2, <2>7, <3>2
      <4>2. QED
        BY <2>2, <3>2, <4>1
    <3>3. QED
      BY <3>1, <3>2
  <2>9. QED
    BY <2>6, <2>8 DEF DocsStay, Render
<1>5. CASE Tail(old.plan) = <<>>
  BY <1>1, <1>4, <1>5, HandlerEnds DEF Render, Finish
<1>6. CASE Tail(old.plan) # <<>>
  <2>1. PICK h : h = [old EXCEPT !.do = "draft", !.plan = Tail(old.plan)]
    OBVIOUS
  <2>2. IsHandler(h) /\ h.plan = Tail(old.plan) /\ h.do = "draft"
    BY <1>2, <1>3, <1>6, <2>1 DEF IsHandler, Tasks
  <2>3. doing' = [doing EXCEPT ![p] = h]
    BY <1>1, <1>6, <2>1 DEF Render, Then
  <2>4. \A n \in Unwritten(h) : n + 1 \in Unwritten(old) /\ h.plan[n] = old.plan[n + 1]
    BY <1>2, <1>3, <2>2 DEF Unwritten
  <2>5. PICK shift \in Nat : shift = 1
    OBVIOUS
  <2>6. \A n \in Unwritten(h) : /\ n + shift \in Unwritten(doing[p])
                                /\ h.plan[n] = doing[p].plan[n + shift]
    BY <1>1, <2>4, <2>5
  <2>7. IsHandler(h)
    BY <2>2
  <2>8. DocsStay /\ lastNumber' = lastNumber
    BY <1>4
  <2>9. QED
    BY <2>3, <2>6, <2>7, <2>8, PlanShrinks
<1>7. QED
  BY <1>5, <1>6

(***************************************************************************)
(* NumberInv is inductive.                                                 *)
(***************************************************************************)
LEMMA InitNumbers == Init => NumberInv
<1> SUFFICES ASSUME Init PROVE NumberInv
  OBVIOUS
<1>1. docs \in Seq(Document) /\ Len(docs) = 0 /\ lastNumber \in [NumberTypes -> Nat]
  BY DEF Init
<1>2. \A p \in Procs : doing[p] = Idle
  BY DEF Init
<1>3. IsHandler(Idle) /\ Unwritten(Idle) = {}
  BY DEF Idle, IsHandler, Tasks, Unwritten
<1>4. doing = [p \in Procs |-> doing[p]]
  BY DEF Init
<1>5. QED
  BY <1>1, <1>2, <1>3, <1>4 DEF NumberInv, PapersTyped, HandlersTyped, DocsGiven, PlansGiven,
     DocsDiffer, PlansDiffer, PlansAreNew

\* A step of an endpoint or of a running handler keeps NumberInv.
LEMMA ProcKeepsNumbers ==
  ASSUME NumberInv, NEW p \in Procs, Start(p) \/ Step(p)
  PROVE  NumberInv'
<1>1. IsHandler(doing[p])
  BY DEF NumberInv, HandlersTyped
<1>2. PICK idle : idle = Idle
  OBVIOUS
<1>a. IsHandler(idle) /\ idle.plan = <<>>
  BY <1>2 DEF Idle, IsHandler, Tasks
<1>3. CASE \E n \in 1..MaxAmount : RequestPayout(p, n)
  <2>1. PICK n \in 1..MaxAmount : RequestPayout(p, n)
    BY <1>3
  <2>2. PICK h : h = [idle EXCEPT !.do = "balance", !.amount = n]
    OBVIOUS
  <2>3. IsHandler(h) /\ h.plan = <<>>
    BY <1>a, <2>2 DEF IsHandler, Tasks
  <2>4. QED
    BY <1>2, <2>1, <2>2, <2>3, HandlerBegins DEF RequestPayout
<1>4. CASE \E r \in Payouts, to \in PayoutStatuses : Decide(p, r, to)
  <2>1. PICK r \in Payouts, to \in PayoutStatuses : Decide(p, r, to)
    BY <1>4
  <2>2. PICK h : h = [idle EXCEPT !.do = IF to = "PAID" THEN "profile" ELSE "write",
                                  !.id = r, !.to = to]
    OBVIOUS
  <2>3. IsHandler(h) /\ h.plan = <<>>
    BY <1>a, <2>2 DEF IsHandler, Tasks
  <2>4. QED
    BY <1>2, <2>1, <2>2, <2>3, HandlerBegins DEF Decide
<1>5. CASE Complain(p)
  <2>1. PICK h : h = [Idle EXCEPT !.do = "open"]
    OBVIOUS
  <2>2. IsHandler(h) /\ h.plan = <<>>
    BY <2>1 DEF Idle, IsHandler, Tasks
  <2>3. QED
    BY <1>5, <2>1, <2>2, HandlerBegins DEF Complain
<1>6. CASE \E to \in SettlementStatuses : MoveSettlement(p, to)
  <2>1. PICK to \in SettlementStatuses : MoveSettlement(p, to)
    BY <1>6
  <2>2. PICK h : h = [idle EXCEPT !.do = "settle", !.to = to]
    OBVIOUS
  <2>3. IsHandler(h) /\ h.plan = <<>>
    BY <1>a, <2>2 DEF IsHandler, Tasks
  <2>4. QED
    BY <1>2, <2>1, <2>2, <2>3, HandlerBegins DEF MoveSettlement
<1>7. CASE IssueDocuments(p)
  <2>1. PICK h : h = [Idle EXCEPT !.do = "number"]
    OBVIOUS
  <2>2. IsHandler(h) /\ h.plan = <<>>
    BY <2>1, RequiredIsTyped DEF Idle, IsHandler, Tasks
  <2>3. QED
    BY <1>7, <2>1, <2>2, HandlerBegins DEF IssueDocuments
<1>9. ASSUME UNCHANGED papers \/ UNCHANGED <<docs, lastNumber>>
      PROVE  DocsStay /\ lastNumber' = lastNumber
  BY <1>9 DEF papers, DocsStay, NumberInv, PapersTyped
<1>10. CASE ReadBalance(p)
  <2>1. PICK h : h = [doing[p] EXCEPT !.do = "pending", !.read = Balance]
    OBVIOUS
  <2>2. doing[p].do = "balance"
    BY <1>10 DEF ReadBalance, At
  <2>3. IsHandler(h) /\ h.plan = doing[p].plan /\ h.do = "pending"
    BY <1>1, <2>1 DEF IsHandler, Tasks
  <2>4. doing' = [doing EXCEPT ![p] = h]
    BY <1>10, <2>1 DEF ReadBalance, Then
  <2>5. DocsStay /\ lastNumber' = lastNumber
    BY <1>9, <1>10 DEF ReadBalance
  <2>6. QED
    BY <2>2, <2>3, <2>4, <2>5, PlanKept
<1>11. CASE ReadPending(p)
  <2>1. DocsStay /\ lastNumber' = lastNumber /\ doing[p].do = "pending"
    BY <1>9, <1>11 DEF ReadPending, At
  <2>2. Go(p, "create") \/ Finish(p)
    BY <1>11 DEF ReadPending
  <2>3. QED
    BY <2>1, <2>2, HandlerGoesOn, HandlerEnds DEF Tasks
<1>12. CASE CreatePayout(p)
  BY <1>9, <1>12, HandlerEnds DEF CreatePayout
<1>13. CASE WriteStatus(p)
  BY <1>9, <1>13, HandlerEnds DEF WriteStatus
<1>14. CASE CheckProfile(p)
  <2>1. DocsStay /\ lastNumber' = lastNumber /\ doing[p].do = "profile"
    BY <1>9, <1>14 DEF CheckProfile, At
  <2>2. Go(p, "sum") \/ Finish(p)
    BY <1>14 DEF CheckProfile
  <2>3. QED
    BY <2>1, <2>2, HandlerGoesOn, HandlerEnds DEF Tasks
<1>15. CASE SumLedger(p)
  <2>1. DocsStay /\ lastNumber' = lastNumber /\ doing[p].do = "sum"
    BY <1>9, <1>15 DEF SumLedger, At
  <2>2. Go(p, "pay") \/ Finish(p)
    BY <1>15 DEF SumLedger
  <2>3. QED
    BY <2>1, <2>2, HandlerGoesOn, HandlerEnds DEF Tasks
<1>16. CASE Pay(p)
  BY <1>9, <1>16, HandlerEnds DEF Pay
<1>17. CASE OpenDispute(p)
  BY <1>9, <1>17, HandlerEnds DEF OpenDispute
<1>18. CASE WriteSettlement(p)
  BY <1>9, <1>18, HandlerEnds DEF WriteSettlement
<1>19. CASE NextNumber(p)
  BY <1>19, NumberTaken
<1>20. CASE Validate(p)
  <2>1. DocsStay /\ lastNumber' = lastNumber /\ doing[p].do = "validate"
    BY <1>9, <1>20 DEF Validate, At
  <2>2. doing[p].plan # <<>>
    BY <1>1, <2>1 DEF IsHandler
  <2>3. Go(p, "draft") \/ Finish(p)
    BY <1>20 DEF Validate
  <2>4. QED
    BY <2>1, <2>2, <2>3, HandlerGoesOn, HandlerEnds DEF Tasks
<1>21. CASE Draft(p)
  BY <1>21, Drafted
<1>22. CASE Render(p)
  BY <1>22, Rendered
<1>23. QED
  BY <1>3, <1>4, <1>5, <1>6, <1>7, <1>10, <1>11, <1>12, <1>13, <1>14, <1>15, <1>16, <1>17,
     <1>18, <1>19, <1>20, <1>21, <1>22 DEF Start, Step

\* Cancelling changes the status of one document.
LEMMA CancelKeepsNumbers == NumberInv /\ CancelDocument => NumberInv'
<1> SUFFICES ASSUME NumberInv, CancelDocument PROVE NumberInv'
  OBVIOUS
<1>1. PICK k \in 1..Len(docs) : docs' = [docs EXCEPT ![k].status = "CANCELED"]
  BY DEF CancelDocument
<1>2. docs \in Seq(Document)
  BY DEF NumberInv, PapersTyped
<1>3. PICK row : row = [docs[k] EXCEPT !.status = "CANCELED"]
  OBVIOUS
<1>4. docs[k] \in Document
  BY <1>2
<1>5. row \in Document /\ row.type = docs[k].type /\ row.number = docs[k].number
  BY <1>3, <1>4 DEF Document
<1>6. docs' = [docs EXCEPT ![k] = row]
  BY <1>1, <1>3
<1>7. /\ docs' \in Seq(Document) /\ Len(docs') = Len(docs)
      /\ \A n \in 1..Len(docs) : docs'[n] = IF n = k THEN row ELSE docs[n]
  BY <1>2, <1>5, <1>6, ExceptSeq
<1>8. DocsStay
  BY <1>5, <1>7 DEF DocsStay
<1>9. QED
  BY <1>8, OnlyStatus DEF CancelDocument

\* A restart forgets the plans; the numbers they held are never given again.
LEMMA CrashKeepsNumbers == NumberInv /\ Crash => NumberInv'
<1> SUFFICES ASSUME NumberInv, Crash PROVE NumberInv'
  OBVIOUS
<1>1. UNCHANGED <<docs, lastNumber>>
  BY DEF Crash, papers
<1>2. \A p \in Procs : doing'[p] = Idle
  BY DEF Crash
<1>3. IsHandler(Idle) /\ Unwritten(Idle) = {}
  BY DEF Idle, IsHandler, Tasks, Unwritten
<1>4. doing' = [p \in Procs |-> doing'[p]]
  BY DEF Crash
<1>5. \A p \in Procs : IsHandler(doing'[p]) /\ Unwritten(doing'[p]) = {}
  BY <1>2, <1>3
<1>6. PapersTyped' /\ DocsGiven' /\ DocsDiffer'
  BY <1>1, <1>4 DEF NumberInv, PapersTyped, DocsGiven, DocsDiffer, GivenOut, Same
<1>7. HandlersTyped'
  BY <1>5 DEF HandlersTyped, IsHandler
<1>8. PlansGiven' /\ PlansDiffer' /\ PlansAreNew'
  BY <1>5 DEF PlansGiven, PlansDiffer, PlansAreNew, Unwritten
<1>9. QED
  BY <1>6, <1>7, <1>8 DEF NumberInv

\* Every step keeps NumberInv.
LEMMA NextKeepsNumbers == NumberInv /\ [Next]_vars => NumberInv'
<1> SUFFICES ASSUME NumberInv, [Next]_vars PROVE NumberInv'
  OBVIOUS
<1>1. CASE \E p \in Procs : Start(p) \/ Step(p)
  BY <1>1, ProcKeepsNumbers
<1>2. CASE \E d \in Disputes : ResolveDispute(d)
  BY <1>2, NothingMoves DEF ResolveDispute, papers
<1>3. CASE RecordSale
  BY <1>3, NothingMoves DEF RecordSale, papers
<1>4. CASE JudgeProfile
  BY <1>4, NothingMoves DEF JudgeProfile, papers
<1>5. CASE Calculate
  BY <1>5, NothingMoves DEF Calculate
<1>6. CASE CancelDocument
  BY <1>6, CancelKeepsNumbers
<1>7. CASE Crash
  BY <1>7, CrashKeepsNumbers
<1>8. CASE UNCHANGED vars
  BY <1>8, NothingMoves DEF vars, papers
<1>9. QED
  BY <1>1, <1>2, <1>3, <1>4, <1>5, <1>6, <1>7, <1>8 DEF Next

(***************************************************************************)
(* No two documents of one type carry the same number, whichever sets are  *)
(* issued together, wherever they fail and whenever the server restarts    *)
(* (DocumentNumberingService.nextNumber and its callers).                  *)
(***************************************************************************)
THEOREM NumbersStayUnique == Spec => []NumbersAreUnique
<1>1. NumberInv => NumbersAreUnique
  BY DEF NumberInv, DocsDiffer, Same, NumbersAreUnique
<1>2. QED
  BY <1>1, InitNumbers, NextKeepsNumbers, PTL DEF Spec

-----------------------------------------------------------------------------
(***************************************************************************)
(* The types of the rest.  A handler that decides on a request has found   *)
(* the row, and what it will write is a status.                            *)
(***************************************************************************)
Deciding == {"profile", "sum", "pay", "write"}

TaskFits(h) ==
  /\ h.id \in Payouts \cup {NoId}
  /\ h.do \in Deciding => h.id \in Payouts
  /\ h.do = "write" => h.to \in PayoutStatuses
  /\ h.do = "settle" => h.to \in SettlementStatuses
  /\ h.do \in {"balance", "pending", "create"} => h.amount \in Nat

PayoutRow == [status : PayoutStatuses \cup {"none"}, amount : Nat, blocked : BOOLEAN]

RowsTyped ==
  /\ scene \in Scenes /\ verified \in BOOLEAN /\ sold \in Nat /\ faults \in Nat
  /\ entries \in [Payouts -> Nat] /\ payout \in [Payouts -> PayoutRow]
  /\ dispute \in [Disputes -> {"none", "OPEN", "CLOSED"}]
  /\ covers \in [Disputes -> SUBSET Payouts]
  /\ settlement \in SettlementStatuses

MoneyInv == RowsTyped /\ \A p \in Procs : TaskFits(doing[p])

\* A handler's record after a change of one field or two.
LEMMA TaskChanged ==
  ASSUME NEW h, IsHandler(h), NEW to, NEW number, NEW plan
  PROVE  /\ LET g == [h EXCEPT !.do = to] IN
              g.do = to /\ g.id = h.id /\ g.to = h.to /\ g.amount = h.amount
         /\ LET g == [h EXCEPT !.do = to, !.read = number] IN
              g.do = to /\ g.id = h.id /\ g.to = h.to /\ g.amount = h.amount
         /\ LET g == [h EXCEPT !.plan = plan, !.do = to] IN
              g.do = to /\ g.id = h.id /\ g.to = h.to /\ g.amount = h.amount
         /\ LET g == [h EXCEPT !.do = to, !.plan = plan] IN
              g.do = to /\ g.id = h.id /\ g.to = h.to /\ g.amount = h.amount
BY DEF IsHandler

\* A process that rests has no task that could be out of date.
LEMMA IdleFits == TaskFits(Idle) /\ Idle.do = "idle" /\ Idle.do \notin Deciding
BY DEF TaskFits, Idle, Deciding

\* What has been looked at when a task begins, and what is left of it later.
Admitted(h) ==
  /\ h.do = "open" => StillOpen = {}
  /\ h.do \in Deciding => ~payout[h.id].blocked

GoesOn(p, h) ==
  /\ h.do # "open"
  /\ h.do \in Deciding => doing[p].do \in Deciding /\ h.id = doing[p].id

\* A task that begins has found what it is about.
LEMMA TasksBegin ==
  ASSUME NEW p \in Procs, Start(p)
  PROVE  \E h, role : Begin(role, p, h) /\ TaskFits(h) /\ Admitted(h)
<1>1. ASSUME NEW n \in 1..MaxAmount, RequestPayout(p, n)
      PROVE  \E h, role : Begin(role, p, h) /\ TaskFits(h) /\ Admitted(h)
  <2> DEFINE h == [Idle EXCEPT !.do = "balance", !.amount = n]
  <2>1. TaskFits(h) /\ Admitted(h)
    BY DEF TaskFits, Admitted, Deciding, Idle
  <2> QED
    BY <1>1, <2>1 DEF RequestPayout
<1>2. ASSUME NEW r \in Payouts, NEW to \in PayoutStatuses, Decide(p, r, to)
      PROVE  \E h, role : Begin(role, p, h) /\ TaskFits(h) /\ Admitted(h)
  <2> DEFINE h == [Idle EXCEPT !.do = IF to = "PAID" THEN "profile" ELSE "write", !.id = r, !.to = to]
  <2>1. TaskFits(h) /\ Admitted(h)
    BY <1>2 DEF Decide, TaskFits, Admitted, Deciding, Idle
  <2> QED
    BY <1>2, <2>1 DEF Decide
<1>3. CASE Complain(p)
  <2> DEFINE h == [Idle EXCEPT !.do = "open"]
  <2>1. TaskFits(h) /\ Admitted(h)
    BY <1>3 DEF Complain, TaskFits, Admitted, Deciding, Idle
  <2> QED
    BY <1>3, <2>1 DEF Complain
<1>4. ASSUME NEW to \in SettlementStatuses, MoveSettlement(p, to)
      PROVE  \E h, role : Begin(role, p, h) /\ TaskFits(h) /\ Admitted(h)
  <2> DEFINE h == [Idle EXCEPT !.do = "settle", !.to = to]
  <2>1. TaskFits(h) /\ Admitted(h)
    BY DEF TaskFits, Admitted, Deciding, Idle
  <2> QED
    BY <1>4, <2>1 DEF MoveSettlement
<1>5. CASE IssueDocuments(p)
  <2> DEFINE h == [Idle EXCEPT !.do = "number"]
  <2>1. TaskFits(h) /\ Admitted(h)
    BY DEF TaskFits, Admitted, Deciding, Idle
  <2> QED
    BY <1>5, <2>1 DEF IssueDocuments
<1> QED
  BY <1>1, <1>2, <1>3, <1>4, <1>5 DEF Start

\* A task that goes on is about what it was about.
LEMMA TasksGoOn ==
  ASSUME NumberInv, MoneyInv, NEW p \in Procs, Step(p)
  PROVE  \E h : Then(p, h) /\ TaskFits(h) /\ GoesOn(p, h)
<1>a. IsHandler(doing[p]) /\ TaskFits(doing[p])
  BY DEF NumberInv, HandlersTyped, MoneyInv
<1>1. CASE Finish(p)
  BY <1>1, IdleFits DEF Finish, GoesOn
<1>2. ASSUME NEW to, Go(p, to), \/ to \in {"validate", "draft"}
                                \/ At(p, "profile") /\ to = "sum"
                                \/ At(p, "sum") /\ to = "pay"
                                \/ At(p, "pending") /\ to = "create"
      PROVE  \E h : Then(p, h) /\ TaskFits(h) /\ GoesOn(p, h)
  <2> DEFINE h == [doing[p] EXCEPT !.do = to]
  <2>1. h.do = to /\ h.id = doing[p].id /\ h.to = doing[p].to /\ h.amount = doing[p].amount
    BY <1>a, TaskChanged
  <2>2. TaskFits(h) /\ GoesOn(p, h)
    BY <1>a, <1>2, <2>1 DEF TaskFits, GoesOn, Deciding, At
  <2> QED
    BY <1>2, <2>2 DEF Go
<1>3. CASE ReadBalance(p)
  <2> DEFINE h == [doing[p] EXCEPT !.do = "pending", !.read = Balance]
  <2>1. h.do = "pending" /\ h.id = doing[p].id /\ h.to = doing[p].to /\ h.amount = doing[p].amount
    BY <1>a, TaskChanged
  <2>2. TaskFits(h) /\ GoesOn(p, h)
    BY <1>a, <1>3, <2>1 DEF TaskFits, GoesOn, Deciding, ReadBalance, At
  <2> QED
    BY <1>3, <2>2 DEF ReadBalance
<1>4. CASE NextNumber(p)
  <2> DEFINE type == Required[Len(doing[p].plan) + 1]
             plan == Append(doing[p].plan, [type |-> type, number |-> lastNumber[NumberType(type)] + 1])
             to == IF Len(plan) < Len(Required) THEN "number" ELSE "validate"
  <2>1. Then(p, [doing[p] EXCEPT !.plan = plan, !.do = to]) /\ to \in {"number", "validate"}
    BY <1>4 DEF NextNumber
  <2> HIDE DEF plan, to
  <2> DEFINE h == [doing[p] EXCEPT !.plan = plan, !.do = to]
  <2>2. h.do = to /\ h.id = doing[p].id /\ h.to = doing[p].to /\ h.amount = doing[p].amount
    BY <1>a, TaskChanged
  <2>3. TaskFits(h) /\ GoesOn(p, h)
    <3> HIDE DEF h
    <3> QED
      BY <1>a, <2>1, <2>2 DEF TaskFits, GoesOn, Deciding
  <2> QED
    BY <2>1, <2>3
<1>5. CASE Draft(p)
  <2> DEFINE h == [doing[p] EXCEPT !.do = "render", !.read = Len(docs) + 1]
  <2>1. h.do = "render" /\ h.id = doing[p].id
    BY <1>a, TaskChanged
  <2>2. TaskFits(h) /\ GoesOn(p, h)
    BY <1>a, <2>1 DEF TaskFits, GoesOn, Deciding
  <2> QED
    BY <1>5, <2>2 DEF Draft
<1>6. CASE Render(p)
  <2>1. PICK rest : Then(p, IF rest = <<>> THEN Idle ELSE [doing[p] EXCEPT !.do = "draft", !.plan = rest])
    BY <1>6 DEF Render
  <2> DEFINE h == [doing[p] EXCEPT !.do = "draft", !.plan = rest]
  <2>2. h.do = "draft" /\ h.id = doing[p].id
    BY <1>a, TaskChanged
  <2>3. TaskFits(h) /\ GoesOn(p, h)
    BY <1>a, <2>2 DEF TaskFits, GoesOn, Deciding
  <2> QED
    BY <2>1, <2>3, IdleFits DEF GoesOn
<1> QED
  BY <1>1, <1>2, <1>3, <1>4, <1>5, <1>6
     DEF Step, ReadPending, CreatePayout, WriteStatus, CheckProfile, SumLedger, Pay, OpenDispute,
         WriteSettlement, Validate

\* The other handlers' tasks are as they were.
LEMMA OthersWait ==
  ASSUME NumberInv, NEW p \in Procs, NEW h, doing' = [doing EXCEPT ![p] = h]
  PROVE  \A q \in Procs : doing'[q] = IF q = p THEN h ELSE doing[q]
BY DEF NumberInv, PapersTyped

\* No step leaves a process with a task whose fields do not fit it.
LEMMA TasksKept ==
  ASSUME NumberInv, MoneyInv, [Next]_vars
  PROVE  \A q \in Procs : TaskFits(doing'[q])
<1>a. \A q \in Procs : TaskFits(doing[q])
  BY DEF MoneyInv
<1>1. ASSUME NEW p \in Procs, Start(p) \/ Step(p)
      PROVE  \A q \in Procs : TaskFits(doing'[q])
  <2>1. PICK h : doing' = [doing EXCEPT ![p] = h] /\ TaskFits(h)
    BY <1>1, TasksBegin, TasksGoOn DEF Begin, Then
  <2> QED
    BY <2>1, <1>a, OthersWait
<1>2. CASE Crash
  BY <1>2, IdleFits DEF Crash
<1>3. CASE doing' = doing
  BY <1>3, <1>a
<1> QED
  BY <1>1, <1>2, <1>3 DEF Next, ResolveDispute, RecordSale, JudgeProfile, Calculate, CancelDocument, vars

\* A request's row after a change.
LEMMA RowChanged ==
  ASSUME NEW row \in PayoutRow, NEW to, NEW flag
  PROVE  /\ LET w == [row EXCEPT !.status = to] IN
              /\ w.status = to /\ w.blocked = row.blocked
              /\ to \in PayoutStatuses => w \in PayoutRow
         /\ LET w == [row EXCEPT !.blocked = flag] IN
              /\ w.status = row.status /\ w.blocked = flag
              /\ flag \in BOOLEAN => w \in PayoutRow
BY DEF PayoutRow

\* Nor does a step of a task write a row, an amount or a dispute out of its type.
LEMMA StepKeepsRows ==
  ASSUME NumberInv, MoneyInv, NEW p \in Procs, Step(p)
  PROVE  RowsTyped'
<1>a. TaskFits(doing[p]) /\ RowsTyped
  BY DEF MoneyInv
<1>b. UNCHANGED <<scene, verified, sold, faults>>
  BY DEF Step, ReadBalance, ReadPending, CreatePayout, WriteStatus, CheckProfile, SumLedger, Pay,
         OpenDispute, WriteSettlement, NextNumber, Validate, Draft, Render, money
<1>1. CASE CreatePayout(p)
  <2>1. PICK r \in Payouts :
          payout' = [payout EXCEPT ![r] = [status |-> "NEW", amount |-> doing[p].amount, blocked |-> FALSE]]
    BY <1>1 DEF CreatePayout
  <2>2. [status |-> "NEW", amount |-> doing[p].amount, blocked |-> FALSE] \in PayoutRow
    BY <1>1, <1>a DEF CreatePayout, At, TaskFits, Deciding, PayoutRow, PayoutStatuses
  <2> QED
    BY <1>1, <1>a, <1>b, <2>1, <2>2 DEF CreatePayout, RowsTyped, claims, papers
<1>2. CASE WriteStatus(p) \/ Pay(p)
  <2>1. doing[p].id \in Payouts
    BY <1>2, <1>a DEF WriteStatus, Pay, At, TaskFits, Deciding
  <2>2. PICK to \in PayoutStatuses :
          payout' = [payout EXCEPT ![doing[p].id] = [payout[doing[p].id] EXCEPT !.status = to]]
    BY <1>2, <1>a DEF WriteStatus, Pay, At, TaskFits, Deciding, PayoutStatuses
  <2>3. [payout[doing[p].id] EXCEPT !.status = to] \in PayoutRow
    BY <2>1, <1>a, RowChanged DEF RowsTyped
  <2>4. payout' \in [Payouts -> PayoutRow]
    BY <2>1, <2>2, <2>3, <1>a DEF RowsTyped
  <2>5. entries' \in [Payouts -> Nat]
    BY <1>2, <2>1, <1>a DEF WriteStatus, Pay, RowsTyped
  <2> QED
    BY <1>2, <1>a, <1>b, <2>4, <2>5 DEF WriteStatus, Pay, RowsTyped, claims, papers
<1>3. CASE OpenDispute(p)
  <2>1. payout' = [r \in Payouts |-> IF Open(r) THEN [payout[r] EXCEPT !.blocked = TRUE] ELSE payout[r]]
    BY <1>3 DEF OpenDispute
  <2>2. \A r \in Payouts : [payout[r] EXCEPT !.blocked = TRUE] \in PayoutRow
    BY <1>a, RowChanged DEF RowsTyped
  <2>3. payout' \in [Payouts -> PayoutRow]
    BY <2>1, <2>2, <1>a DEF RowsTyped
  <2>4. PICK d \in Disputes : /\ dispute' = [dispute EXCEPT ![d] = "OPEN"]
                              /\ covers' = [covers EXCEPT ![d] = {r \in Payouts : Open(r)}]
    BY <1>3 DEF OpenDispute
  <2>5. {r \in Payouts : Open(r)} \in SUBSET Payouts
    OBVIOUS
  <2>6. dispute' \in [Disputes -> {"none", "OPEN", "CLOSED"}] /\ covers' \in [Disputes -> SUBSET Payouts]
    BY <2>4, <2>5, <1>a DEF RowsTyped
  <2> QED
    BY <1>3, <1>a, <1>b, <2>3, <2>6 DEF OpenDispute, RowsTyped, papers
<1>4. CASE WriteSettlement(p)
  BY <1>4, <1>a DEF WriteSettlement, At, TaskFits, Deciding, RowsTyped, money, claims
<1>5. CASE ReadBalance(p) \/ ReadPending(p) \/ CheckProfile(p) \/ SumLedger(p) \/ NextNumber(p)
           \/ Validate(p) \/ Draft(p) \/ Render(p)
  <2>1. UNCHANGED <<scene, verified, money, claims, settlement, faults>>
    BY <1>5 DEF ReadBalance, ReadPending, CheckProfile, SumLedger, NextNumber, Validate, Draft, Render,
                papers
  <2> QED
    BY <2>1, <1>a DEF RowsTyped, money, claims
<1> QED
  BY <1>1, <1>2, <1>3, <1>4, <1>5 DEF Step

\* The same for every step of the system.
LEMMA RowsKept ==
  ASSUME NumberInv, MoneyInv, [Next]_vars
  PROVE  RowsTyped'
<1>a. RowsTyped
  BY DEF MoneyInv
<1>1. ASSUME NEW p \in Procs, Start(p)
      PROVE  RowsTyped'
  <2>1. UNCHANGED <<scene, verified, money, claims, papers, faults>>
    BY <1>1, TasksBegin DEF Begin
  <2> QED
    BY <2>1, <1>a DEF RowsTyped, money, claims, papers
<1>2. ASSUME NEW d \in Disputes, ResolveDispute(d)
      PROVE  RowsTyped'
  <2>1. /\ dispute' = [dispute EXCEPT ![d] = "CLOSED"] /\ covers' = [covers EXCEPT ![d] = {}]
        /\ payout' = [r \in Payouts |-> [payout[r] EXCEPT !.blocked = FALSE]]
    BY <1>2 DEF ResolveDispute
  <2>2. payout' \in [Payouts -> PayoutRow]
    BY <2>1, <1>a, RowChanged DEF RowsTyped
  <2> QED
    BY <1>2, <2>1, <2>2, <1>a DEF ResolveDispute, RowsTyped, papers
<1>3. CASE RecordSale
  BY <1>3, <1>a DEF RecordSale, claims, papers, RowsTyped
<1>4. CASE JudgeProfile
  BY <1>4, <1>a DEF JudgeProfile, money, claims, papers, RowsTyped
<1>5. CASE Calculate
  BY <1>5, <1>a DEF Calculate, money, claims, RowsTyped, SettlementStatuses
<1>6. CASE CancelDocument
  BY <1>6, <1>a DEF CancelDocument, money, claims, RowsTyped
<1>7. CASE Crash
  BY <1>7, <1>a DEF Crash, money, claims, papers, RowsTyped
<1>8. CASE UNCHANGED vars
  BY <1>8, <1>a DEF vars, money, claims, papers, RowsTyped
<1> QED
  BY <1>1, <1>2, <1>3, <1>4, <1>5, <1>6, <1>7, <1>8, StepKeepsRows DEF Next

\* Tasks and rows have their types in every reachable state.
LEMMA MoneyHolds == Spec => [](NumberInv /\ MoneyInv)
<1>1. Init => MoneyInv
  <2> SUFFICES ASSUME Init PROVE MoneyInv
    OBVIOUS
  <2>1. NoRow \in PayoutRow
    BY DEF NoRow, PayoutRow
  <2> QED
    BY <2>1, IdleFits DEF Init, MoneyInv, RowsTyped, SettlementStatuses
<1>2. NumberInv /\ MoneyInv /\ [Next]_vars => MoneyInv'
  BY TasksKept, RowsKept DEF MoneyInv
<1> QED
  BY <1>1, <1>2, InitNumbers, NextKeepsNumbers, PTL DEF Spec

\* Every variable has its type, whoever acts at one time.
THEOREM TypeCorrect == Spec => []TypeOK
<1>1. NumberInv /\ MoneyInv => TypeOK
  <2> SUFFICES ASSUME NumberInv, MoneyInv PROVE TypeOK
    OBVIOUS
  <2>1. \A n \in 1..Len(docs) : docs[n] \in Document
    BY DEF NumberInv, PapersTyped
  <2>2. ASSUME NEW p \in Procs
        PROVE  /\ doing[p].do \in Tasks /\ doing[p].id \in Payouts \cup {NoId}
               /\ \A n \in 1..Len(doing[p].plan) : doing[p].plan[n] \in Planned
    <3>1. doing[p].plan \in Seq(Planned) /\ doing[p].do \in Tasks /\ TaskFits(doing[p])
      BY DEF NumberInv, HandlersTyped, IsHandler, MoneyInv
    <3>2. \A n \in 1..Len(doing[p].plan) : doing[p].plan[n] \in Planned
      BY <3>1
    <3> QED
      BY <3>1, <3>2 DEF TaskFits
  <2> QED
    BY <2>1, <2>2 DEF TypeOK, NumberInv, PapersTyped, MoneyInv, RowsTyped, PayoutRow, Document
<1> QED
  BY <1>1, MoneyHolds, PTL

-----------------------------------------------------------------------------
(***************************************************************************)
(* Disputes, while the endpoints are used as offered and one at a time.    *)
(* A request under decision is not blocked, those an open dispute covers   *)
(* are; so no decision is about one of them.                               *)
(***************************************************************************)
OneTask == \A p, q \in Procs : ~At(p, "idle") /\ ~At(q, "idle") => p = q
OneDispute == \A d, e \in StillOpen : d = e
AllAdmitted == \A p \in Procs : Admitted(doing[p])
CoveredStay == \A d \in StillOpen : \A r \in covers[d] : payout[r].blocked /\ Open(r)

FrozenInv == AsOffered => OneTask /\ OneDispute /\ AllAdmitted /\ CoveredStay

\* Where one handler may run, it begins when none does.
LEMMA NoneBusy ==
  ASSUME AsOffered, Cardinality(Busy) < scene.overlap
  PROVE  \A p \in Procs : At(p, "idle")
<1>1. IsFiniteSet(Busy)
  BY FS_Subset, FinanceAssumption DEF Busy
<1>2. Cardinality(Busy) \in Nat
  BY <1>1, FS_CardinalityType
<1>3. Cardinality(Busy) = 0
  BY <1>2 DEF AsOffered, OneAtATime
<1>4. Busy = {}
  BY <1>1, <1>3, FS_EmptySet
<1> QED
  BY <1>4 DEF Busy, At

\* The scene never changes.
LEMMA SceneStays == [Next]_vars => UNCHANGED scene
<1> SUFFICES ASSUME [Next]_vars PROVE UNCHANGED scene
  OBVIOUS
<1>1. ASSUME NEW p \in Procs, Start(p) PROVE UNCHANGED scene
  BY <1>1, TasksBegin DEF Begin
<1>2. ASSUME NEW p \in Procs, Step(p) PROVE UNCHANGED scene
  BY <1>2 DEF Step, ReadBalance, ReadPending, CreatePayout, WriteStatus, CheckProfile, SumLedger, Pay,
     OpenDispute, WriteSettlement, NextNumber, Validate, Draft, Render
<1>3. (\E d \in Disputes : ResolveDispute(d)) \/ RecordSale \/ JudgeProfile \/ Calculate \/ CancelDocument
      \/ Crash \/ UNCHANGED vars => UNCHANGED scene
  BY DEF ResolveDispute, RecordSale, JudgeProfile, Calculate, CancelDocument, Crash, vars
<1> QED
  BY <1>1, <1>2, <1>3 DEF Next

\* A handler's step leaves what disputes cover.
LEMMA StepLeavesCovered ==
  ASSUME NumberInv, MoneyInv, FrozenInv, AsOffered, NEW p \in Procs, Step(p)
  PROVE  OneDispute' /\ CoveredStay' /\ (doing[p].do \in Deciding => UNCHANGED payout \/ doing'[p] = Idle)
<1>a. RowsTyped /\ TaskFits(doing[p]) /\ OneDispute /\ Admitted(doing[p]) /\ CoveredStay
  BY DEF MoneyInv, FrozenInv, AllAdmitted
<1>b. doing = [q \in Procs |-> doing[q]] /\ \A r \in Payouts : payout[r] \in PayoutRow
  BY <1>a DEF NumberInv, PapersTyped, RowsTyped
<1>c. \A d \in Disputes : covers[d] \subseteq Payouts
  BY <1>a DEF RowsTyped
<1>1. CASE CreatePayout(p)
  <2>1. PICK r \in Payouts :
          /\ payout[r] = NoRow
          /\ payout' = [payout EXCEPT ![r] = [status |-> "NEW", amount |-> doing[p].amount, blocked |-> FALSE]]
    BY <1>1 DEF CreatePayout
  <2>2. \A d \in StillOpen : r \notin covers[d]
    BY <2>1, <1>a DEF CoveredStay, Open, NoRow
  <2>3. UNCHANGED <<dispute, covers>> /\ doing'[p] = Idle
    BY <1>1, <1>b DEF CreatePayout, claims, Finish, Then
  <2>4. \A q \in Payouts : q # r => payout'[q] = payout[q]
    BY <2>1, <1>a DEF RowsTyped
  <2> QED
    BY <1>a, <1>c, <2>2, <2>3, <2>4 DEF OneDispute, CoveredStay, StillOpen, Open
<1>2. CASE WriteStatus(p) \/ Pay(p)
  <2>1. doing[p].id \in Payouts /\ ~payout[doing[p].id].blocked
    BY <1>2, <1>a DEF WriteStatus, Pay, At, TaskFits, Admitted, Deciding
  <2>2. PICK to : payout' = [payout EXCEPT ![doing[p].id].status = to]
    BY <1>2 DEF WriteStatus, Pay
  <2>3. \A d \in StillOpen : doing[p].id \notin covers[d]
    BY <2>1, <1>a DEF CoveredStay
  <2>4. UNCHANGED <<dispute, covers>> /\ doing'[p] = Idle
    BY <1>2, <1>b DEF WriteStatus, Pay, claims, Finish, Then
  <2>5. \A q \in Payouts : q # doing[p].id => payout'[q] = payout[q]
    BY <2>2, <1>a DEF RowsTyped
  <2> QED
    BY <1>a, <1>c, <2>3, <2>4, <2>5 DEF OneDispute, CoveredStay, StillOpen, Open
<1>3. CASE OpenDispute(p)
  <2>1. payout' = [r \in Payouts |-> IF Open(r) THEN [payout[r] EXCEPT !.blocked = TRUE] ELSE payout[r]]
    BY <1>3 DEF OpenDispute
  <2>2. PICK d \in Disputes : /\ dispute' = [dispute EXCEPT ![d] = "OPEN"]
                              /\ covers' = [covers EXCEPT ![d] = {r \in Payouts : Open(r)}]
    BY <1>3 DEF OpenDispute
  <2>3. StillOpen = {} /\ doing[p].do = "open"
    BY <1>3, <1>a DEF OpenDispute, At, Admitted
  <2>4. \A e \in Disputes : dispute'[e] = "OPEN" => e = d
    BY <2>2, <2>3, <1>a DEF StillOpen, RowsTyped
  <2>5. covers'[d] = {r \in Payouts : Open(r)}
    BY <2>2, <1>a DEF RowsTyped
  <2>6. \A r \in Payouts : Open(r) => /\ payout'[r].blocked
                                     /\ payout'[r].status = payout[r].status
    BY <2>1, <1>b, RowChanged
  <2> QED
    BY <2>3, <2>4, <2>5, <2>6 DEF OneDispute, CoveredStay, StillOpen, Open, Deciding
<1>4. CASE ReadBalance(p) \/ ReadPending(p) \/ CheckProfile(p) \/ SumLedger(p) \/ NextNumber(p)
           \/ Validate(p) \/ Draft(p) \/ Render(p) \/ WriteSettlement(p)
  <2>1. UNCHANGED <<money, claims>>
    BY <1>4 DEF ReadBalance, ReadPending, CheckProfile, SumLedger, NextNumber, Validate, Draft, Render,
                WriteSettlement, papers
  <2> QED
    BY <2>1, <1>a DEF OneDispute, CoveredStay, StillOpen, Open, money, claims
<1> QED
  BY <1>1, <1>2, <1>3, <1>4 DEF Step

\* No step lets money of a disputed sale out, or a second dispute in.
LEMMA FrozenKept ==
  ASSUME NumberInv, MoneyInv, FrozenInv, [Next]_vars
  PROVE  FrozenInv'
<1>s. UNCHANGED scene
  BY SceneStays
<1> SUFFICES ASSUME AsOffered PROVE OneTask' /\ OneDispute' /\ AllAdmitted' /\ CoveredStay'
  BY <1>s DEF FrozenInv, AsOffered, OneAtATime
<1>a. OneTask /\ OneDispute /\ AllAdmitted /\ CoveredStay /\ RowsTyped
  BY DEF FrozenInv, MoneyInv
<1>1. ASSUME NEW p \in Procs, Start(p)
      PROVE  OneTask' /\ OneDispute' /\ AllAdmitted' /\ CoveredStay'
  <2>1. PICK h, role : Begin(role, p, h) /\ Admitted(h)
    BY <1>1, TasksBegin
  <2>2. UNCHANGED <<payout, dispute, covers>> /\ \A q \in Procs : At(q, "idle")
    BY <2>1, NoneBusy DEF Begin, money, claims
  <2>3. \A q \in Procs : doing'[q] = IF q = p THEN h ELSE doing[q]
    BY <2>1, OthersWait DEF Begin
  <2>4. OneTask'
    BY <2>2, <2>3 DEF OneTask, At
  <2>5. OneDispute' /\ CoveredStay'
    BY <2>2, <1>a DEF OneDispute, CoveredStay, StillOpen, Open
  <2>6. \A q \in Procs : /\ doing'[q].do = "open" => StillOpen = {}
                         /\ doing'[q].do \in Deciding => ~payout[doing'[q].id].blocked
    BY <2>1, <2>2, <2>3 DEF Admitted, At, Deciding
  <2>7. AllAdmitted'
    BY <2>2, <2>6 DEF AllAdmitted, Admitted, StillOpen
  <2> QED
    BY <2>4, <2>5, <2>7
<1>2. ASSUME NEW p \in Procs, Step(p)
      PROVE  OneTask' /\ OneDispute' /\ AllAdmitted' /\ CoveredStay'
  <2>1. PICK h : Then(p, h) /\ GoesOn(p, h)
    BY <1>2, TasksGoOn
  <2>2. \A q \in Procs : doing'[q] = IF q = p THEN h ELSE doing[q]
    BY <2>1, OthersWait DEF Then
  <2>3. ~At(p, "idle")
    BY <1>2 DEF Step, At, ReadBalance, ReadPending, CreatePayout, WriteStatus, CheckProfile, SumLedger,
                Pay, OpenDispute, WriteSettlement, NextNumber, Validate, Draft, Render
  <2>4. \A q \in Procs : q # p => At(q, "idle")
    BY <2>3, <1>a DEF OneTask
  <2>5. OneTask'
    BY <2>2, <2>4 DEF OneTask, At
  <2>6. /\ OneDispute' /\ CoveredStay'
        /\ doing[p].do \in Deciding => UNCHANGED payout \/ doing'[p] = Idle
    BY <1>2, StepLeavesCovered
  <2>7. \A q \in Procs : /\ doing'[q].do # "open"
                         /\ doing'[q].do \in Deciding => ~payout'[doing'[q].id].blocked
    BY <2>1, <2>2, <2>4, <2>6, <1>a, IdleFits DEF GoesOn, At, Deciding, AllAdmitted, Admitted
  <2>8. AllAdmitted'
    BY <2>7 DEF AllAdmitted, Admitted
  <2> QED
    BY <2>5, <2>6, <2>8
<1>3. ASSUME NEW d \in Disputes, ResolveDispute(d)
      PROVE  OneTask' /\ OneDispute' /\ AllAdmitted' /\ CoveredStay'
  <2>1. UNCHANGED doing /\ \A q \in Procs : doing[q].do = "idle"
    BY <1>3, NoneBusy DEF ResolveDispute, At
  <2>2. dispute[d] = "OPEN" /\ dispute' = [dispute EXCEPT ![d] = "CLOSED"]
    BY <1>3 DEF ResolveDispute, AsOffered
  <2>3. \A e \in Disputes : dispute'[e] # "OPEN"
    BY <2>2, <1>a DEF OneDispute, StillOpen, RowsTyped
  <2> QED
    BY <2>1, <2>3 DEF OneTask, OneDispute, AllAdmitted, Admitted, CoveredStay, StillOpen, At, Deciding
<1>4. CASE Crash
  <2>1. UNCHANGED <<payout, dispute, covers>> /\ \A q \in Procs : doing'[q] = Idle
    BY <1>4 DEF Crash, money, claims
  <2> QED
    BY <2>1, <1>a, IdleFits DEF OneTask, OneDispute, AllAdmitted, Admitted, CoveredStay, StillOpen, At, Open
<1>5. CASE RecordSale \/ JudgeProfile \/ Calculate \/ CancelDocument \/ UNCHANGED vars
  <2>1. UNCHANGED <<payout, dispute, covers, doing>>
    BY <1>5 DEF RecordSale, JudgeProfile, Calculate, CancelDocument, money, claims, vars
  <2> QED
    BY <2>1, <1>a DEF OneTask, OneDispute, AllAdmitted, Admitted, CoveredStay, StillOpen, At, Open
<1> QED
  BY <1>1, <1>2, <1>3, <1>4, <1>5 DEF Next

LEMMA FrozenHolds == Spec => []FrozenInv
<1>1. Init => FrozenInv
  BY IdleFits DEF Init, FrozenInv, OneTask, OneDispute, AllAdmitted, Admitted, CoveredStay, StillOpen, At
<1>2. NumberInv /\ MoneyInv /\ FrozenInv /\ [Next]_vars => FrozenInv'
  BY FrozenKept
<1> QED
  BY <1>1, <1>2, MoneyHolds, PTL DEF Spec

(***************************************************************************)
(* Under an open dispute no request it covers is decided, as long as the   *)
(* endpoints are used as the pages offer them and one at a time            *)
(* (SupplierDisputeService, PayoutService.updateStatus).                   *)
(***************************************************************************)
THEOREM DisputesFreeze == Spec => []DisputedIsFrozen
<1>1. FrozenInv => DisputedIsFrozen
  BY DEF FrozenInv, CoveredStay, DisputedIsFrozen
<1> QED
  BY <1>1, FrozenHolds, PTL

-----------------------------------------------------------------------------
(***************************************************************************)
(* Sums over finite sets.  MapThenSumSet picks the members in some order;  *)
(* what follows says that the order does not matter.  Its sums over all    *)
(* subsets of a set are a table, which exists and is unique, by taking a   *)
(* smallest subset for which this would fail.                              *)
(***************************************************************************)
First(s) == CHOOSE x \in s : TRUE

\* A table of the sums over the subsets of S, built as MapThenSumSet does.
Adds(t, f, S) ==
  t = [s \in SUBSET S |-> IF s = {} THEN 0 ELSE f[First(s)] + t[s \ {First(s)}]]
Table(f, S) == CHOOSE t : Adds(t, f, S)

\* Of some subsets of a finite set, one contains no other.
LEMMA Smallest ==
  ASSUME NEW S, IsFiniteSet(S), NEW C \in SUBSET SUBSET S, C # {}
  PROVE  \E T \in C : \A U \in C : ~(U \subseteq T /\ U # T)
<1>1. IsWellFoundedOn(StrictSubsetOrdering(S), SUBSET S)
  BY FS_StrictSubsetOrderingWellFounded, FS_FiniteSubsetsOfFinite
<1>2. PICK T \in C : \A U \in C : ~(<<U, T>> \in StrictSubsetOrdering(S))
  BY <1>1, WFMin
<1> QED
  BY <1>2 DEF StrictSubsetOrdering

\* MapThenSumSet reads its result from the table.
LEMMA SumIsInTable ==
  ASSUME NEW f, NEW S
  PROVE  SumOver(f, S) = Table(f, S)[S]
BY DEF SumOver, MapThenSumSet, MapThenFoldSet, Table, Adds, First

\* The entries of a table.
LEMMA Entries ==
  ASSUME NEW f, NEW S, NEW t, Adds(t, f, S), NEW s \in SUBSET S
  PROVE  /\ s = {} => t[s] = 0
         /\ s # {} => First(s) \in s /\ t[s] = f[First(s)] + t[s \ {First(s)}]
<1>1. t[s] = IF s = {} THEN 0 ELSE f[First(s)] + t[s \ {First(s)}]
  BY DEF Adds
<1> QED
  BY <1>1 DEF First

\* Tables agree where they overlap.
LEMMA OneTable ==
  ASSUME NEW f, NEW S, NEW T, NEW V \in SUBSET (S \cap T), IsFiniteSet(V),
         NEW t, Adds(t, f, S), NEW u, Adds(u, f, T)
  PROVE  t[V] = u[V]
<1> DEFINE C == {U \in SUBSET V : t[U] # u[U]}
<1> SUFFICES ASSUME C # {} PROVE FALSE
  OBVIOUS
<1>1. PICK U \in C : \A W \in C : ~(W \subseteq U /\ W # U)
  <2> HIDE DEF C
  <2>1. C \in SUBSET SUBSET V
    BY DEF C
  <2> QED
    BY <2>1, Smallest
<1>2. U \in SUBSET S /\ U \in SUBSET T
  OBVIOUS
<1>3. CASE U = {}
  BY <1>2, <1>3, Entries
<1>4. CASE U # {}
  <2>1. First(U) \in U /\ t[U] = f[First(U)] + t[U \ {First(U)}]
    <3>1. U \in SUBSET S /\ Adds(t, f, S)
      BY <1>2
    <3> HIDE DEF C
    <3> QED
      BY ONLY <3>1, <1>4, Entries
  <2>3. u[U] = f[First(U)] + u[U \ {First(U)}]
    <3>1. U \in SUBSET T /\ Adds(u, f, T)
      BY <1>2
    <3> HIDE DEF C
    <3> QED
      BY ONLY <3>1, <1>4, Entries
  <2>2. t[U \ {First(U)}] = u[U \ {First(U)}]
    BY <1>1, <2>1
  <2> QED
    BY <2>1, <2>2, <2>3
<1> QED
  BY <1>3, <1>4

\* Every finite set has a table.
LEMMA TableExists ==
  ASSUME NEW f, NEW S, IsFiniteSet(S)
  PROVE  Adds(Table(f, S), f, S)
<1> DEFINE C == {T \in SUBSET S : \A t : ~Adds(t, f, T)}
<1>1. SUFFICES ASSUME C # {} PROVE FALSE
  BY DEF Table
<1>2. PICK T \in C : \A W \in C : ~(W \subseteq T /\ W # T)
  <2> HIDE DEF C
  <2>1. C \in SUBSET SUBSET S
    BY DEF C
  <2> QED
    BY <1>1, <2>1, Smallest
<1>3. ASSUME NEW U \in SUBSET T, U # T PROVE Adds(Table(f, U), f, U)
  <2>1. U \notin C /\ U \in SUBSET S
    BY <1>2, <1>3
  <2>2. \E t : Adds(t, f, U)
    BY <2>1
  <2> QED
    BY <2>2 DEF Table
<1> DEFINE W(V) == V \ {First(V)}
<1> DEFINE h == [V \in SUBSET T |-> IF V = {} THEN 0 ELSE f[First(V)] + Table(f, W(V))[W(V)]]
<1>4. ASSUME NEW V \in SUBSET T, V # {}
      PROVE  W(V) \in SUBSET T /\ W(V) # T
  BY <1>4 DEF First
<1>5. ASSUME NEW V \in SUBSET T, V # {}
      PROVE  h[W(V)] = Table(f, W(V))[W(V)]
  <2>1. PICK X : X = W(V)
    OBVIOUS
  <2>2. X \in SUBSET T /\ X # T /\ Adds(Table(f, X), f, X)
    BY <1>3, <1>4, <1>5, <2>1
  <2>3. CASE X = {}
    <3>1. h[X] = 0
      BY <2>2, <2>3
    <3>2. Table(f, X)[X] = 0
      BY <2>2, <2>3, Entries
    <3> QED
      BY <2>1, <3>1, <3>2
  <2>4. CASE X # {}
    <3>1. PICK Y : Y = W(X)
      OBVIOUS
    <3>2. Y \in SUBSET X /\ Y \in SUBSET T /\ Y # T /\ Adds(Table(f, Y), f, Y)
      BY <1>3, <1>4, <2>2, <2>4, <3>1
    <3>3. h[X] = f[First(X)] + Table(f, Y)[Y]
      BY <2>2, <2>4, <3>1
    <3>4. Table(f, X)[X] = f[First(X)] + Table(f, X)[Y]
      BY <2>2, <2>4, <3>1, Entries
    <3>5. IsFiniteSet(Y)
      BY <1>2, <3>2, FS_Subset
    <3>6. Table(f, X)[Y] = Table(f, Y)[Y]
      BY <2>2, <3>2, <3>5, OneTable
    <3> QED
      BY <2>1, <3>3, <3>4, <3>6
  <2> QED
    BY <2>3, <2>4
<1>6. Adds(h, f, T)
  <2>1. \A V \in SUBSET T : h[V] = IF V = {} THEN 0 ELSE f[First(V)] + h[V \ {First(V)}]
    BY <1>5
  <2>2. h = [V \in SUBSET T |-> h[V]]
    OBVIOUS
  <2> HIDE DEF h
  <2> QED
    BY <2>1, <2>2 DEF Adds
<1> HIDE DEF h
<1> QED
  BY <1>2, <1>6

\* Sums by what is taken first.
LEMMA SumByFirst ==
  ASSUME NEW f, NEW S, IsFiniteSet(S)
  PROVE  /\ S = {} => SumOver(f, S) = 0
         /\ S # {} => First(S) \in S /\ SumOver(f, S) = f[First(S)] + SumOver(f, S \ {First(S)})
<1>1. Adds(Table(f, S), f, S) /\ SumOver(f, S) = Table(f, S)[S]
  BY TableExists, SumIsInTable
<1>2. CASE S = {}
  BY <1>1, <1>2, Entries
<1>3. CASE S # {}
  <2>1. PICK Y : Y = S \ {First(S)}
    OBVIOUS
  <2>2. IsFiniteSet(Y) /\ Y \in SUBSET S
    BY <2>1, FS_Subset
  <2>3. Adds(Table(f, Y), f, Y) /\ SumOver(f, Y) = Table(f, Y)[Y]
    BY <2>2, TableExists, SumIsInTable
  <2>4. Table(f, S)[Y] = Table(f, Y)[Y]
    BY <1>1, <2>2, <2>3, OneTable
  <2> QED
    BY <1>1, <1>3, <2>1, <2>3, <2>4, Entries
<1> QED
  BY <1>2, <1>3

\* Nothing sums up to nothing.
LEMMA SumOfNone == \A f : SumOver(f, {}) = 0
<1> SUFFICES ASSUME NEW f PROVE SumOver(f, {}) = 0
  OBVIOUS
<1>1. IsFiniteSet({})
  BY FS_EmptySet
<1> QED
  BY <1>1, SumByFirst

\* The order does not matter: any member may be taken out.
LEMMA SumWithout ==
  ASSUME NEW f, NEW S, IsFiniteSet(S), NEW x \in S, \A y \in S : f[y] \in Int
  PROVE  SumOver(f, S) \in Int /\ SumOver(f, S) = f[x] + SumOver(f, S \ {x})
<1> DEFINE Fails(U) == \/ SumOver(f, U) \notin Int
                       \/ \E z \in U : SumOver(f, U) # f[z] + SumOver(f, U \ {z})
<1> DEFINE C == {U \in SUBSET S : Fails(U)}
<1>1. SUFFICES ASSUME C # {} PROVE FALSE
  <2>1. S \notin C
    BY <1>1
  <2> QED
    BY <2>1
<1>2. PICK U \in C : \A W \in C : ~(W \subseteq U /\ W # U)
  <2> HIDE DEF C
  <2>1. C \in SUBSET SUBSET S
    BY DEF C
  <2> QED
    BY <1>1, <2>1, Smallest
<1>3. U \in SUBSET S /\ IsFiniteSet(U)
  BY FS_Subset
<1>4. ASSUME NEW W \in SUBSET U, W # U
      PROVE  SumOver(f, W) \in Int /\ \A z \in W : SumOver(f, W) = f[z] + SumOver(f, W \ {z})
  BY <1>2, <1>3, <1>4
<1>5. CASE U = {}
  BY <1>2, <1>5, SumOfNone
<1>6. CASE U # {}
  <2>1. PICK y \in U : y = First(U)
    BY <1>6 DEF First
  <2>2. SumOver(f, U) = f[y] + SumOver(f, U \ {y})
    BY <1>3, <1>6, <2>1, SumByFirst
  <2>3. SumOver(f, U \ {y}) \in Int /\ f[y] \in Int
    <3>1. U \ {y} \in SUBSET U /\ U \ {y} # U
      BY <2>1
    <3> QED
      BY <3>1, <1>3, <1>4
  <2>4. ASSUME NEW z \in U PROVE SumOver(f, U) = f[z] + SumOver(f, U \ {z})
    <3>1. CASE z = y
      BY <2>2, <3>1
    <3>2. CASE z # y
      <4>1. SumOver(f, U \ {y}) = f[z] + SumOver(f, (U \ {y}) \ {z})
        <5>1. U \ {y} \in SUBSET U /\ U \ {y} # U /\ z \in U \ {y}
          BY <2>1, <3>2
        <5> QED
          BY <5>1, <1>4
      <4>2. SumOver(f, U \ {z}) = f[y] + SumOver(f, (U \ {z}) \ {y})
        <5>1. U \ {z} \in SUBSET U /\ U \ {z} # U /\ y \in U \ {z}
          BY <2>1, <3>2
        <5> QED
          BY <5>1, <1>4
      <4>3. (U \ {y}) \ {z} = (U \ {z}) \ {y}
        OBVIOUS
      <4>4. SumOver(f, (U \ {y}) \ {z}) \in Int /\ f[z] \in Int
        <5>1. (U \ {y}) \ {z} \in SUBSET U /\ (U \ {y}) \ {z} # U
          BY <2>1
        <5> QED
          BY <5>1, <1>3, <1>4
      <4>5. PICK a, b, c : a = SumOver(f, U) /\ b = SumOver(f, U \ {z})
                           /\ c = SumOver(f, (U \ {y}) \ {z})
        OBVIOUS
      <4>6. a = f[y] + (f[z] + c) /\ b = f[y] + c
        BY <2>2, <4>1, <4>2, <4>3, <4>5
      <4>7. f[y] \in Int /\ f[z] \in Int /\ c \in Int
        BY <2>3, <4>4, <4>5
      <4>8. a = f[z] + b
        BY <4>6, <4>7
      <4> QED
        BY <4>5, <4>8
    <3> QED
      BY <3>1, <3>2
  <2>5. SumOver(f, U) \in Int
    BY <2>2, <2>3
  <2> QED
    BY <1>2, <2>4, <2>5
<1> QED
  BY <1>5, <1>6

\* Sums of integers are integers.
LEMMA SumIsInt ==
  ASSUME NEW f, NEW S, IsFiniteSet(S), \A y \in S : f[y] \in Int
  PROVE  SumOver(f, S) \in Int
<1>1. CASE S = {}
  BY <1>1, SumOfNone
<1>2. CASE S # {}
  <2>1. PICK x \in S : TRUE
    BY <1>2
  <2> QED
    BY <2>1, SumWithout
<1> QED
  BY <1>1, <1>2

\* A member more is its value more.
LEMMA SumWith ==
  ASSUME NEW f, NEW S, IsFiniteSet(S), NEW x, x \notin S, f[x] \in Int, \A y \in S : f[y] \in Int
  PROVE  SumOver(f, S \cup {x}) = SumOver(f, S) + f[x]
<1>1. IsFiniteSet(S \cup {x}) /\ (S \cup {x}) \ {x} = S /\ \A y \in S \cup {x} : f[y] \in Int
  BY FS_AddElement
<1>2. SumOver(f, S \cup {x}) = f[x] + SumOver(f, S)
  BY <1>1, SumWithout
<1>3. SumOver(f, S) \in Int
  BY SumIsInt
<1> QED
  BY <1>2, <1>3

\* Sums of natural numbers.
LEMMA SumIsNat ==
  ASSUME NEW f, NEW S, IsFiniteSet(S), \A y \in S : f[y] \in Nat
  PROVE  SumOver(f, S) \in Nat
<1> DEFINE C == {U \in SUBSET S : SumOver(f, U) \notin Nat}
<1>1. SUFFICES ASSUME C # {} PROVE FALSE
  <2>1. S \notin C
    BY <1>1
  <2> QED
    BY <2>1
<1>2. PICK U \in C : \A W \in C : ~(W \subseteq U /\ W # U)
  <2> HIDE DEF C
  <2>1. C \in SUBSET SUBSET S
    BY DEF C
  <2> QED
    BY <1>1, <2>1, Smallest
<1>3. IsFiniteSet(U)
  BY FS_Subset
<1>4. CASE U = {}
  BY <1>2, <1>4, SumOfNone
<1>5. CASE U # {}
  <2>1. First(U) \in U /\ SumOver(f, U) = f[First(U)] + SumOver(f, U \ {First(U)})
    BY <1>3, <1>5, SumByFirst
  <2>2. SumOver(f, U \ {First(U)}) \in Nat
    BY <1>2, <2>1
  <2> QED
    BY <1>2, <2>1, <2>2
<1> QED
  BY <1>4, <1>5

\* Sums of what is the same, of zeros, and of what differs at one place.
LEMMA SumAgrees ==
  ASSUME NEW f, NEW g, NEW S, IsFiniteSet(S), \A y \in S : f[y] = g[y]
  PROVE  SumOver(f, S) = SumOver(g, S)
<1> DEFINE C == {U \in SUBSET S : SumOver(f, U) # SumOver(g, U)}
<1>1. SUFFICES ASSUME C # {} PROVE FALSE
  <2>1. S \notin C
    BY <1>1
  <2> QED
    BY <2>1
<1>2. PICK U \in C : \A W \in C : ~(W \subseteq U /\ W # U)
  <2> HIDE DEF C
  <2>1. C \in SUBSET SUBSET S
    BY DEF C
  <2> QED
    BY <1>1, <2>1, Smallest
<1>3. IsFiniteSet(U)
  BY FS_Subset
<1>4. CASE U = {}
  BY <1>2, <1>4, SumOfNone
<1>5. CASE U # {}
  <2>1. /\ First(U) \in U /\ SumOver(f, U) = f[First(U)] + SumOver(f, U \ {First(U)})
        /\ SumOver(g, U) = g[First(U)] + SumOver(g, U \ {First(U)})
    BY <1>3, <1>5, SumByFirst
  <2>2. SumOver(f, U \ {First(U)}) = SumOver(g, U \ {First(U)})
    BY <1>2, <2>1
  <2> QED
    BY <1>2, <2>1, <2>2
<1> QED
  BY <1>4, <1>5

LEMMA SumOfZeros ==
  ASSUME NEW f, NEW S, IsFiniteSet(S), \A y \in S : f[y] = 0
  PROVE  SumOver(f, S) = 0
<1> DEFINE C == {U \in SUBSET S : SumOver(f, U) # 0}
<1>1. SUFFICES ASSUME C # {} PROVE FALSE
  <2>1. S \notin C
    BY <1>1
  <2> QED
    BY <2>1
<1>2. PICK U \in C : \A W \in C : ~(W \subseteq U /\ W # U)
  <2> HIDE DEF C
  <2>1. C \in SUBSET SUBSET S
    BY DEF C
  <2> QED
    BY <1>1, <2>1, Smallest
<1>3. IsFiniteSet(U)
  BY FS_Subset
<1>4. CASE U = {}
  BY <1>2, <1>4, SumOfNone
<1>5. CASE U # {}
  <2>1. First(U) \in U /\ SumOver(f, U) = f[First(U)] + SumOver(f, U \ {First(U)})
    BY <1>3, <1>5, SumByFirst
  <2>2. SumOver(f, U \ {First(U)}) = 0
    BY <1>2, <2>1
  <2> QED
    BY <1>2, <2>1, <2>2
<1> QED
  BY <1>4, <1>5

LEMMA SumChanged ==
  ASSUME NEW f, NEW g, NEW S, IsFiniteSet(S), NEW x \in S,
         \A y \in S : f[y] \in Int /\ g[y] \in Int, \A y \in S : y # x => f[y] = g[y]
  PROVE  SumOver(g, S) = SumOver(f, S) - f[x] + g[x]
<1>1. SumOver(f, S) = f[x] + SumOver(f, S \ {x}) /\ SumOver(g, S) = g[x] + SumOver(g, S \ {x})
  BY SumWithout
<1>2. IsFiniteSet(S \ {x}) /\ \A y \in S \ {x} : f[y] = g[y] /\ f[y] \in Int
  BY FS_Subset
<1>3. SumOver(f, S \ {x}) = SumOver(g, S \ {x})
  BY <1>2, SumAgrees
<1>4. SumOver(f, S \ {x}) \in Int
  BY <1>2, SumIsInt
<1>5. f[x] \in Int /\ g[x] \in Int
  OBVIOUS
<1> QED
  BY <1>1, <1>3, <1>4, <1>5

-----------------------------------------------------------------------------
(***************************************************************************)
(* The account, again while the endpoints are used as offered and one at a *)
(* time.  Requests hold at most the balance (Pending <= Balance), and a    *)
(* payment takes what its request held: that needs that a request has an   *)
(* entry of the ledger exactly when it is PAID, and that a task that is    *)
(* under way is still entitled to what it is about to write.               *)
(***************************************************************************)
RowsAccounted ==
  \A r \in Payouts :
    /\ payout[r].status # "none" => payout[r].amount > 0
    /\ entries[r] = IF payout[r].status = "PAID" THEN 1 ELSE 0

Entitled(h) ==
  /\ h.do \in {"balance", "pending", "create"} => h.amount \in Nat \ {0}
  /\ h.do = "pending" => h.read \in Int /\ h.read <= Balance
  /\ h.do = "create" => h.amount + Pending <= Balance
  /\ h.do \in Deciding => Open(h.id)
  /\ h.do = "write" => h.to = "REJECTED"

SumsTyped == Balance \in Int /\ Pending \in Nat

AccountInv ==
  AsOffered => Pending <= Balance /\ RowsAccounted /\ \A p \in Procs : Entitled(doing[p])

\* The tables that are summed up.
Amounts   == [r \in Payouts |-> payout[r].amount]
Entered   == [r \in Payouts |-> entries[r] * payout[r].amount]
Requested == {r \in Payouts : Open(r)}

LEMMA AccountSums ==
  ASSUME RowsTyped
  PROVE  /\ Balance = sold - SumOver(Entered, Payouts) /\ Pending = SumOver(Amounts, Requested)
         /\ \A r \in Payouts : Amounts[r] \in Nat /\ Entered[r] \in Nat
         /\ IsFiniteSet(Requested) /\ Requested \subseteq Payouts
         /\ Balance \in Int /\ Pending \in Nat
<1>1. Balance = sold - SumOver(Entered, Payouts) /\ Pending = SumOver(Amounts, Requested)
  BY DEF Balance, Pending, Entered, Amounts, Requested
<1>2. \A r \in Payouts : Amounts[r] \in Nat /\ Entered[r] \in Nat
  <2>1. \A r \in Payouts : payout[r].amount \in Nat /\ entries[r] \in Nat
    BY DEF RowsTyped, PayoutRow
  <2>2. \A m, n \in Nat : m * n \in Nat
    OBVIOUS
  <2> QED
    BY <2>1, <2>2 DEF Amounts, Entered
<1>3. IsFiniteSet(Payouts) /\ IsFiniteSet(Requested) /\ Requested \subseteq Payouts
  BY FinanceAssumption, FS_Subset DEF Requested
<1>4. SumOver(Amounts, Requested) \in Nat
  <2>1. \A r \in Requested : Amounts[r] \in Nat
    BY <1>2, <1>3
  <2> QED
    BY <1>3, <2>1, SumIsNat
<1>5. SumOver(Entered, Payouts) \in Nat
  BY <1>2, <1>3, SumIsNat
<1>6. sold \in Nat
  BY DEF RowsTyped
<1> QED
  BY <1>1, <1>2, <1>3, <1>4, <1>5, <1>6

\* What neither asks for money nor moves it.
LEMMA MoneyStays ==
  ASSUME RowsTyped, UNCHANGED <<sold, entries>>,
         \A r \in Payouts : payout'[r].status = payout[r].status /\ payout'[r].amount = payout[r].amount
  PROVE  Balance' = Balance /\ Pending' = Pending
<1>1. Amounts' = Amounts /\ Entered' = Entered /\ Requested' = Requested
  BY DEF Amounts, Entered, Requested, Open
<1>2. Balance = sold - SumOver(Entered, Payouts) /\ Pending = SumOver(Amounts, Requested)
  BY AccountSums
<1>3. Balance' = sold' - SumOver(Entered', Payouts) /\ Pending' = SumOver(Amounts', Requested')
  BY DEF Balance, Pending, Entered, Amounts, Requested
<1> QED
  BY <1>1, <1>2, <1>3

\* A request that is made holds its amount.
LEMMA MoneyHeld ==
  ASSUME RowsTyped, RowsAccounted, RowsTyped', NEW r \in Payouts, ~Open(r), NEW row, payout' = [payout EXCEPT ![r] = row],
         row.status = "NEW", payout[r].status = "none", UNCHANGED <<sold, entries>>
  PROVE  Balance' = Balance /\ Pending' = Pending + row.amount
<1>a. payout \in [Payouts -> PayoutRow] /\ payout'[r] = row
  BY DEF RowsTyped
<1>b. \A q \in Payouts : q # r => payout'[q] = payout[q]
  BY <1>a
<1>1. Balance = sold - SumOver(Entered, Payouts) /\ Pending = SumOver(Amounts, Requested)
  BY AccountSums
<1>2. Balance' = sold' - SumOver(Entered', Payouts) /\ Pending' = SumOver(Amounts', Requested')
  BY DEF Balance, Pending, Entered, Amounts, Requested
<1>3. Entered' = Entered
  <2>1. entries[r] = 0
    BY DEF RowsAccounted
  <2>2. payout[r].amount \in Nat /\ payout'[r].amount \in Nat
    BY DEF RowsTyped, PayoutRow
  <2>3. \A q \in Payouts : entries'[q] * payout'[q].amount = entries[q] * payout[q].amount
    BY <1>b, <2>1, <2>2
  <2> QED
    BY <2>3 DEF Entered
<1>4. Requested' = Requested \cup {r} /\ r \notin Requested
  BY <1>a, <1>b DEF Requested, Open
<1>5. /\ Amounts'[r] = row.amount /\ row.amount \in Nat
      /\ \A q \in Requested : Amounts'[q] = Amounts[q] /\ Amounts[q] \in Int
  <2>1. Amounts'[r] = row.amount /\ row.amount \in Nat
    BY <1>a DEF Amounts, RowsTyped, PayoutRow
  <2>2. \A q \in Requested : q \in Payouts /\ q # r /\ Amounts[q] \in Int
    BY <1>4, AccountSums
  <2>3. \A q \in Requested : Amounts'[q] = Amounts[q]
    BY <1>b, <2>2 DEF Amounts
  <2> QED
    BY <2>1, <2>2, <2>3
<1>6. IsFiniteSet(Requested)
  BY AccountSums
<1>7. SumOver(Amounts', Requested \cup {r}) = SumOver(Amounts', Requested) + Amounts'[r]
  <2>1. PICK g : g = Amounts'
    OBVIOUS
  <2>2. \A q \in Requested : g[q] \in Int
    BY <1>5, <2>1
  <2>3. g[r] \in Int
    BY <1>5, <2>1
  <2>4. SumOver(g, Requested \cup {r}) = SumOver(g, Requested) + g[r]
    BY <1>4, <1>6, <2>2, <2>3, SumWith
  <2> QED
    BY <2>1, <2>4
<1>8. SumOver(Amounts', Requested) = SumOver(Amounts, Requested)
  BY <1>5, <1>6, SumAgrees
<1> QED
  BY <1>1, <1>2, <1>3, <1>4, <1>5, <1>7, <1>8

\* A request that is decided holds nothing more; paid, it has left the balance.
LEMMA MoneyFreed ==
  ASSUME RowsTyped, RowsAccounted, NEW r \in Payouts, Open(r), NEW to \in {"REJECTED", "PAID"},
         payout' = [payout EXCEPT ![r].status = to], sold' = sold,
         entries' = IF to = "PAID" THEN [entries EXCEPT ![r] = @ + 1] ELSE entries
  PROVE  /\ Pending' = Pending - payout[r].amount /\ payout[r].amount <= Pending
         /\ payout[r].amount \in Nat \ {0}
         /\ Balance' = IF to = "PAID" THEN Balance - payout[r].amount ELSE Balance
<1>a. /\ payout \in [Payouts -> PayoutRow] /\ payout'[r].status = to
      /\ \A q \in Payouts : payout'[q].amount = payout[q].amount
      /\ \A q \in Payouts : q # r => payout'[q] = payout[q]
  <2>1. PICK row : row = [payout[r] EXCEPT !.status = to]
    OBVIOUS
  <2>2. row.status = to /\ row.amount = payout[r].amount
    BY <2>1 DEF RowsTyped, PayoutRow
  <2>3. payout' = [payout EXCEPT ![r] = row]
    BY <2>1
  <2> QED
    BY <2>2, <2>3 DEF RowsTyped
<1>b. payout[r].amount \in Nat \ {0} /\ entries[r] = 0 /\ entries \in [Payouts -> Nat]
  BY <1>a DEF RowsAccounted, RowsTyped, PayoutRow, Open
<1>1. Balance = sold - SumOver(Entered, Payouts) /\ Pending = SumOver(Amounts, Requested)
  BY AccountSums
<1>2. Balance' = sold' - SumOver(Entered', Payouts) /\ Pending' = SumOver(Amounts', Requested')
  BY DEF Balance, Pending, Entered, Amounts, Requested
<1>3. Amounts' = Amounts /\ Amounts[r] = payout[r].amount
  BY <1>a DEF Amounts
<1>4. Requested' = Requested \ {r} /\ r \in Requested
  BY <1>a DEF Requested, Open
<1>5. /\ IsFiniteSet(Requested) /\ \A q \in Requested : Amounts[q] \in Nat /\ Amounts[q] \in Int
      /\ IsFiniteSet(Requested \ {r})
  BY AccountSums, FS_Subset
<1>6. SumOver(Amounts, Requested) = Amounts[r] + SumOver(Amounts, Requested \ {r})
  BY <1>4, <1>5, SumWithout
<1>7. SumOver(Amounts, Requested \ {r}) \in Nat
  BY <1>5, SumIsNat
<1>8. Pending' = Pending - payout[r].amount /\ payout[r].amount <= Pending
  BY <1>b, <1>1, <1>2, <1>3, <1>4, <1>6, <1>7
<1>9. CASE to = "PAID"
  <2>1. \A q \in Payouts : entries'[q] = IF q = r THEN 1 ELSE entries[q]
    BY <1>9, <1>b
  <2>2. Entered[r] = 0 /\ Entered'[r] = payout[r].amount
    BY <1>a, <1>b, <2>1 DEF Entered
  <2>3. \A q \in Payouts : q # r => Entered[q] = Entered'[q]
    BY <1>a, <2>1 DEF Entered
  <2>4. \A q \in Payouts : Entered[q] \in Int
    BY AccountSums
  <2>5. \A q \in Payouts : Entered'[q] \in Int
    BY <1>b, <2>2, <2>3, <2>4
  <2>6. IsFiniteSet(Payouts)
    BY FinanceAssumption
  <2>7. SumOver(Entered', Payouts) = SumOver(Entered, Payouts) - Entered[r] + Entered'[r]
    <3>1. PICK f, g : f = Entered /\ g = Entered'
      OBVIOUS
    <3>2. \A q \in Payouts : f[q] \in Int /\ g[q] \in Int
      BY <3>1, <2>4, <2>5
    <3>3. \A q \in Payouts : q # r => f[q] = g[q]
      BY <3>1, <2>3
    <3>4. SumOver(g, Payouts) = SumOver(f, Payouts) - f[r] + g[r]
      BY <2>6, <3>2, <3>3, SumChanged
    <3> QED
      BY <3>1, <3>4
  <2>8. SumOver(Entered, Payouts) \in Int
    BY <2>4, <2>6, SumIsInt
  <2>9. sold \in Nat
    BY DEF RowsTyped
  <2> QED
    BY <1>9, <1>b, <1>1, <1>2, <1>8, <2>2, <2>7, <2>8, <2>9
<1>10. CASE to # "PAID"
  <2>1. Entered' = Entered
    BY <1>10, <1>a DEF Entered
  <2> QED
    BY <1>10, <1>b, <1>1, <1>2, <1>8, <2>1
<1> QED
  BY <1>9, <1>10

\* A task that begins is entitled to what it asks for.
LEMMA EntitledBegin ==
  ASSUME AsOffered, NEW p \in Procs, Start(p)
  PROVE  \E h, role : Begin(role, p, h) /\ Entitled(h)
<1>1. ASSUME NEW n \in 1..MaxAmount, RequestPayout(p, n)
      PROVE  \E h, role : Begin(role, p, h) /\ Entitled(h)
  <2> DEFINE h == [Idle EXCEPT !.do = "balance", !.amount = n]
  <2>1. n \in Nat \ {0}
    BY FinanceAssumption
  <2>2. Entitled(h)
    BY <2>1 DEF Entitled, Deciding, Idle
  <2> QED
    BY <1>1, <2>2 DEF RequestPayout
<1>2. ASSUME NEW r \in Payouts, NEW to \in PayoutStatuses, Decide(p, r, to)
      PROVE  \E h, role : Begin(role, p, h) /\ Entitled(h)
  <2> DEFINE h == [Idle EXCEPT !.do = IF to = "PAID" THEN "profile" ELSE "write", !.id = r, !.to = to]
  <2>1. Open(r) /\ to \in {"REJECTED", "PAID"}
    BY <1>2 DEF Decide, Offered, AsOffered
  <2>2. h.do \in {"profile", "write"} /\ h.id = r /\ h.to = to /\ (h.do = "write" => to # "PAID")
    BY DEF Idle
  <2>3. Entitled(h)
    <3> HIDE DEF h
    <3> QED
      BY <2>1, <2>2 DEF Entitled
  <2> QED
    BY <1>2, <2>3 DEF Decide
<1>3. CASE Complain(p)
  <2> DEFINE h == [Idle EXCEPT !.do = "open"]
  <2>1. Entitled(h)
    BY DEF Entitled, Deciding, Idle
  <2> QED
    BY <1>3, <2>1 DEF Complain
<1>4. ASSUME NEW to \in SettlementStatuses, MoveSettlement(p, to)
      PROVE  \E h, role : Begin(role, p, h) /\ Entitled(h)
  <2> DEFINE h == [Idle EXCEPT !.do = "settle", !.to = to]
  <2>1. Entitled(h)
    BY DEF Entitled, Deciding, Idle
  <2> QED
    BY <1>4, <2>1 DEF MoveSettlement
<1>5. CASE IssueDocuments(p)
  <2> DEFINE h == [Idle EXCEPT !.do = "number"]
  <2>1. Entitled(h)
    BY DEF Entitled, Deciding, Idle
  <2> QED
    BY <1>5, <2>1 DEF IssueDocuments
<1> QED
  BY <1>1, <1>2, <1>3, <1>4, <1>5 DEF Start

\* Tasks that are about no money are entitled to anything.
MoneyTasks == Deciding \cup {"balance", "pending", "create"}

LEMMA OtherTasks == \A h : h.do \notin MoneyTasks => Entitled(h)
BY DEF MoneyTasks, Deciding, Entitled

\* What the account does in a step.
AccountMoves ==
  \/ UNCHANGED <<Balance, Pending>>
  \/ Balance' > Balance /\ Pending' = Pending
  \/ Pending' > Pending /\ Pending' <= Balance /\ Balance' = Balance
  \/ Pending' < Pending /\ Balance' = Balance
  \/ Balance' < Balance /\ Pending - Pending' = Balance - Balance'

\* A task that moves no money reads what it needs, and has it still.
LEMMA ReadersEntitled ==
  ASSUME AsOffered, NumberInv, MoneyInv, AccountInv, NEW p \in Procs, Step(p),
         UNCHANGED money
  PROVE  \E h : Then(p, h) /\ Entitled(h)
<1>a. IsHandler(doing[p]) /\ Entitled(doing[p]) /\ RowsTyped
  BY DEF NumberInv, HandlersTyped, AccountInv, MoneyInv
<1>b. Balance \in Int /\ Pending \in Nat
  BY <1>a, AccountSums
<1>1. CASE Finish(p)
  BY <1>1, IdleFits, OtherTasks DEF Finish, MoneyTasks
<1>2. ASSUME NEW to, Go(p, to), \/ to \in {"validate", "draft"}
                                \/ At(p, "profile") /\ to = "sum"
                                \/ At(p, "sum") /\ to = "pay"
                                \/ /\ At(p, "pending") /\ to = "create"
                                   /\ doing[p].amount <= doing[p].read - Pending
      PROVE  \E h : Then(p, h) /\ Entitled(h)
  <2> DEFINE h == [doing[p] EXCEPT !.do = to]
  <2>1. h.do = to /\ h.id = doing[p].id /\ h.to = doing[p].to /\ h.amount = doing[p].amount
    BY <1>a, TaskChanged
  <2>2. Entitled(h)
    <3> HIDE DEF h
    <3>1. CASE to \in {"validate", "draft"}
      BY <2>1, <3>1, OtherTasks DEF MoneyTasks, Deciding
    <3>2. CASE (At(p, "profile") /\ to = "sum") \/ (At(p, "sum") /\ to = "pay")
      BY <1>a, <2>1, <3>2 DEF Entitled, Deciding, At
    <3>3. CASE At(p, "pending") /\ to = "create" /\ doing[p].amount <= doing[p].read - Pending
      BY <1>a, <1>b, <2>1, <3>3 DEF Entitled, Deciding, At
    <3> QED
      BY <1>2, <3>1, <3>2, <3>3
  <2> QED
    BY <1>2, <2>2 DEF Go
<1>3. CASE ReadBalance(p)
  <2> DEFINE h == [doing[p] EXCEPT !.do = "pending", !.read = Balance]
  <2>1. h.do = "pending" /\ h.amount = doing[p].amount
    BY <1>a, TaskChanged
  <2>2. h.read = Balance
    BY <1>a DEF IsHandler
  <2>3. Entitled(h)
    <3> HIDE DEF h
    <3> QED
      BY <1>a, <1>b, <1>3, <2>1, <2>2 DEF Entitled, Deciding, ReadBalance, At
  <2> QED
    BY <1>3, <2>3 DEF ReadBalance
<1>4. CASE NextNumber(p)
  <2> DEFINE type == Required[Len(doing[p].plan) + 1]
             plan == Append(doing[p].plan, [type |-> type, number |-> lastNumber[NumberType(type)] + 1])
             to == IF Len(plan) < Len(Required) THEN "number" ELSE "validate"
  <2>1. Then(p, [doing[p] EXCEPT !.plan = plan, !.do = to]) /\ to \in {"number", "validate"}
    BY <1>4 DEF NextNumber
  <2> HIDE DEF plan, to
  <2> DEFINE h == [doing[p] EXCEPT !.plan = plan, !.do = to]
  <2>2. h.do = to
    BY <1>a, TaskChanged
  <2> HIDE DEF h
  <2>3. Entitled(h)
    BY <2>1, <2>2, OtherTasks DEF MoneyTasks, Deciding
  <2> QED
    BY <2>1, <2>3 DEF h
<1>5. CASE Draft(p)
  <2> DEFINE h == [doing[p] EXCEPT !.do = "render", !.read = Len(docs) + 1]
  <2>1. h.do = "render"
    BY <1>a, TaskChanged
  <2> HIDE DEF h
  <2>2. Entitled(h)
    BY <2>1, OtherTasks DEF MoneyTasks, Deciding
  <2> QED
    BY <1>5, <2>2 DEF Draft, h
<1>6. CASE Render(p)
  <2>1. PICK rest : Then(p, IF rest = <<>> THEN Idle ELSE [doing[p] EXCEPT !.do = "draft", !.plan = rest])
    BY <1>6 DEF Render
  <2> DEFINE h == [doing[p] EXCEPT !.do = "draft", !.plan = rest]
  <2>2. h.do = "draft"
    BY <1>a, TaskChanged
  <2> HIDE DEF h
  <2>3. Entitled(h) /\ Entitled(Idle)
    BY <2>2, IdleFits, OtherTasks DEF MoneyTasks, Deciding
  <2> QED
    BY <2>1, <2>3 DEF h
<1> QED
  BY <1>1, <1>2, <1>3, <1>4, <1>5, <1>6
     DEF Step, ReadPending, CreatePayout, WriteStatus, CheckProfile, SumLedger, Pay, OpenDispute,
         WriteSettlement, Validate

\* What a task is entitled to it remains entitled to, while the balance only grows.
LEMMA EntitledStay ==
  ASSUME RowsTyped, Balance' \in Int, Balance' >= Balance, Pending' = Pending,
         UNCHANGED payout, NEW h, Entitled(h)
  PROVE  Entitled(h)'
<1>1. Balance \in Int /\ Pending \in Nat
  BY AccountSums
<1> QED
  BY <1>1 DEF Entitled, Open

\* The writes of a task.
LEMMA WritersMove ==
  ASSUME AsOffered, NumberInv, MoneyInv, MoneyInv', AccountInv, NEW p \in Procs,
         CreatePayout(p) \/ WriteStatus(p) \/ Pay(p) \/ OpenDispute(p)
  PROVE  AccountMoves /\ RowsAccounted' /\ Pending' <= Balance' /\ Finish(p)
<1>a. IsHandler(doing[p]) /\ Entitled(doing[p]) /\ RowsTyped /\ RowsAccounted /\ Pending <= Balance
  BY DEF NumberInv, HandlersTyped, AccountInv, MoneyInv
<1>b. Balance \in Int /\ Pending \in Nat /\ RowsTyped' /\ TaskFits(doing[p])
  BY <1>a, AccountSums DEF MoneyInv
<1>1. CASE CreatePayout(p)
  <2>1. PICK r \in Payouts :
          /\ payout[r] = NoRow
          /\ payout' = [payout EXCEPT ![r] = [status |-> "NEW", amount |-> doing[p].amount, blocked |-> FALSE]]
    BY <1>1 DEF CreatePayout
  <2>2. PICK row : row = [status |-> "NEW", amount |-> doing[p].amount, blocked |-> FALSE]
    OBVIOUS
  <2>3. /\ row.status = "NEW" /\ row.amount = doing[p].amount
        /\ row.amount \in Nat \ {0} /\ row.amount + Pending <= Balance
    BY <1>1, <1>a, <2>2 DEF CreatePayout, At, Entitled
  <2>4. payout[r].status = "none" /\ ~Open(r)
    BY <2>1 DEF NoRow, Open
  <2>5. payout' = [payout EXCEPT ![r] = row] /\ UNCHANGED <<sold, entries>> /\ Finish(p)
    BY <1>1, <2>1, <2>2 DEF CreatePayout
  <2>6. Balance' = Balance /\ Pending' = Pending + row.amount
    BY <1>a, <1>b, <2>3, <2>4, <2>5, MoneyHeld
  <2>7. \A q \in Payouts : payout'[q] = IF q = r THEN row ELSE payout[q]
    BY <1>a, <2>5 DEF RowsTyped
  <2>8. entries[r] = 0
    BY <1>a, <2>4 DEF RowsAccounted
  <2>9. RowsAccounted'
    BY <1>a, <2>3, <2>5, <2>7, <2>8 DEF RowsAccounted
  <2> QED
    BY <1>b, <2>3, <2>5, <2>6, <2>9 DEF AccountMoves
<1>2. CASE WriteStatus(p) \/ Pay(p)
  <2>1. PICK r \in Payouts : r = doing[p].id
    BY <1>2, <1>b DEF WriteStatus, Pay, At, TaskFits, Deciding
  <2>2. PICK to \in {"REJECTED", "PAID"} :
          /\ payout' = [payout EXCEPT ![r].status = to]
          /\ entries' = IF to = "PAID" THEN [entries EXCEPT ![r] = @ + 1] ELSE entries
    BY <1>2, <1>a, <2>1 DEF WriteStatus, Pay, At, Entitled
  <2>3. Open(r)
    BY <1>2, <1>a, <2>1 DEF WriteStatus, Pay, At, Entitled, Deciding
  <2>4. sold' = sold /\ Finish(p)
    BY <1>2 DEF WriteStatus, Pay
  <2>5. /\ Pending' = Pending - payout[r].amount /\ payout[r].amount <= Pending
        /\ payout[r].amount \in Nat \ {0}
        /\ Balance' = IF to = "PAID" THEN Balance - payout[r].amount ELSE Balance
    BY <1>a, <2>2, <2>3, <2>4, MoneyFreed
  <2>6. entries[r] = 0
    BY <1>a, <2>3 DEF RowsAccounted, Open
  <2>7. /\ \A q \in Payouts : q # r => payout'[q] = payout[q] /\ entries'[q] = entries[q]
        /\ payout'[r].status = to /\ payout'[r].amount = payout[r].amount
        /\ entries'[r] = IF to = "PAID" THEN 1 ELSE 0
    <3>1. PICK row : row = [payout[r] EXCEPT !.status = to]
      OBVIOUS
    <3>2. row.status = to /\ row.amount = payout[r].amount
      BY <1>a, <3>1 DEF RowsTyped, PayoutRow
    <3>3. payout' = [payout EXCEPT ![r] = row]
      BY <2>2, <3>1
    <3> QED
      BY <1>a, <2>2, <2>6, <3>2, <3>3 DEF RowsTyped
  <2>8. RowsAccounted'
    BY <1>a, <2>5, <2>7 DEF RowsAccounted
  <2> QED
    BY <1>a, <1>b, <2>4, <2>5, <2>8 DEF AccountMoves
<1>3. CASE OpenDispute(p)
  <2>1. payout' = [r \in Payouts |-> IF Open(r) THEN [payout[r] EXCEPT !.blocked = TRUE] ELSE payout[r]]
    BY <1>3 DEF OpenDispute
  <2>2. \A r \in Payouts : payout'[r].status = payout[r].status /\ payout'[r].amount = payout[r].amount
    BY <1>a, <2>1 DEF RowsTyped, PayoutRow
  <2>3. UNCHANGED <<sold, entries>> /\ Finish(p)
    BY <1>3 DEF OpenDispute
  <2>4. Balance' = Balance /\ Pending' = Pending
    BY <1>a, <2>2, <2>3, MoneyStays
  <2>5. RowsAccounted'
    BY <1>a, <2>2, <2>3 DEF RowsAccounted
  <2> QED
    BY <1>a, <2>3, <2>4, <2>5 DEF AccountMoves
<1> QED
  BY <1>1, <1>2, <1>3

\* No step overdraws the account or takes what was not held.
LEMMA AccountKept ==
  ASSUME AsOffered, NumberInv, MoneyInv, MoneyInv', SumsTyped', FrozenInv, AccountInv, [Next]_vars
  PROVE  AccountMoves /\ RowsAccounted' /\ Pending' <= Balance' /\ \A p \in Procs : Entitled(doing[p])'
<1> DEFINE Kept == AccountMoves /\ RowsAccounted' /\ Pending' <= Balance'
                   /\ \A q \in Procs : Entitled(doing[q])'
<1> SUFFICES Kept
  OBVIOUS
<1>a. RowsTyped /\ RowsAccounted /\ Pending <= Balance /\ OneTask /\ \A p \in Procs : Entitled(doing[p])
  BY DEF MoneyInv, AccountInv, FrozenInv
<1>b. Balance \in Int /\ Pending \in Nat /\ RowsTyped' /\ Balance' \in Int /\ Pending' \in Nat
  BY <1>a, AccountSums DEF MoneyInv, SumsTyped
<1>c. ASSUME UNCHANGED money
      PROVE  Balance' = Balance /\ Pending' = Pending /\ RowsAccounted' /\ Pending' <= Balance' /\ AccountMoves
  <2>1. Balance' = Balance /\ Pending' = Pending
    BY <1>a, <1>c, MoneyStays DEF money
  <2> QED
    BY <1>a, <1>c, <2>1 DEF money, RowsAccounted, AccountMoves
<1>d. ASSUME UNCHANGED payout, Balance' >= Balance, Pending' = Pending, NEW h, Entitled(h)
      PROVE  Entitled(h)'
  BY <1>a, <1>b, <1>d, EntitledStay
<1>1. ASSUME NEW p \in Procs, Start(p)
      PROVE  Kept
  <2>1. PICK h, role : Begin(role, p, h) /\ Entitled(h)
    BY <1>1, EntitledBegin
  <2>2. UNCHANGED money /\ \A q \in Procs : doing'[q] = IF q = p THEN h ELSE doing[q]
    BY <2>1, OthersWait DEF Begin
  <2>3. Entitled(h)' /\ \A q \in Procs : \A g \in {doing[q]} : Entitled(g)'
    BY <1>a, <1>b, <1>c, <1>d, <2>1, <2>2 DEF money
  <2>4. \A q \in Procs : \A g \in {doing'[q]} : Entitled(g)'
    BY <2>2, <2>3
  <2> QED
    BY <1>c, <2>2, <2>4
<1>2. ASSUME NEW p \in Procs, Step(p)
      PROVE  Kept
  <2>1. ~At(p, "idle")
    BY <1>2 DEF Step, At, ReadBalance, ReadPending, CreatePayout, WriteStatus, CheckProfile, SumLedger,
                Pay, OpenDispute, WriteSettlement, NextNumber, Validate, Draft, Render
  <2>2. \A q \in Procs : q # p => doing[q].do = "idle"
    BY <2>1, <1>a DEF OneTask, At
  <2>3. AccountMoves /\ RowsAccounted' /\ Pending' <= Balance' /\ \E h : Then(p, h) /\ Entitled(h)'
    <3>1. CASE CreatePayout(p) \/ WriteStatus(p) \/ Pay(p) \/ OpenDispute(p)
      <4>1. AccountMoves /\ RowsAccounted' /\ Pending' <= Balance' /\ Finish(p)
        BY <3>1, WritersMove
      <4>2. PICK h : h = Idle
        OBVIOUS
      <4>3. Entitled(h)'
        BY <4>2, IdleFits DEF Entitled, Deciding
      <4> QED
        BY <4>1, <4>2, <4>3 DEF Finish
    <3>2. CASE UNCHANGED money
      <4>1. PICK h : Then(p, h) /\ Entitled(h)
        BY <1>2, <3>2, ReadersEntitled
      <4> QED
        BY <4>1, <3>2, <1>b, <1>c, <1>d DEF money
    <3> QED
      BY <1>2, <3>1, <3>2
         DEF Step, ReadBalance, ReadPending, CheckProfile, SumLedger, WriteSettlement, NextNumber, Validate,
             Draft, Render
  <2>4. PICK h : Then(p, h) /\ Entitled(h)'
    BY <2>3
  <2>5. \A q \in Procs : doing'[q] = IF q = p THEN h ELSE doing[q]
    BY <2>4, OthersWait DEF Then
  <2>6. \A q \in Procs : \A g \in {doing'[q]} : Entitled(g)'
    <3>1. ASSUME NEW q \in Procs, NEW g, g = doing'[q]
          PROVE  Entitled(g)'
      <4>1. CASE q = p
        BY <4>1, <3>1, <2>4, <2>5
      <4>2. CASE q # p
        <5>1. g.do = "idle"
          BY <4>2, <3>1, <2>2, <2>5
        <5> QED
          BY <5>1 DEF Entitled, Deciding
      <4> QED
        BY <4>1, <4>2
    <3> QED
      BY <3>1
  <2> QED
    BY <2>3, <2>6
<1>3. ASSUME NEW d \in Disputes, ResolveDispute(d)
      PROVE  Kept
  <2>1. UNCHANGED doing /\ \A q \in Procs : doing[q].do = "idle"
    BY <1>3, NoneBusy DEF ResolveDispute, At
  <2>2. payout' = [r \in Payouts |-> [payout[r] EXCEPT !.blocked = FALSE]] /\ UNCHANGED <<sold, entries>>
    BY <1>3 DEF ResolveDispute
  <2>3. \A r \in Payouts : payout'[r].status = payout[r].status /\ payout'[r].amount = payout[r].amount
    BY <1>a, <2>2 DEF RowsTyped, PayoutRow
  <2>4. Balance' = Balance /\ Pending' = Pending
    BY <1>a, <2>2, <2>3, MoneyStays
  <2>5. RowsAccounted'
    BY <1>a, <2>2, <2>3 DEF RowsAccounted
  <2>6. \A q \in Procs : Entitled(doing[q])'
    BY <2>1 DEF Entitled, Deciding
  <2> QED
    BY <1>a, <2>4, <2>5, <2>6 DEF AccountMoves
<1>4. CASE RecordSale
  <2>1. UNCHANGED <<payout, entries, doing>> /\ sold' = sold + 1
    BY <1>4 DEF RecordSale
  <2>2. Entered' = Entered /\ Amounts' = Amounts /\ Requested' = Requested
    BY <2>1 DEF Entered, Amounts, Requested, Open
  <2>3. Balance' = sold' - SumOver(Entered', Payouts) /\ Pending' = SumOver(Amounts', Requested')
    BY DEF Balance, Pending, Entered, Amounts, Requested
  <2>4. Balance = sold - SumOver(Entered, Payouts) /\ Pending = SumOver(Amounts, Requested)
    BY <1>a, AccountSums
  <2>5. SumOver(Entered, Payouts) \in Int /\ sold \in Nat
    <3>1. \A r \in Payouts : Entered[r] \in Int
      BY <1>a, AccountSums
    <3> QED
      BY <1>a, <3>1, FinanceAssumption, SumIsInt DEF RowsTyped
  <2>6. Balance' = Balance + 1 /\ Pending' = Pending
    BY <2>1, <2>2, <2>3, <2>4, <2>5
  <2>7. \A q \in Procs : \A g \in {doing[q]} : Entitled(g)'
    BY <1>a, <1>b, <1>d, <2>1, <2>6
  <2>8. \A q \in Procs : Entitled(doing[q])'
    BY <2>1, <2>7
  <2>9. RowsAccounted'
    BY <1>a, <2>1 DEF RowsAccounted
  <2> QED
    BY <1>a, <1>b, <2>6, <2>8, <2>9 DEF AccountMoves
<1>5. CASE Crash
  <2>1. UNCHANGED money /\ \A q \in Procs : doing'[q] = Idle
    BY <1>5 DEF Crash
  <2>2. \A q \in Procs : Entitled(doing[q])'
    BY <2>1, IdleFits DEF Entitled, Deciding
  <2> QED
    BY <1>c, <2>1, <2>2
<1>6. CASE JudgeProfile \/ Calculate \/ CancelDocument \/ UNCHANGED vars
  <2>1. UNCHANGED <<money, doing>>
    BY <1>6 DEF JudgeProfile, Calculate, CancelDocument, vars
  <2>2. \A q \in Procs : \A g \in {doing[q]} : Entitled(g)'
    BY <1>a, <1>b, <1>c, <1>d, <2>1 DEF money
  <2>3. \A q \in Procs : Entitled(doing[q])'
    BY <2>1, <2>2
  <2> QED
    BY <1>c, <2>1, <2>3
<1> HIDE DEF Kept
<1> QED
  BY <1>1, <1>2, <1>3, <1>4, <1>5, <1>6 DEF Next

LEMMA NextKeepsAccount ==
  ASSUME NumberInv, MoneyInv, MoneyInv', SumsTyped, SumsTyped', FrozenInv, AccountInv, [Next]_vars
  PROVE  AccountInv' /\ [Account!Deposit \/ Account!Hold \/ Account!Release \/ Account!PayOut]_<<
            IF AsOffered THEN Balance ELSE 0, IF AsOffered THEN Pending ELSE 0>>
<1>1. AsOffered' <=> AsOffered
  BY SceneStays DEF AsOffered, OneAtATime
<1>2. CASE AsOffered
  <2>1. AccountMoves /\ RowsAccounted' /\ Pending' <= Balance' /\ \A p \in Procs : Entitled(doing[p])'
    BY <1>2, AccountKept
  <2>2. AccountInv'
    BY <2>1 DEF AccountInv
  <2>3. Balance \in Int /\ Pending \in Nat /\ Balance' \in Int /\ Pending' \in Nat
    BY DEF SumsTyped
  <2>4. Balance' \in Nat
    BY <2>1, <2>3
  <2> HIDE DEF AccountInv
  <2> QED
    BY <1>1, <1>2, <2>1, <2>2, <2>3, <2>4
       DEF AccountMoves, Account!Deposit, Account!Hold, Account!Release, Account!PayOut
<1>3. CASE ~AsOffered
  BY <1>1, <1>3 DEF AccountInv
<1> QED
  BY <1>2, <1>3

(***************************************************************************)
(* The supplier's account, in the book of entries and the rows of requests:*)
(* a request holds part of the balance and never more than is free, and a  *)
(* payment takes what was held (SupplierFinanceService, PayoutService), as *)
(* long as the endpoints are used as offered and one at a time.            *)
(***************************************************************************)
THEOREM HoldsAndPays == Spec => KeepsAccount
<1>1. NumberInv /\ MoneyInv => SumsTyped
  BY AccountSums DEF MoneyInv, SumsTyped
<1>2. Init => AccountInv /\ Balance = 0 /\ Pending = 0
  <2> SUFFICES ASSUME Init PROVE AccountInv /\ Balance = 0 /\ Pending = 0
    OBVIOUS
  <2>1. Balance = sold - SumOver(Entered, Payouts) /\ Pending = SumOver(Amounts, Requested)
    BY DEF Balance, Pending, Entered, Amounts, Requested
  <2>2. Requested = {} /\ \A r \in Payouts : Entered[r] = 0
    BY DEF Init, Requested, Open, NoRow, Entered
  <2>3. SumOver(Entered, Payouts) = 0 /\ SumOver(Amounts, Requested) = 0
    BY <2>2, SumOfNone, SumOfZeros, FinanceAssumption
  <2>4. Balance = 0 /\ Pending = 0
    BY <2>1, <2>3 DEF Init
  <2>5. RowsAccounted
    BY DEF Init, RowsAccounted, NoRow
  <2>6. \A p \in Procs : Entitled(doing[p])
    BY IdleFits DEF Init, Entitled, Deciding
  <2> QED
    BY <2>4, <2>5, <2>6 DEF AccountInv
<1>3. Init => Account!Init
  BY <1>2 DEF Account!Init
<1>4. /\ NumberInv /\ MoneyInv /\ MoneyInv' /\ SumsTyped /\ SumsTyped' /\ FrozenInv /\ AccountInv /\ [Next]_vars
      => AccountInv' /\ [Account!Deposit \/ Account!Hold \/ Account!Release \/ Account!PayOut]_<<
            IF AsOffered THEN Balance ELSE 0, IF AsOffered THEN Pending ELSE 0>>
  BY NextKeepsAccount
<1> QED
  BY <1>1, <1>2, <1>3, <1>4, MoneyHolds, FrozenHolds, PTL DEF Spec, KeepsAccount, Account!Solvent
=============================================================================
