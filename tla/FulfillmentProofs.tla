-------------------------- MODULE FulfillmentProofs --------------------------
(***************************************************************************)
(* Theorems about Fulfillment for any lines, adapters, prices,             *)
(* administrators, handlers that overlap, and faults.                      *)
(*                                                                         *)
(* ConfirmedIsBooked and RefundedIsAnswered speak of rows; the reason why  *)
(* they hold is in the steps that handlers have still to take.  A step     *)
(* that marks a row is Backed: what it marks has happened outside, or will *)
(* have before the handler gets to it.                                     *)
(***************************************************************************)
EXTENDS Fulfillment, SequenceTheorems, FiniteSetTheorems, TLAPS

(***************************************************************************)
(* What SetToSeq returns: handlers go through the rows of a query one      *)
(* after the other, and the order is not specified.                        *)
(***************************************************************************)
\* A finite set as a sequence: as long as the set is large, made of its members.
LEMMA SetAsSequence ==
  ASSUME NEW S, IsFiniteSet(S)
  PROVE  /\ Cardinality(S) \in Nat
         /\ SetToSeq(S) \in [1..Cardinality(S) -> S]
         /\ SetToSeq(S) \in Seq(S)
<1>1. PICK n \in Nat : ExistsBijection(1..n, S)
  BY FS_NatBijection
<1>2. Cardinality(S) = n
  BY <1>1, FS_CountingElements
<1>3. \E f \in [1..Cardinality(S) -> S] : IsInjective(f)
  BY <1>1, <1>2 DEF ExistsBijection, Bijection, Injection, Surjection, IsInjective
<1>4. SetToSeq(S) \in [1..Cardinality(S) -> S] /\ Cardinality(S) \in Nat
  BY <1>2, <1>3 DEF SetToSeq
<1>5. QED
  BY <1>4

-----------------------------------------------------------------------------
(***************************************************************************)
(* Sums over finite sets.  MapThenSumSet picks the members in some order;  *)
(* what follows says that the order does not matter.  Its sums over all    *)
(* subsets of a set are a table, which exists and is unique, by taking a   *)
(* smallest subset for which this would fail.                              *)
(***************************************************************************)
SumOver(f, S) == MapThenSumSet(LAMBDA x : f[x], S)
First(s) == CHOOSE x \in s : TRUE

\* A table of the sums over the subsets of S, built as MapThenSumSet does.
Adds(t, f, S) ==
  t = [s \in SUBSET S |-> IF s = {} THEN 0 ELSE f[First(s)] + t[s \ {First(s)}]]
Table(f, S) == CHOOSE t : Adds(t, f, S)

\* Of some subsets of a finite set, one contains no other.
LEMMA Smallest ==
  ASSUME NEW S, IsFiniteSet(S), NEW C \in SUBSET SUBSET S, C # {}
  PROVE  \E T \in C : \A U \in C : ~(U \subseteq T /\ U # T)
<1>1. IsWellFoundedOn(StrictSubsetOrdering(S), SUBSET S)
  BY FS_StrictSubsetOrderingWellFounded, FS_FiniteSubsetsOfFinite
<1>2. PICK T \in C : \A U \in C : ~(<<U, T>> \in StrictSubsetOrdering(S))
  BY <1>1, WFMin
<1> QED
  BY <1>2 DEF StrictSubsetOrdering

\* MapThenSumSet reads its result from the table.
LEMMA SumIsInTable ==
  ASSUME NEW f, NEW S
  PROVE  SumOver(f, S) = Table(f, S)[S]
BY DEF SumOver, MapThenSumSet, MapThenFoldSet, Table, Adds, First

\* The entries of a table.
LEMMA Entries ==
  ASSUME NEW f, NEW S, NEW t, Adds(t, f, S), NEW s \in SUBSET S
  PROVE  /\ s = {} => t[s] = 0
         /\ s # {} => First(s) \in s /\ t[s] = f[First(s)] + t[s \ {First(s)}]
<1>1. t[s] = IF s = {} THEN 0 ELSE f[First(s)] + t[s \ {First(s)}]
  BY DEF Adds
<1> QED
  BY <1>1 DEF First

\* Tables agree where they overlap.
LEMMA OneTable ==
  ASSUME NEW f, NEW S, NEW T, NEW V \in SUBSET (S \cap T), IsFiniteSet(V),
         NEW t, Adds(t, f, S), NEW u, Adds(u, f, T)
  PROVE  t[V] = u[V]
<1> DEFINE C == {U \in SUBSET V : t[U] # u[U]}
<1> SUFFICES ASSUME C # {} PROVE FALSE
  OBVIOUS
<1>1. PICK U \in C : \A W \in C : ~(W \subseteq U /\ W # U)
  <2> HIDE DEF C
  <2>1. C \in SUBSET SUBSET V
    BY DEF C
  <2> QED
    BY <2>1, Smallest
<1>2. U \in SUBSET S /\ U \in SUBSET T
  OBVIOUS
<1>3. CASE U = {}
  BY <1>2, <1>3, Entries
<1>4. CASE U # {}
  <2>1. First(U) \in U /\ t[U] = f[First(U)] + t[U \ {First(U)}]
    <3>1. U \in SUBSET S /\ Adds(t, f, S)
      BY <1>2
    <3> HIDE DEF C
    <3> QED
      BY ONLY <3>1, <1>4, Entries
  <2>3. u[U] = f[First(U)] + u[U \ {First(U)}]
    <3>1. U \in SUBSET T /\ Adds(u, f, T)
      BY <1>2
    <3> HIDE DEF C
    <3> QED
      BY ONLY <3>1, <1>4, Entries
  <2>2. t[U \ {First(U)}] = u[U \ {First(U)}]
    BY <1>1, <2>1
  <2> QED
    BY <2>1, <2>2, <2>3
<1> QED
  BY <1>3, <1>4

\* Every finite set has a table.
LEMMA TableExists ==
  ASSUME NEW f, NEW S, IsFiniteSet(S)
  PROVE  Adds(Table(f, S), f, S)
<1> DEFINE C == {T \in SUBSET S : \A t : ~Adds(t, f, T)}
<1>1. SUFFICES ASSUME C # {} PROVE FALSE
  BY DEF Table
<1>2. PICK T \in C : \A W \in C : ~(W \subseteq T /\ W # T)
  <2> HIDE DEF C
  <2>1. C \in SUBSET SUBSET S
    BY DEF C
  <2> QED
    BY <1>1, <2>1, Smallest
<1>3. ASSUME NEW U \in SUBSET T, U # T PROVE Adds(Table(f, U), f, U)
  <2>1. U \notin C /\ U \in SUBSET S
    BY <1>2, <1>3
  <2>2. \E t : Adds(t, f, U)
    BY <2>1
  <2> QED
    BY <2>2 DEF Table
<1> DEFINE W(V) == V \ {First(V)}
<1> DEFINE h == [V \in SUBSET T |-> IF V = {} THEN 0 ELSE f[First(V)] + Table(f, W(V))[W(V)]]
<1>4. ASSUME NEW V \in SUBSET T, V # {}
      PROVE  W(V) \in SUBSET T /\ W(V) # T
  BY <1>4 DEF First
<1>5. ASSUME NEW V \in SUBSET T, V # {}
      PROVE  h[W(V)] = Table(f, W(V))[W(V)]
  <2>1. PICK X : X = W(V)
    OBVIOUS
  <2>2. X \in SUBSET T /\ X # T /\ Adds(Table(f, X), f, X)
    BY <1>3, <1>4, <1>5, <2>1
  <2>3. CASE X = {}
    <3>1. h[X] = 0
      BY <2>2, <2>3
    <3>2. Table(f, X)[X] = 0
      BY <2>2, <2>3, Entries
    <3> QED
      BY <2>1, <3>1, <3>2
  <2>4. CASE X # {}
    <3>1. PICK Y : Y = W(X)
      OBVIOUS
    <3>2. Y \in SUBSET X /\ Y \in SUBSET T /\ Y # T /\ Adds(Table(f, Y), f, Y)
      BY <1>3, <1>4, <2>2, <2>4, <3>1
    <3>3. h[X] = f[First(X)] + Table(f, Y)[Y]
      BY <2>2, <2>4, <3>1
    <3>4. Table(f, X)[X] = f[First(X)] + Table(f, X)[Y]
      BY <2>2, <2>4, <3>1, Entries
    <3>5. IsFiniteSet(Y)
      BY <1>2, <3>2, FS_Subset
    <3>6. Table(f, X)[Y] = Table(f, Y)[Y]
      BY <2>2, <3>2, <3>5, OneTable
    <3> QED
      BY <2>1, <3>3, <3>4, <3>6
  <2> QED
    BY <2>3, <2>4
<1>6. Adds(h, f, T)
  <2>1. \A V \in SUBSET T : h[V] = IF V = {} THEN 0 ELSE f[First(V)] + h[V \ {First(V)}]
    BY <1>5
  <2>2. h = [V \in SUBSET T |-> h[V]]
    OBVIOUS
  <2> HIDE DEF h
  <2> QED
    BY <2>1, <2>2 DEF Adds
<1> HIDE DEF h
<1> QED
  BY <1>2, <1>6

\* Sums by what is taken first.
LEMMA SumByFirst ==
  ASSUME NEW f, NEW S, IsFiniteSet(S)
  PROVE  /\ S = {} => SumOver(f, S) = 0
         /\ S # {} => First(S) \in S /\ SumOver(f, S) = f[First(S)] + SumOver(f, S \ {First(S)})
<1>1. Adds(Table(f, S), f, S) /\ SumOver(f, S) = Table(f, S)[S]
  BY TableExists, SumIsInTable
<1>2. CASE S = {}
  BY <1>1, <1>2, Entries
<1>3. CASE S # {}
  <2>1. PICK Y : Y = S \ {First(S)}
    OBVIOUS
  <2>2. IsFiniteSet(Y) /\ Y \in SUBSET S
    BY <2>1, FS_Subset
  <2>3. Adds(Table(f, Y), f, Y) /\ SumOver(f, Y) = Table(f, Y)[Y]
    BY <2>2, TableExists, SumIsInTable
  <2>4. Table(f, S)[Y] = Table(f, Y)[Y]
    BY <1>1, <2>2, <2>3, OneTable
  <2> QED
    BY <1>1, <1>3, <2>1, <2>3, <2>4, Entries
<1> QED
  BY <1>2, <1>3

\* Nothing sums up to nothing.
LEMMA SumOfNone == \A f : SumOver(f, {}) = 0
<1> SUFFICES ASSUME NEW f PROVE SumOver(f, {}) = 0
  OBVIOUS
<1>1. IsFiniteSet({})
  BY FS_EmptySet
<1> QED
  BY <1>1, SumByFirst

\* The order does not matter: any member may be taken out.
LEMMA SumWithout ==
  ASSUME NEW f, NEW S, IsFiniteSet(S), NEW x \in S, \A y \in S : f[y] \in Int
  PROVE  SumOver(f, S) \in Int /\ SumOver(f, S) = f[x] + SumOver(f, S \ {x})
<1> DEFINE Fails(U) == \/ SumOver(f, U) \notin Int
                       \/ \E z \in U : SumOver(f, U) # f[z] + SumOver(f, U \ {z})
<1> DEFINE C == {U \in SUBSET S : Fails(U)}
<1>1. SUFFICES ASSUME C # {} PROVE FALSE
  <2>1. S \notin C
    BY <1>1
  <2> QED
    BY <2>1
<1>2. PICK U \in C : \A W \in C : ~(W \subseteq U /\ W # U)
  <2> HIDE DEF C
  <2>1. C \in SUBSET SUBSET S
    BY DEF C
  <2> QED
    BY <1>1, <2>1, Smallest
<1>3. U \in SUBSET S /\ IsFiniteSet(U)
  BY FS_Subset
<1>4. ASSUME NEW W \in SUBSET U, W # U
      PROVE  SumOver(f, W) \in Int /\ \A z \in W : SumOver(f, W) = f[z] + SumOver(f, W \ {z})
  BY <1>2, <1>3, <1>4
<1>5. CASE U = {}
  BY <1>2, <1>5, SumOfNone
<1>6. CASE U # {}
  <2>1. PICK y \in U : y = First(U)
    BY <1>6 DEF First
  <2>2. SumOver(f, U) = f[y] + SumOver(f, U \ {y})
    BY <1>3, <1>6, <2>1, SumByFirst
  <2>3. SumOver(f, U \ {y}) \in Int /\ f[y] \in Int
    <3>1. U \ {y} \in SUBSET U /\ U \ {y} # U
      BY <2>1
    <3> QED
      BY <3>1, <1>3, <1>4
  <2>4. ASSUME NEW z \in U PROVE SumOver(f, U) = f[z] + SumOver(f, U \ {z})
    <3>1. CASE z = y
      BY <2>2, <3>1
    <3>2. CASE z # y
      <4>1. SumOver(f, U \ {y}) = f[z] + SumOver(f, (U \ {y}) \ {z})
        <5>1. U \ {y} \in SUBSET U /\ U \ {y} # U /\ z \in U \ {y}
          BY <2>1, <3>2
        <5> QED
          BY <5>1, <1>4
      <4>2. SumOver(f, U \ {z}) = f[y] + SumOver(f, (U \ {z}) \ {y})
        <5>1. U \ {z} \in SUBSET U /\ U \ {z} # U /\ y \in U \ {z}
          BY <2>1, <3>2
        <5> QED
          BY <5>1, <1>4
      <4>3. (U \ {y}) \ {z} = (U \ {z}) \ {y}
        OBVIOUS
      <4>4. SumOver(f, (U \ {y}) \ {z}) \in Int /\ f[z] \in Int
        <5>1. (U \ {y}) \ {z} \in SUBSET U /\ (U \ {y}) \ {z} # U
          BY <2>1
        <5> QED
          BY <5>1, <1>3, <1>4
      <4>5. PICK a, b, c : a = SumOver(f, U) /\ b = SumOver(f, U \ {z})
                           /\ c = SumOver(f, (U \ {y}) \ {z})
        OBVIOUS
      <4>6. a = f[y] + (f[z] + c) /\ b = f[y] + c
        BY <2>2, <4>1, <4>2, <4>3, <4>5
      <4>7. f[y] \in Int /\ f[z] \in Int /\ c \in Int
        BY <2>3, <4>4, <4>5
      <4>8. a = f[z] + b
        BY <4>6, <4>7
      <4> QED
        BY <4>5, <4>8
    <3> QED
      BY <3>1, <3>2
  <2>5. SumOver(f, U) \in Int
    BY <2>2, <2>3
  <2> QED
    BY <1>2, <2>4, <2>5
<1> QED
  BY <1>5, <1>6

\* Sums of integers are integers.
LEMMA SumIsInt ==
  ASSUME NEW f, NEW S, IsFiniteSet(S), \A y \in S : f[y] \in Int
  PROVE  SumOver(f, S) \in Int
<1>1. CASE S = {}
  BY <1>1, SumOfNone
<1>2. CASE S # {}
  <2>1. PICK x \in S : TRUE
    BY <1>2
  <2> QED
    BY <2>1, SumWithout
<1> QED
  BY <1>1, <1>2

\* A member more is its value more.
LEMMA SumWith ==
  ASSUME NEW f, NEW S, IsFiniteSet(S), NEW x, x \notin S, f[x] \in Int, \A y \in S : f[y] \in Int
  PROVE  SumOver(f, S \cup {x}) = SumOver(f, S) + f[x]
<1>1. IsFiniteSet(S \cup {x}) /\ (S \cup {x}) \ {x} = S /\ \A y \in S \cup {x} : f[y] \in Int
  BY FS_AddElement
<1>2. SumOver(f, S \cup {x}) = f[x] + SumOver(f, S)
  BY <1>1, SumWithout
<1>3. SumOver(f, S) \in Int
  BY SumIsInt
<1> QED
  BY <1>2, <1>3

\* Sums of sets that have no member in common, and of larger sets.
LEMMA SumOfBoth ==
  ASSUME NEW f, NEW S, IsFiniteSet(S), NEW T, IsFiniteSet(T), S \cap T = {},
         \A y \in S \cup T : f[y] \in Int
  PROVE  SumOver(f, S \cup T) = SumOver(f, S) + SumOver(f, T)
<1> DEFINE C == {U \in SUBSET T : SumOver(f, S \cup U) # SumOver(f, S) + SumOver(f, U)}
<1>1. SUFFICES ASSUME C # {} PROVE FALSE
  <2>1. T \notin C
    BY <1>1
  <2> QED
    BY <2>1
<1>2. PICK U \in C : \A W \in C : ~(W \subseteq U /\ W # U)
  <2> HIDE DEF C
  <2>1. C \in SUBSET SUBSET T
    BY DEF C
  <2> QED
    BY <1>1, <2>1, Smallest
<1>3. IsFiniteSet(U) /\ U \in SUBSET T
  BY FS_Subset
<1>4. CASE U = {}
  <2>1. SumOver(f, S) \in Int /\ SumOver(f, U) = 0 /\ S \cup U = S
    <3>1. SumOver(f, S) \in Int
      BY SumIsInt
    <3> QED
      BY <1>4, <3>1, SumOfNone
  <2> QED
    BY <1>2, <2>1
<1>5. CASE U # {}
  <2>1. PICK x \in U : TRUE
    BY <1>5
  <2>2. PICK W : W = U \ {x}
    OBVIOUS
  <2>3. W \in SUBSET T /\ W # U /\ IsFiniteSet(W) /\ W \subseteq U /\ W \cup {x} = U /\ x \notin W /\ x \notin S
    BY <1>3, <2>1, <2>2, FS_Subset
  <2>4. SumOver(f, S \cup W) = SumOver(f, S) + SumOver(f, W)
    BY <1>2, <2>3
  <2>5. IsFiniteSet(S \cup W) /\ S \cup U = (S \cup W) \cup {x}
    BY <2>3, FS_Union
  <2>6. \A y \in S \cup W : f[y] \in Int
    BY <2>3
  <2>7. f[x] \in Int
    BY <1>3, <2>1
  <2>8. SumOver(f, S \cup U) = SumOver(f, S \cup W) + f[x]
    BY <2>3, <2>5, <2>6, <2>7, SumWith
  <2>9. SumOver(f, U) = SumOver(f, W) + f[x]
    BY <2>3, <2>6, <2>7, SumWith
  <2>10. SumOver(f, S) \in Int /\ SumOver(f, W) \in Int
    <3>1. \A y \in W : f[y] \in Int
      BY <2>6
    <3> QED
      BY <2>3, <3>1, SumIsInt
  <2> QED
    BY <1>2, <2>4, <2>7, <2>8, <2>9, <2>10
<1> QED
  BY <1>4, <1>5

\* Sums of natural numbers.
LEMMA SumIsNat ==
  ASSUME NEW f, NEW S, IsFiniteSet(S), \A y \in S : f[y] \in Nat
  PROVE  SumOver(f, S) \in Nat
<1> DEFINE C == {U \in SUBSET S : SumOver(f, U) \notin Nat}
<1>1. SUFFICES ASSUME C # {} PROVE FALSE
  <2>1. S \notin C
    BY <1>1
  <2> QED
    BY <2>1
<1>2. PICK U \in C : \A W \in C : ~(W \subseteq U /\ W # U)
  <2> HIDE DEF C
  <2>1. C \in SUBSET SUBSET S
    BY DEF C
  <2> QED
    BY <1>1, <2>1, Smallest
<1>3. IsFiniteSet(U)
  BY FS_Subset
<1>4. CASE U = {}
  BY <1>2, <1>4, SumOfNone
<1>5. CASE U # {}
  <2>1. First(U) \in U /\ SumOver(f, U) = f[First(U)] + SumOver(f, U \ {First(U)})
    BY <1>3, <1>5, SumByFirst
  <2>2. SumOver(f, U \ {First(U)}) \in Nat
    BY <1>2, <2>1
  <2> QED
    BY <1>2, <2>1, <2>2
<1> QED
  BY <1>4, <1>5

\* A part sums up to no more than the whole.
LEMMA SumOfPart ==
  ASSUME NEW f, NEW S, IsFiniteSet(S), NEW T \in SUBSET S, \A y \in S : f[y] \in Nat
  PROVE  SumOver(f, T) <= SumOver(f, S)
<1>1. IsFiniteSet(T) /\ IsFiniteSet(S \ T) /\ T \cup (S \ T) = S /\ T \cap (S \ T) = {}
  BY FS_Subset
<1>2. SumOver(f, T) \in Nat /\ SumOver(f, S \ T) \in Nat
  BY <1>1, SumIsNat
<1>3. SumOver(f, T \cup (S \ T)) = SumOver(f, T) + SumOver(f, S \ T)
  <2>1. \A y \in T \cup (S \ T) : f[y] \in Int
    OBVIOUS
  <2> QED
    BY <1>1, <2>1, SumOfBoth
<1>4. PICK a, b, c : a = SumOver(f, T) /\ b = SumOver(f, S \ T) /\ c = SumOver(f, S)
  OBVIOUS
<1>5. a \in Nat /\ b \in Nat /\ c = a + b
  BY <1>1, <1>2, <1>3, <1>4
<1>6. a <= c
  BY <1>5
<1> QED
  BY <1>4, <1>6

-----------------------------------------------------------------------------
OfLine == {"setReserving", "reserve", "setReserved", "confirm", "setConfirmed", "fail"}
OfAll  == {"setIntentRefunded", "refundAll"}
SetsOut == {"setReserving", "reserve", "setReserved", "fail"}
Marks  == OfLine \cup OfAll \cup {"setRefunded"}

IsAnswered(i) == \/ \E r \in refunds : i \in r.key
                 \/ \E key \in canceled : i \in key

\* What a row that says CONFIRMED claims: of TC, which is called, that it has an
\* order and has confirmed it.
Ordered(i) == CallsOut(i) => orders[i] >= 1
Booked(i)  == CallsOut(i) => i \in booked /\ orders[i] >= 1

\* A call for this key has been answered when the step is taken.
NowKnown(key) == (\E r \in refunds' : r.key = key) \/ key \in canceled'

\* The refund this step waits for comes before it.
Ahead(steps, n, i) == \E m \in 1..(n - 1) : steps[m].do = "refund" /\ i \in steps[m].of
AllAhead(steps, n) == \E m \in 1..(n - 1) : steps[m].do = "refund" /\ steps[m].of = FullKey

Backed(steps, n) ==
  /\ steps[n].do \in OfLine => steps[n].item \in Items
  /\ steps[n].do = "confirm" => Ordered(steps[n].item)
  /\ steps[n].do = "setConfirmed" => Booked(steps[n].item)
  /\ steps[n].do = "setRefunded" =>
       IsAnswered(steps[n].item) \/ Ahead(steps, n, steps[n].item)
  /\ steps[n].do \in OfAll => Known(FullKey) \/ AllAhead(steps, n)

AllBacked(steps) == \A n \in 1..Len(steps) : Backed(steps, n)

StepsBacked == \A p \in Everyone : AllBacked(todo[p])

\* A job that is still to run has tries left.
JobHasTries ==
  job.state \in {"waiting", "active"} =>
    job.failures < MaxJobAttempts /\ job.stalls <= MaxStalls

JobOK(j) ==
  /\ j \in [state : {"waiting", "active", "completed", "failed"},
            failures : 0..MaxJobAttempts, stalls : 0..(MaxStalls + 1)]
  /\ j.state \in {"waiting", "active"} => j.failures < MaxJobAttempts /\ j.stalls <= MaxStalls

\* What the rows say of the world outside.
Outside == ConfirmedIsBooked /\ RefundedIsAnswered

Safe == StateTyped /\ JobHasTries /\ StepsBacked /\ Outside

\* The providers and YooKassa forget nothing.
OutsideGrows ==
  /\ booked \subseteq booked' /\ refunds \subseteq refunds' /\ canceled \subseteq canceled'
  /\ orders \in [Items -> Nat] /\ orders' \in [Items -> Nat]
  /\ \A i \in Items : orders[i] >= 1 => orders'[i] >= 1

\* Each makes one step for each line of the set.
LEMMA EachIsTyped ==
  ASSUME NEW kind \in StepKinds, NEW S \in SUBSET (Items \cup {NoItem})
  PROVE  /\ Each(kind, S) \in Seq(HandlerSteps) /\ Len(Each(kind, S)) = Cardinality(S)
         /\ \A n \in 1..Len(Each(kind, S)) : /\ Each(kind, S)[n].do = kind
                                             /\ Each(kind, S)[n].item \in S
<1>1. IsFiniteSet(S)
  BY FulfillmentAssumption, FS_Subset, FS_Singleton, FS_Union
<1>2. Cardinality(S) \in Nat /\ \A n \in 1..Cardinality(S) : SetToSeq(S)[n] \in S
  BY <1>1, SetAsSequence
<1>3. \A i \in S : /\ DoItem(kind, i) \in HandlerSteps
                   /\ DoItem(kind, i).do = kind /\ DoItem(kind, i).item = i
  BY DEF DoItem, Do, HandlerSteps, RefundKeys
<1>4. \A n \in 1..Cardinality(S) : Each(kind, S)[n] = DoItem(kind, SetToSeq(S)[n])
  BY DEF Each
<1>5. Each(kind, S) \in [1..Cardinality(S) -> HandlerSteps]
  BY <1>2, <1>3 DEF Each
<1>6. Each(kind, S) \in Seq(HandlerSteps) /\ Len(Each(kind, S)) = Cardinality(S)
  BY <1>2, <1>5
<1>7. QED
  BY <1>2, <1>3, <1>4, <1>6

(***************************************************************************)
(* Steps stay backed while the world outside only grows.                   *)
(***************************************************************************)
LEMMA BackedLater ==
  ASSUME NEW s \in Seq(HandlerSteps), AllBacked(s), OutsideGrows
  PROVE  AllBacked(s)'
<1> SUFFICES ASSUME NEW n \in 1..Len(s) PROVE Backed(s, n)'
  BY DEF AllBacked
<1>1. Backed(s, n)
  BY DEF AllBacked
<1>2. s[n].do \in OfLine => s[n].item \in Items
  BY <1>1 DEF Backed
<1>3. IsAnswered(s[n].item) => IsAnswered(s[n].item)'
  BY DEF IsAnswered, OutsideGrows
<1>4. Known(FullKey) => Known(FullKey)'
  BY DEF Known, Returned, OutsideGrows
<1>5. s[n].do = "confirm" => Ordered(s[n].item)'
  BY <1>1, <1>2 DEF Backed, OfLine, Ordered, OutsideGrows
<1>6. s[n].do = "setConfirmed" => Booked(s[n].item)'
  BY <1>1, <1>2 DEF Backed, OfLine, Booked, OutsideGrows
<1>7. QED
  BY <1>1, <1>2, <1>3, <1>4, <1>5, <1>6 DEF Backed, Ahead, AllAhead

\* What a step has decided may take the place of the step, if it is backed, and
\* if the step, should it be a refund, has been made.
LEMMA BackedReplaced ==
  ASSUME NEW new \in Seq(HandlerSteps), NEW old \in Seq(HandlerSteps), old # <<>>,
         AllBacked(old), OutsideGrows, AllBacked(new)',
         Head(old).do = "refund" => NowKnown(Head(old).of)
  PROVE  /\ new \o Tail(old) \in Seq(HandlerSteps)
         /\ AllBacked(new \o Tail(old))'
<1>1. /\ Tail(old) \in Seq(HandlerSteps) /\ Len(Tail(old)) = Len(old) - 1
      /\ \A k \in 1..Len(Tail(old)) : Tail(old)[k] = old[k + 1]
      /\ Len(old) \in Nat /\ Len(old) >= 1 /\ Head(old) = old[1]
      /\ Len(new) \in Nat
  OBVIOUS
<1>2. PICK s : s = new \o Tail(old)
  OBVIOUS
<1>3. /\ s \in Seq(HandlerSteps) /\ Len(s) = Len(new) + Len(old) - 1
      /\ \A n \in 1..Len(new) : s[n] = new[n]
      /\ \A n \in 1..Len(s) : n > Len(new) => s[n] = old[n - Len(new) + 1]
  BY <1>1, <1>2
<1>4. AllBacked(old)'
  BY BackedLater
<1>5. ASSUME NEW n \in 1..Len(s) PROVE Backed(s, n)'
  <2>1. CASE n <= Len(new)
    <3>1. n \in 1..Len(new) /\ s[n] = new[n] /\ \A m \in 1..(n - 1) : s[m] = new[m]
      BY <1>1, <1>3, <2>1
    <3>2. Backed(new, n)'
      BY <3>1 DEF AllBacked
    <3>3. QED
      BY <3>1, <3>2 DEF Backed, Ahead, AllAhead, IsAnswered, Ordered, Booked, Known, Returned
  <2>2. CASE n > Len(new)
    <3>1. PICK k : k = n - Len(new) + 1
      OBVIOUS
    <3>2. k \in 2..Len(old) /\ s[n] = old[k]
      BY <1>1, <1>3, <2>2, <3>1
    <3>3. Backed(old, k)'
      BY <1>1, <1>4, <3>2 DEF AllBacked
    <3>4. ASSUME NEW m \in 1..(k - 1), old[m].do = "refund"
          PROVE  \/ NowKnown(old[m].of)
                 \/ \E l \in 1..(n - 1) : s[l] = old[m]
      <4>1. CASE m = 1
        BY <1>1, <3>4, <4>1
      <4>2. CASE m # 1
        <5>1. m + Len(new) - 1 \in 1..(n - 1) /\ m + Len(new) - 1 \in 1..Len(s)
              /\ m + Len(new) - 1 > Len(new)
          BY <1>1, <1>3, <3>1, <3>2, <4>2
        <5>2. (m + Len(new) - 1) - Len(new) + 1 = m
          BY <1>1, <3>2
        <5>3. s[m + Len(new) - 1] = old[m]
          BY <1>3, <5>1, <5>2
        <5>4. QED
          BY <5>1, <5>3
      <4>3. QED
        BY <4>1, <4>2
    <3>5. ASSUME NEW i, Ahead(old, k, i) PROVE IsAnswered(i)' \/ Ahead(s, n, i)
      BY <3>4, <3>5 DEF Ahead, IsAnswered, NowKnown
    <3>6. ASSUME AllAhead(old, k) PROVE Known(FullKey)' \/ AllAhead(s, n)
      BY <3>4, <3>6 DEF AllAhead, Known, Returned, NowKnown
    <3>7. \A i : Ahead(old, k, i)' <=> Ahead(old, k, i)
      BY DEF Ahead
    <3>8. \A i : Ahead(s, n, i)' <=> Ahead(s, n, i)
      BY DEF Ahead
    <3>9. (AllAhead(old, k)' <=> AllAhead(old, k)) /\ (AllAhead(s, n)' <=> AllAhead(s, n))
      BY DEF AllAhead
    <3>10. QED
      BY <3>2, <3>3, <3>5, <3>6, <3>7, <3>8, <3>9 DEF Backed
  <2>3. QED
    BY <1>1, <1>3, <2>1, <2>2
<1>6. AllBacked(s)'
  BY <1>5 DEF AllBacked
<1>7. QED
  BY <1>2, <1>3, <1>6

\* Steps that mark nothing, or only set out for the provider, are backed whatever
\* has happened.
LEMMA PlainIsBacked ==
  ASSUME NEW s \in Seq(HandlerSteps),
         \A n \in 1..Len(s) : \/ s[n].do \notin Marks
                              \/ s[n].do \in SetsOut /\ s[n].item \in Items
  PROVE  AllBacked(s) /\ AllBacked(s)'
<1> SUFFICES ASSUME NEW n \in 1..Len(s) PROVE Backed(s, n) /\ Backed(s, n)'
  BY DEF AllBacked
<1>1. s[n].do \notin Marks \/ (s[n].do \in SetsOut /\ s[n].item \in Items)
  OBVIOUS
<1>2. QED
  BY <1>1 DEF Backed, Marks, OfLine, OfAll, SetsOut

(***************************************************************************)
(* A step of one handler keeps StepsBacked.                                *)
(***************************************************************************)
LEMMA SetHandler ==
  ASSUME StateTyped, StepsBacked, OutsideGrows, NEW p \in Everyone,
         NEW s \in Seq(HandlerSteps), AllBacked(s)', todo' = [todo EXCEPT ![p] = s]
  PROVE  todo' \in [Everyone -> Seq(HandlerSteps)] /\ StepsBacked'
<1>1. \A q \in Everyone : todo'[q] = IF q = p THEN s ELSE todo[q]
  BY DEF StateTyped
<1>2. ASSUME NEW q \in Everyone PROVE AllBacked(todo[q])'
  <2>1. ASSUME NEW u, u = todo'[q], AllBacked(u)' PROVE AllBacked(todo[q])'
    BY <2>1 DEF AllBacked, Backed, Ahead, AllAhead
  <2>2. CASE q = p
    BY <1>1, <2>1, <2>2
  <2>3. CASE q # p
    <3>1. PICK t : t = todo[q]
      OBVIOUS
    <3>2. t \in Seq(HandlerSteps) /\ AllBacked(t)
      BY <3>1 DEF StateTyped, StepsBacked
    <3>3. AllBacked(t)' /\ todo'[q] = t
      BY <1>1, <2>3, <3>1, <3>2, BackedLater
    <3>4. QED
      BY <2>1, <3>3
  <2>4. QED
    BY <2>2, <2>3
<1>3. StepsBacked'
  BY <1>2 DEF StepsBacked
<1>4. QED
  BY <1>3 DEF StateTyped

\* A handler that drops its steps leaves the others backed.
LEMMA HandlerStops ==
  ASSUME StateTyped, StepsBacked, OutsideGrows, NEW p \in Everyone,
         todo' = [todo EXCEPT ![p] = <<>>]
  PROVE  todo' \in [Everyone -> Seq(HandlerSteps)] /\ StepsBacked'
<1>1. <<>> \in Seq(HandlerSteps) /\ Len(<<>>) = 0
  OBVIOUS
<1>2. AllBacked(<<>>)'
  BY <1>1 DEF AllBacked
<1>3. QED
  BY <1>1, <1>2, SetHandler

\* A handler that puts backed steps in the place of the one it has taken.
LEMMA HandlerGoesOn ==
  ASSUME StateTyped, StepsBacked, OutsideGrows, NEW p \in Everyone,
         NEW new \in Seq(HandlerSteps), AllBacked(new)', todo[p] # <<>>, Replace(p, new),
         Head(todo[p]).do = "refund" => NowKnown(Head(todo[p]).of)
  PROVE  todo' \in [Everyone -> Seq(HandlerSteps)] /\ StepsBacked'
<1>1. PICK old : old = todo[p]
  OBVIOUS
<1>2. old \in Seq(HandlerSteps) /\ AllBacked(old)
  BY <1>1 DEF StateTyped, StepsBacked
<1>3. new \o Tail(old) \in Seq(HandlerSteps) /\ AllBacked(new \o Tail(old))'
  BY <1>1, <1>2, BackedReplaced
<1>4. todo' = [todo EXCEPT ![p] = new \o Tail(old)]
  BY <1>1 DEF Replace
<1>5. QED
  BY <1>3, <1>4, SetHandler

\* A handler that has taken a step and goes on to the next.
LEMMA HandlerIsDone ==
  ASSUME StateTyped, StepsBacked, OutsideGrows, NEW p \in Everyone,
         todo[p] # <<>>, Done(p),
         Head(todo[p]).do = "refund" => NowKnown(Head(todo[p]).of)
  PROVE  todo' \in [Everyone -> Seq(HandlerSteps)] /\ StepsBacked'
<1>1. <<>> \in Seq(HandlerSteps) /\ Len(<<>>) = 0
  OBVIOUS
<1>2. AllBacked(<<>>)'
  BY <1>1 DEF AllBacked
<1>3. QED
  BY <1>1, <1>2, HandlerGoesOn DEF Done

\* The step at the head of a handler, and why it may be taken.
LEMMA HeadIsBacked ==
  ASSUME StateTyped, StepsBacked, NEW p \in Everyone, todo[p] # <<>>
  PROVE  /\ Cur(p) \in HandlerSteps
         /\ Cur(p).do \in OfLine => Cur(p).item \in Items
         /\ Cur(p).do = "confirm" => Ordered(Cur(p).item)
         /\ Cur(p).do = "setConfirmed" => Booked(Cur(p).item)
         /\ Cur(p).do = "setRefunded" => IsAnswered(Cur(p).item)
         /\ Cur(p).do \in OfAll => Known(FullKey)
<1>1. PICK s : s = todo[p]
  OBVIOUS
<1>2. s \in Seq(HandlerSteps) /\ AllBacked(s) /\ s # <<>>
  BY <1>1 DEF StateTyped, StepsBacked
<1>3. 1 \in 1..Len(s) /\ Head(s) = s[1] /\ s[1] \in HandlerSteps
  BY <1>2
<1>4. Backed(s, 1)
  BY <1>2, <1>3 DEF AllBacked
<1>5. (\A i : ~Ahead(s, 1, i)) /\ ~AllAhead(s, 1)
  BY DEF Ahead, AllAhead
<1>6. QED
  BY <1>1, <1>3, <1>4, <1>5 DEF Cur, Backed

(***************************************************************************)
(* The world outside, and what rows say of it.                             *)
(***************************************************************************)
LEMMA OrdersAreNumbers == StateTyped => orders \in [Items -> Nat]
BY FulfillmentAssumption DEF StateTyped

LEMMA QuietOutside ==
  ASSUME StateTyped, UNCHANGED outside
  PROVE  OutsideGrows
<1>1. /\ orders \in [Items -> Nat] /\ orders' = orders /\ booked' = booked
      /\ refunds' = refunds /\ canceled' = canceled
  BY OrdersAreNumbers DEF outside
<1>2. QED
  BY <1>1 DEF OutsideGrows

\* The order of a reservation is never forgotten by a later one.
LEMMA ReserveGrows ==
  ASSUME StateTyped, NEW i \in Items, orders' = AfterReserve(i),
         UNCHANGED <<booked, refunds, canceled>>
  PROVE  OutsideGrows /\ orders' \in [Items -> 0..MaxOrders] /\ Ordered(i)'
<1>1. orders \in [Items -> 0..MaxOrders] /\ MaxOrders \in Nat \ {0}
  BY FulfillmentAssumption DEF StateTyped
<1>2. CASE ~CallsOut(i)
  <2>1. orders' = orders /\ orders \in [Items -> Nat]
    BY <1>2, OrdersAreNumbers DEF AfterReserve
  <2> QED
    BY <1>1, <1>2, <2>1 DEF OutsideGrows, Ordered, CallsOut
<1>3. CASE CallsOut(i)
  <2>1. orders' = [orders EXCEPT ![i] = IF orders[i] < MaxOrders THEN orders[i] + 1 ELSE orders[i]]
    BY <1>3 DEF AfterReserve
  <2>2. PICK n \in 1..MaxOrders : orders' = [orders EXCEPT ![i] = n]
    <3>1. PICK n : n = IF orders[i] < MaxOrders THEN orders[i] + 1 ELSE orders[i]
      OBVIOUS
    <3>2. n \in 1..MaxOrders
      <4>1. PICK k \in 0..MaxOrders : k = orders[i]
        BY <1>1
      <4> QED
        BY <1>1, <3>1, <4>1
    <3> QED
      BY <2>1, <3>1, <3>2
  <2>3. orders' \in [Items -> 0..MaxOrders] /\ orders'[i] = n
        /\ \A j \in Items : j # i => orders'[j] = orders[j]
    BY <1>1, <2>2
  <2>4. orders \in [Items -> Nat] /\ orders' \in [Items -> Nat]
    BY <1>1, <2>3
  <2> QED
    BY <2>2, <2>3, <2>4 DEF OutsideGrows, Ordered
<1> QED
  BY <1>2, <1>3

\* Rows stay true if what is newly marked has happened outside.
LEMMA RowsStayTrue ==
  ASSUME Outside, OutsideGrows,
         \A i \in Items : items'[i].status = "CONFIRMED" =>
           items[i].status = "CONFIRMED" \/ Booked(i)',
         \A i \in Items : items'[i].status = "REFUNDED" =>
           items[i].status = "REFUNDED" \/ Known(FullKey)' \/ IsAnswered(i)',
         intent' = "REFUNDED" => intent = "REFUNDED" \/ Known(FullKey)'
  PROVE  Outside'
<1>1. Known(FullKey) => Known(FullKey)'
  BY DEF Known, Returned, OutsideGrows
<1>2. \A i \in Items : IsAnswered(i) => IsAnswered(i)'
  BY DEF IsAnswered, OutsideGrows
<1>3. \A i \in Items : Booked(i) => Booked(i)'
  BY DEF OutsideGrows, Booked
<1>4. ConfirmedIsBooked'
  BY <1>3 DEF Outside, ConfirmedIsBooked, Booked
<1>5. RefundedIsAnswered'
  BY <1>1, <1>2 DEF Outside, RefundedIsAnswered, IsAnswered
<1>6. QED
  BY <1>4, <1>5 DEF Outside

(***************************************************************************)
(* Handlers begin.                                                         *)
(***************************************************************************)

\* A job that throws or stalls is tried again while it has tries left.
LEMMA JobMovesOn ==
  ASSUME StateTyped, JobHasTries
  PROVE  JobOK(JobAfterThrow) /\ JobOK(JobAfterRestart)
<1>1. PICK j : j = job
  OBVIOUS
<1>2. /\ j \in [state : {"waiting", "active", "completed", "failed"},
                failures : 0..3, stalls : 0..2]
      /\ j.state \in {"waiting", "active"} => j.failures < 3 /\ j.stalls <= 1
  BY <1>1 DEF StateTyped, JobHasTries, MaxJobAttempts, MaxStalls
<1>3. JobOK(JobAfterThrow)
  <2>1. CASE j.state # "active"
    BY <1>1, <1>2, <2>1 DEF JobAfterThrow, JobOK, MaxJobAttempts, MaxStalls
  <2>2. CASE j.state = "active"
    <3>1. PICK s \in {"waiting", "failed"} :
            /\ JobAfterThrow = [j EXCEPT !.failures = j.failures + 1, !.state = s]
            /\ s = "waiting" => j.failures + 1 < 3
      <4>1. CASE j.failures + 1 < 3
        <5>1. ~(job.failures + 1 >= MaxJobAttempts) /\ job.state = "active"
          BY <1>1, <1>2, <2>2, <4>1 DEF MaxJobAttempts
        <5>2. JobAfterThrow = [j EXCEPT !.failures = j.failures + 1, !.state = "waiting"]
          BY <1>1, <5>1 DEF JobAfterThrow
        <5>3. QED
          BY <4>1, <5>2
      <4>2. CASE j.failures + 1 >= 3
        <5>1. JobAfterThrow = [j EXCEPT !.failures = j.failures + 1, !.state = "failed"]
          BY <1>1, <1>2, <2>2, <4>2 DEF JobAfterThrow, MaxJobAttempts
        <5>2. QED
          BY <5>1
      <4>3. QED
        BY <1>2, <4>1, <4>2
    <3>2. JobAfterThrow = [state |-> s, failures |-> j.failures + 1, stalls |-> j.stalls]
      BY <1>2, <3>1
    <3>3. QED
      BY <1>2, <2>2, <3>1, <3>2 DEF JobOK, MaxJobAttempts, MaxStalls
  <2>3. QED
    BY <2>1, <2>2
<1>4. JobOK(JobAfterRestart)
  <2>1. CASE j.state # "active"
    BY <1>1, <1>2, <2>1 DEF JobAfterRestart, JobOK, MaxJobAttempts, MaxStalls
  <2>2. CASE j.state = "active"
    <3>1. PICK s \in {"waiting", "failed"} :
            /\ JobAfterRestart = [j EXCEPT !.stalls = j.stalls + 1, !.state = s]
            /\ s = "waiting" => j.stalls < 1
      BY <1>1, <1>2, <2>2 DEF JobAfterRestart, MaxJobAttempts, MaxStalls
    <3>2. JobAfterRestart = [state |-> s, failures |-> j.failures, stalls |-> j.stalls + 1]
      BY <1>2, <3>1
    <3>3. QED
      BY <1>2, <2>2, <3>1, <3>2 DEF JobOK, MaxJobAttempts, MaxStalls
  <2>3. QED
    BY <2>1, <2>2
<1>5. QED
  BY <1>3, <1>4

\* A handler begins with steps that mark nothing.
LEMMA BeginKeeps ==
  ASSUME Safe, NEW p \in Everyone, NEW s \in Seq(HandlerSteps), Begin(p, s),
         \A n \in 1..Len(s) : s[n].do \notin Marks, JobOK(job')
  PROVE  Safe'
<1>1. OutsideGrows /\ UNCHANGED <<orders, lost, booked, refunds, canceled>>
  BY QuietOutside DEF Safe, Begin, outside
<1>2. todo' \in [Everyone -> Seq(HandlerSteps)] /\ StepsBacked'
  BY <1>1, PlainIsBacked, SetHandler DEF Safe, Begin
<1>3. Outside'
  BY <1>1, RowsStayTrue DEF Safe, Begin
<1>4. StateTyped' /\ JobHasTries'
  BY <1>1, <1>2 DEF Safe, StateTyped, Begin, JobOK, JobHasTries
<1>5. QED
  BY <1>2, <1>3, <1>4 DEF Safe

(***************************************************************************)
(* A step of a handler that calls neither a provider nor YooKassa.         *)
(***************************************************************************)
LEMMA StepKeeps ==
  ASSUME Safe, NEW p \in Everyone, todo[p] # <<>>, Cur(p).do # "refund",
         NEW new \in Seq(HandlerSteps), Replace(p, new), AllBacked(new)',
         UNCHANGED <<job, outside, faults>>, session' \in CheckoutStatuses,
         intent' \in PaymentStatuses,
         intent' = "REFUNDED" => intent = "REFUNDED" \/ Known(FullKey),
         items' \in [Items -> Row],
         \A i \in Items : items'[i].status = "CONFIRMED" =>
           items[i].status = "CONFIRMED" \/ Booked(i),
         \A i \in Items : items'[i].status = "REFUNDED" =>
           items[i].status = "REFUNDED" \/ Known(FullKey) \/ IsAnswered(i)
  PROVE  Safe'
<1>1. OutsideGrows /\ UNCHANGED <<orders, lost, booked, refunds, canceled>>
  BY QuietOutside DEF Safe, outside
<1>2. todo' \in [Everyone -> Seq(HandlerSteps)] /\ StepsBacked'
  BY <1>1, HandlerGoesOn DEF Safe, Cur
<1>3. /\ (Known(FullKey)' <=> Known(FullKey)) /\ \A i : IsAnswered(i)' <=> IsAnswered(i)
      /\ \A i \in Items : Booked(i)' <=> Booked(i)
  BY <1>1 DEF Known, Returned, IsAnswered, Booked
<1>4. Outside'
  BY <1>1, <1>3, RowsStayTrue DEF Safe
<1>5. StateTyped' /\ JobHasTries'
  BY <1>1, <1>2 DEF Safe, StateTyped, JobHasTries
<1>6. QED
  BY <1>2, <1>4, <1>5 DEF Safe

\* The steps that the constructors of Fulfillment build.
LEMMA StepsAreTyped ==
  ASSUME NEW k \in StepKinds, NEW i \in Items \cup {NoItem}, NEW n \in Nat,
         NEW S \in RefundKeys
  PROVE  /\ Do(k) \in HandlerSteps /\ Do(k).do = k
         /\ DoItem(k, i) \in HandlerSteps /\ DoItem(k, i).do = k /\ DoItem(k, i).item = i
         /\ DoCount(k, i, n) \in HandlerSteps
         /\ DoCount(k, i, n).do = k /\ DoCount(k, i, n).item = i
         /\ DoSet(k, S) \in HandlerSteps /\ DoSet(k, S).do = k /\ DoSet(k, S).of = S
<1>1. Do(k) = [do |-> k, item |-> NoItem, n |-> 0, of |-> {}]
  BY DEF Do
<1>2. DoItem(k, i) = [do |-> k, item |-> i, n |-> 0, of |-> {}]
  BY <1>1 DEF DoItem
<1>3. DoCount(k, i, n) = [do |-> k, item |-> i, n |-> n, of |-> {}]
  BY <1>2 DEF DoCount
<1>4. DoSet(k, S) = [do |-> k, item |-> NoItem, n |-> 0, of |-> S]
  BY <1>1 DEF DoSet
<1>5. QED
  BY <1>1, <1>2, <1>3, <1>4 DEF HandlerSteps, RefundKeys

\* A step without line or number.
LEMMA PlainStep ==
  ASSUME NEW k \in StepKinds
  PROVE  Do(k) \in HandlerSteps /\ Do(k).do = k
<1>1. NoItem \in Items \cup {NoItem} /\ 0 \in Nat /\ {} \in RefundKeys
  BY DEF RefundKeys
<1>2. QED
  BY <1>1, StepsAreTyped

\* A step for a line.
LEMMA LineStep ==
  ASSUME NEW k \in StepKinds, NEW i \in Items
  PROVE  DoItem(k, i) \in HandlerSteps /\ DoItem(k, i).do = k /\ DoItem(k, i).item = i
<1>1. i \in Items \cup {NoItem} /\ 0 \in Nat /\ {} \in RefundKeys
  BY DEF RefundKeys
<1>2. QED
  BY <1>1, StepsAreTyped

\* What a refund may be made for: some lines, or all of the session.
LEMMA KeysAreTyped ==
  /\ FullKey \in RefundKeys /\ \A S \in SUBSET Items : S \in RefundKeys
  /\ \A S \in RefundKeys : S \in SUBSET (Items \cup {NoItem})
<1>1. \A S : S \in RefundKeys <=> S \in SUBSET Items \/ S = FullKey
  BY Zenon DEF RefundKeys
<1>2. FullKey \in SUBSET (Items \cup {NoItem})
  BY DEF FullKey
<1>3. \A S \in SUBSET Items : S \in SUBSET (Items \cup {NoItem})
  OBVIOUS
<1>4. QED
  BY <1>1, <1>2, <1>3, Zenon

\* One step that marks nothing, as the plan of a handler.
LEMMA OneStep ==
  ASSUME NEW s \in HandlerSteps,
         s.do \notin Marks \/ (s.do \in SetsOut /\ s.item \in Items)
  PROVE  <<s>> \in Seq(HandlerSteps) /\ AllBacked(<<s>>)'
<1>1. PICK t : t = <<s>>
  OBVIOUS
<1>2. t \in Seq(HandlerSteps) /\ Len(t) = 1 /\ t[1] = s
  BY <1>1
<1>3. AllBacked(t)'
  BY <1>2, PlainIsBacked
<1>4. QED
  BY <1>1, <1>2, <1>3

\* The empty plan is backed.
LEMMA NoStep == <<>> \in Seq(HandlerSteps) /\ AllBacked(<<>>)'
<1>1. Len(<<>>) = 0
  OBVIOUS
<1>2. QED
  BY <1>1 DEF AllBacked

\* Backed plans one after the other are a backed plan.
LEMMA StepsInOrder ==
  ASSUME NEW s \in Seq(HandlerSteps), NEW t \in Seq(HandlerSteps),
         AllBacked(s)', AllBacked(t)'
  PROVE  s \o t \in Seq(HandlerSteps) /\ AllBacked(s \o t)'
<1>1. PICK u : u = s \o t
  OBVIOUS
<1>2. /\ u \in Seq(HandlerSteps) /\ Len(u) = Len(s) + Len(t)
      /\ Len(s) \in Nat /\ Len(t) \in Nat
      /\ \A n \in 1..Len(s) : u[n] = s[n]
      /\ \A n \in 1..Len(t) : u[n + Len(s)] = t[n]
  BY <1>1
<1>3. ASSUME NEW n \in 1..Len(u) PROVE Backed(u, n)'
  <2>1. CASE n <= Len(s)
    <3>1. n \in 1..Len(s) /\ u[n] = s[n] /\ \A m \in 1..(n - 1) : u[m] = s[m]
      BY <1>2, <2>1
    <3>2. Backed(s, n)'
      BY <3>1 DEF AllBacked
    <3>3. QED
      BY <3>1, <3>2 DEF Backed, Ahead, AllAhead, IsAnswered, Ordered, Booked, Known, Returned
  <2>2. CASE n > Len(s)
    <3>1. PICK k : k = n - Len(s)
      OBVIOUS
    <3>2. k \in 1..Len(t) /\ n = k + Len(s)
      BY <1>2, <2>2, <3>1
    <3>3. u[n] = t[k]
      BY <1>2, <3>2
    <3>4. Backed(t, k)'
      BY <3>2 DEF AllBacked
    <3>5. ASSUME NEW m \in 1..(k - 1)
          PROVE  m + Len(s) \in 1..(n - 1) /\ u[m + Len(s)] = t[m]
      <4>1. m \in 1..Len(t) /\ m + Len(s) \in 1..(n - 1)
        BY <1>2, <3>2
      <4>2. QED
        BY <1>2, <4>1
    <3>6. (\A i : Ahead(t, k, i) => Ahead(u, n, i)) /\ (AllAhead(t, k) => AllAhead(u, n))
      BY <3>5 DEF Ahead, AllAhead
    <3>7. \A i : (Ahead(t, k, i)' <=> Ahead(t, k, i)) /\ (Ahead(u, n, i)' <=> Ahead(u, n, i))
      BY DEF Ahead
    <3>8. (AllAhead(t, k)' <=> AllAhead(t, k)) /\ (AllAhead(u, n)' <=> AllAhead(u, n))
      BY DEF AllAhead
    <3>9. QED
      BY <3>3, <3>4, <3>6, <3>7, <3>8 DEF Backed
  <2>3. QED
    BY <1>2, <2>1, <2>2
<1>4. AllBacked(u)'
  BY <1>3 DEF AllBacked
<1>5. QED
  BY <1>1, <1>2, <1>4

\* Going through a set of lines, as executeFulfillment does, is backed.
LEMMA EachIsBacked ==
  ASSUME NEW k \in StepKinds, NEW S \in SUBSET Items, k \notin Marks \/ k \in SetsOut
  PROVE  Each(k, S) \in Seq(HandlerSteps) /\ AllBacked(Each(k, S))'
<1>1. PICK s : s = Each(k, S)
  OBVIOUS
<1>2. s \in Seq(HandlerSteps) /\ \A n \in 1..Len(s) : s[n].do = k /\ s[n].item \in S
  BY <1>1, EachIsTyped
<1>3. AllBacked(s)'
  BY <1>2, PlainIsBacked
<1>4. QED
  BY <1>1, <1>2, <1>3

(***************************************************************************)
(* The steps of executeFulfillment and checkCompletion.                    *)
(***************************************************************************)

\* markPaid, whether the transition is allowed, already made or refused.
LEMMA PaidKeeps ==
  ASSUME Safe, NEW p \in Everyone, MarkPaid(p)
  PROVE  Safe'
<1>1. todo[p] # <<>> /\ Cur(p).do # "refund" /\ items' = items /\ UNCHANGED outside
      /\ UNCHANGED faults
  BY DEF MarkPaid, At, Cur
<1>2. "COMPLETED" \in CheckoutStatuses /\ "PAID" \in PaymentStatuses
  BY DEF CheckoutStatuses, PaymentStatuses
<1>3. CASE Done(p) /\ UNCHANGED job
  <2>1. session' \in CheckoutStatuses /\ (intent' = "PAID" \/ intent' = intent)
    BY <1>2, <1>3 DEF MarkPaid, Safe, StateTyped
  <2>2. intent' \in PaymentStatuses
    BY <1>2, <2>1 DEF Safe, StateTyped
  <2>3. QED
    BY <1>1, <1>3, <2>1, <2>2, NoStep, StepKeeps DEF Done, Safe, StateTyped
<1>4. CASE /\ todo' = [todo EXCEPT ![p] = <<>>]
           /\ job' = JobAfterThrow
           /\ UNCHANGED <<session, intent>>
  <2>1. OutsideGrows /\ UNCHANGED <<orders, lost, booked, refunds, canceled>>
    BY <1>1, QuietOutside DEF Safe, outside
  <2>2. todo' \in [Everyone -> Seq(HandlerSteps)] /\ StepsBacked'
    BY <1>4, <2>1, HandlerStops DEF Safe
  <2>3. JobOK(job')
    BY <1>4, JobMovesOn DEF Safe
  <2>4. Outside'
    BY <1>1, <1>4, <2>1, RowsStayTrue DEF Safe
  <2>5. StateTyped' /\ JobHasTries'
    BY <1>1, <1>4, <2>1, <2>2, <2>3 DEF Safe, StateTyped, JobOK, JobHasTries
  <2>6. QED
    BY <2>2, <2>4, <2>5 DEF Safe
<1>5. QED
  BY <1>3, <1>4 DEF MarkPaid

\* The row of startFulfillment.
LEMMA NoRowIsRow == NoRow \in Row /\ [NoRow EXCEPT !.status = "PENDING"] \in Row
                    /\ [NoRow EXCEPT !.status = "PENDING"].status = "PENDING"
<1>1. PICK r : r = [status |-> "none", attempts |-> 0, retry |-> FALSE,
                    escalated |-> FALSE, refunded |-> FALSE]
  OBVIOUS
<1>2. r \in Row /\ NoRow = r
  BY <1>1 DEF NoRow, Row, ItemStatuses
<1>3. [r EXCEPT !.status = "PENDING"] \in Row /\ [r EXCEPT !.status = "PENDING"].status = "PENDING"
  BY <1>2 DEF Row, ItemStatuses
<1>4. QED
  BY <1>2, <1>3

\* startFulfillment creates PENDING rows, or nothing.
LEMMA StartKeeps ==
  ASSUME Safe, NEW p \in Everyone, Start(p)
  PROVE  Safe'
<1>1. todo[p] # <<>> /\ Cur(p).do # "refund"
  BY DEF Start, At, Cur
<1>2. PICK r : r = [NoRow EXCEPT !.status = "PENDING"]
  OBVIOUS
<1>3. items' = items \/ items' = [i \in Items |-> r]
  BY <1>2 DEF Start
<1>4. items' \in [Items -> Row]
      /\ \A i \in Items : items'[i] = items[i] \/ items'[i].status = "PENDING"
  BY <1>2, <1>3, NoRowIsRow DEF Safe, StateTyped
<1>5. QED
  BY <1>1, <1>4, NoStep, StepKeeps DEF Start, Done, Safe, StateTyped

\* executeFulfillment plans a reservation for each open line.
LEMMA FindItemsKeeps ==
  ASSUME Safe, NEW p \in Everyone, FindItems(p)
  PROVE  Safe'
<1>1. todo[p] # <<>> /\ Cur(p).do # "refund"
  BY DEF FindItems, At, Cur
<1>2. PICK open \in SUBSET Items :
        Replace(p, Append(Each("setReserving", open), Do("checkItems")))
  BY DEF FindItems, Platform
<1>3. PICK s, new, d :
        /\ s = Each("setReserving", open) /\ d = Do("checkItems") /\ new = s \o <<d>>
  OBVIOUS
<1>4. s \in Seq(HandlerSteps) /\ AllBacked(s)'
  BY <1>3, EachIsBacked DEF StepKinds, SetsOut
<1>5. d \in HandlerSteps /\ d.do = "checkItems"
  BY <1>3, PlainStep DEF StepKinds
<1>6. <<d>> \in Seq(HandlerSteps) /\ AllBacked(<<d>>)'
  BY <1>5, OneStep DEF Marks, OfLine, OfAll
<1>7. new \in Seq(HandlerSteps) /\ AllBacked(new)'
  BY <1>3, <1>4, <1>6, StepsInOrder
<1>8. Append(s, d) = s \o <<d>>
  BY <1>4, <1>5
<1>9. Replace(p, new)
  BY <1>2, <1>3, <1>8
<1>10. QED
  BY <1>1, <1>7, <1>9, StepKeeps DEF FindItems, Safe, StateTyped

\* RESERVING is written before the provider is called.
LEMMA SetReservingKeeps ==
  ASSUME Safe, NEW p \in Everyone, SetReserving(p)
  PROVE  Safe'
<1>1. todo[p] # <<>> /\ Cur(p).do = "setReserving"
  BY DEF SetReserving, At, Cur
<1>2. PICK i \in Items : i = Cur(p).item
  BY <1>1, HeadIsBacked DEF Safe, OfLine
<1>3. PICK s : s = DoItem("reserve", i)
  OBVIOUS
<1>4. <<s>> \in Seq(HandlerSteps) /\ AllBacked(<<s>>)'
  BY <1>3, OneStep, LineStep DEF StepKinds, SetsOut
<1>5. Replace(p, <<s>>) /\ items' = [items EXCEPT ![i].status = "RESERVING"]
  BY <1>2, <1>3 DEF SetReserving
<1>6. items' \in [Items -> Row]
      /\ \A j \in Items : items'[j] = items[j] \/ items'[j].status = "RESERVING"
  <2>1. items \in [Items -> Row]
    BY DEF Safe, StateTyped
  <2> QED
    BY <1>5, <2>1 DEF Row, ItemStatuses
<1>7. QED
  BY <1>1, <1>4, <1>5, <1>6, StepKeeps DEF SetReserving, Safe, StateTyped

\* RESERVED and CONFIRMED are written after the provider has answered.
LEMMA SetStatusKeeps ==
  ASSUME Safe, NEW p \in Everyone, SetReserved(p) \/ SetConfirmed(p)
  PROVE  Safe'
<1>1. todo[p] # <<>> /\ Done(p) /\ UNCHANGED <<session, intent, job, outside, faults>>
  BY DEF SetReserved, SetConfirmed, SetStatus, At
<1>2. PICK status \in {"RESERVED", "CONFIRMED"} :
        /\ items' = [items EXCEPT ![Cur(p).item].status = status]
        /\ Cur(p).do \in {"setReserved", "setConfirmed"}
        /\ status = "CONFIRMED" => Cur(p).do = "setConfirmed"
  BY DEF SetReserved, SetConfirmed, SetStatus, At, Cur
<1>3. PICK i \in Items : i = Cur(p).item
  BY <1>1, <1>2, HeadIsBacked DEF Safe, OfLine
<1>4. status = "CONFIRMED" => Booked(i)
  BY <1>1, <1>2, <1>3, HeadIsBacked DEF Safe
<1>5. /\ items' \in [Items -> Row]
      /\ \A j \in Items : items'[j] = items[j] \/ (j = i /\ items'[j].status = status)
  <2>1. items \in [Items -> Row]
    BY DEF Safe, StateTyped
  <2> QED
    BY <1>2, <1>3, <2>1 DEF Row, ItemStatuses
<1>6. QED
  BY <1>1, <1>2, <1>4, <1>5, NoStep, StepKeeps DEF Done, Safe, StateTyped

\* A refusal of the provider leads to handleItemFailure, whatever it leaves behind.
LEMMA RefusalKeeps ==
  ASSUME Safe, NEW p \in Everyone, todo[p] # <<>>, Cur(p).do # "refund",
         NEW i \in Items, NEW retryable \in {0, 1},
         Replace(p, <<DoCount("fail", i, retryable)>>),
         lost' \subseteq Items, booked \subseteq booked', booked' \subseteq Items,
         UNCHANGED <<session, intent, items, job, orders, refunds, canceled, faults>>
  PROVE  Safe'
<1>1. PICK s : s = DoCount("fail", i, retryable)
  OBVIOUS
<1>2. "fail" \in StepKinds /\ retryable \in Nat /\ {} \in RefundKeys
  BY DEF StepKinds, RefundKeys
<1>3. s \in HandlerSteps /\ s.do = "fail" /\ s.item = i
  BY <1>1, <1>2, StepsAreTyped
<1>4. <<s>> \in Seq(HandlerSteps) /\ AllBacked(<<s>>)'
  BY <1>3, OneStep DEF SetsOut
<1>5. OutsideGrows
  BY OrdersAreNumbers DEF OutsideGrows, Safe
<1>6. todo' \in [Everyone -> Seq(HandlerSteps)] /\ StepsBacked'
  BY <1>1, <1>4, <1>5, HandlerGoesOn DEF Safe, Cur
<1>7. Outside'
  BY <1>5, RowsStayTrue DEF Safe
<1>8. StateTyped' /\ JobHasTries'
  BY <1>6 DEF Safe, StateTyped, JobHasTries
<1> QED
  BY <1>6, <1>7, <1>8 DEF Safe

\* provider.reserve accepts, and backs the confirmation, or refuses.
LEMMA ReserveKeeps ==
  ASSUME Safe, NEW p \in Everyone, Reserve(p)
  PROVE  Safe'
<1>1. todo[p] # <<>> /\ Cur(p).do = "reserve"
      /\ UNCHANGED <<session, intent, items, job, booked, refunds, canceled, faults>>
  BY DEF Reserve, At, Cur
<1>2. PICK i \in Items : i = Cur(p).item
  BY <1>1, HeadIsBacked DEF Safe, OfLine
<1>3. CASE /\ Replace(p, <<DoItem("setReserved", i), DoItem("confirm", i)>>)
           /\ orders' = AfterReserve(i) /\ UNCHANGED lost
  <2>1. OutsideGrows /\ orders' \in [Items -> 0..MaxOrders] /\ Ordered(i)'
    BY <1>1, <1>3, ReserveGrows DEF Safe
  <2>2. PICK a, b : a = DoItem("setReserved", i) /\ b = DoItem("confirm", i)
    OBVIOUS
  <2>3. "setReserved" \in StepKinds /\ "confirm" \in StepKinds /\ 0 \in Nat
        /\ {} \in RefundKeys
    BY DEF StepKinds, RefundKeys
  <2>4. /\ a \in HandlerSteps /\ a.do = "setReserved" /\ a.item = i
        /\ b \in HandlerSteps /\ b.do = "confirm" /\ b.item = i
    BY <2>2, <2>3, StepsAreTyped
  <2>5. PICK s : s = <<a, b>>
    OBVIOUS
  <2>6. s \in Seq(HandlerSteps) /\ Len(s) = 2 /\ s[1] = a /\ s[2] = b
    BY <2>4, <2>5
  <2>7. ASSUME NEW n \in 1..Len(s) PROVE Backed(s, n)'
    <3>1. s[n].do \in {"setReserved", "confirm"} /\ s[n].item = i
      BY <2>4, <2>6
    <3>2. QED
      BY <2>1, <3>1 DEF Backed, OfAll
  <2>8. todo' \in [Everyone -> Seq(HandlerSteps)] /\ StepsBacked'
    BY <1>1, <1>3, <2>1, <2>2, <2>5, <2>6, <2>7, HandlerGoesOn DEF Safe, AllBacked, Cur
  <2>9. Outside'
    BY <1>1, <2>1, RowsStayTrue DEF Safe
  <2>10. StateTyped' /\ JobHasTries'
    BY <1>1, <1>3, <2>1, <2>8 DEF Safe, StateTyped, JobHasTries
  <2>11. QED
    BY <2>8, <2>9, <2>10 DEF Safe
<1>4. CASE Refuse(p, i)
  <2>1. \E retryable \in {0, 1} : Replace(p, <<DoCount("fail", i, retryable)>>)
    BY <1>4, FulfillmentAssumption DEF Refuse, Refusals, InternalRefusals, PartnerRefusals, TcRefusals
  <2>2. orders' = orders /\ lost' \subseteq Items /\ booked \subseteq Items
    BY <1>4 DEF Refuse, Safe, StateTyped
  <2> QED
    BY <1>1, <2>1, <2>2, RefusalKeeps
<1>5. QED
  BY <1>2, <1>3, <1>4 DEF Reserve

\* provider.confirm accepts, and backs the mark CONFIRMED, or refuses.
LEMMA ConfirmKeeps ==
  ASSUME Safe, NEW p \in Everyone, Confirm(p)
  PROVE  Safe'
<1>1. todo[p] # <<>> /\ Cur(p).do = "confirm"
      /\ UNCHANGED <<session, intent, items, job, orders, lost, refunds, canceled, faults>>
  BY DEF Confirm, At, Cur
<1>2. PICK i \in Items : i = Cur(p).item
  BY <1>1, HeadIsBacked DEF Safe, OfLine
<1>3. CASE /\ Replace(p, <<DoItem("setConfirmed", i)>>)
           /\ booked' = IF CallsOut(i) THEN booked \cup {i} ELSE booked
  <2>1. Ordered(i) /\ booked \subseteq Items /\ lost \subseteq Items
    BY <1>1, <1>2, HeadIsBacked DEF Safe, StateTyped
  <2>2. OutsideGrows
    BY <1>1, <1>3, OrdersAreNumbers DEF OutsideGrows, Safe
  <2>3. PICK a, s : a = DoItem("setConfirmed", i) /\ s = <<a>>
    OBVIOUS
  <2>4. "setConfirmed" \in StepKinds /\ 0 \in Nat /\ {} \in RefundKeys
    BY DEF StepKinds, RefundKeys
  <2>5. a \in HandlerSteps /\ a.do = "setConfirmed" /\ a.item = i
    BY <2>3, <2>4, StepsAreTyped
  <2>6. s \in Seq(HandlerSteps) /\ Len(s) = 1 /\ s[1] = a
    BY <2>3, <2>5
  <2>7. Booked(i)'
    BY <1>1, <1>3, <2>1 DEF Booked, Ordered, CallsOut
  <2>8. Backed(s, 1)'
    BY <2>5, <2>6, <2>7 DEF Backed, OfAll
  <2>9. todo' \in [Everyone -> Seq(HandlerSteps)] /\ StepsBacked'
    <3>1. AllBacked(s)'
      BY <2>6, <2>8 DEF AllBacked
    <3>2. Replace(p, s)
      BY <1>3, <2>3
    <3>3. QED
      BY <1>1, <2>2, <2>6, <3>1, <3>2, HandlerGoesOn DEF Safe, Cur
  <2>10. Outside'
    BY <1>1, <2>2, RowsStayTrue DEF Safe
  <2>11. StateTyped' /\ JobHasTries'
    BY <1>1, <1>3, <2>9 DEF Safe, StateTyped, JobHasTries
  <2> QED
    BY <2>9, <2>10, <2>11 DEF Safe
<1>4. CASE Replace(p, <<DoCount("fail", i, 1)>>) /\ booked' \in {booked, booked \cup {i}}
  <2>1. booked \subseteq booked' /\ booked' \subseteq Items /\ lost' \subseteq Items
    BY <1>1, <1>4 DEF Safe, StateTyped
  <2> QED
    BY <1>1, <1>4, <2>1, RefusalKeeps
<1>5. QED
  BY <1>2, <1>3, <1>4 DEF Confirm

\* handleItemFailure decides whether to try again.
LEMMA ReadAttemptsKeeps ==
  ASSUME Safe, NEW p \in Everyone, ReadAttempts(p)
  PROVE  Safe'
<1>1. todo[p] # <<>> /\ Cur(p).do = "fail"
      /\ UNCHANGED <<session, intent, items, job, outside, faults>>
  BY DEF ReadAttempts, At, Cur
<1>2. PICK i \in Items : i = Cur(p).item
  BY <1>1, HeadIsBacked DEF Safe, OfLine
<1>3. items[i].attempts + 1 \in Nat
  BY DEF Safe, StateTyped, Row
<1>4. PICK k \in {"setRetry", "setFailed"}, n \in Nat : Replace(p, <<DoCount(k, i, n)>>)
  BY <1>2, <1>3 DEF ReadAttempts
<1>5. PICK s : s = DoCount(k, i, n)
  OBVIOUS
<1>6. k \in StepKinds /\ {} \in RefundKeys
  BY DEF StepKinds, RefundKeys
<1>7. s \in HandlerSteps /\ s.do = k
  BY <1>5, <1>6, StepsAreTyped
<1>8. <<s>> \in Seq(HandlerSteps) /\ AllBacked(<<s>>)'
  BY <1>7, OneStep DEF Marks, OfLine, OfAll
<1>9. QED
  BY <1>1, <1>4, <1>5, <1>8, StepKeeps DEF Safe, StateTyped

\* Scheduling a retry leaves the status alone.
LEMMA SetRetryKeeps ==
  ASSUME Safe, NEW p \in Everyone, SetRetry(p)
  PROVE  Safe'
<1>1. todo[p] # <<>> /\ Cur(p).do # "refund"
  BY DEF SetRetry, At, Cur
<1>2. PICK i \in Items \cup {NoItem}, n \in Nat : i = Cur(p).item /\ n = Cur(p).n
  BY <1>1, HeadIsBacked DEF Safe, HandlerSteps
<1>3. items' = [items EXCEPT ![i].attempts = n, ![i].retry = TRUE]
  BY <1>2 DEF SetRetry
<1>4. items' \in [Items -> Row] /\ \A j \in Items : items'[j].status = items[j].status
  <2> DEFINE row(j) == [items[j] EXCEPT !.attempts = n, !.retry = TRUE]
  <2>1. items \in [Items -> Row]
    BY DEF Safe, StateTyped
  <2>2. ASSUME NEW j \in Items PROVE row(j) \in Row /\ row(j).status = items[j].status
    BY <2>1 DEF Row
  <2> HIDE DEF row
  <2>3. items' = [j \in Items |-> IF j = i THEN row(i) ELSE items[j]]
    BY <1>3, <2>1 DEF row
  <2>4. QED
    BY <2>1, <2>2, <2>3
<1>5. QED
  BY <1>1, <1>4, NoStep, StepKeeps DEF SetRetry, Done, Safe, StateTyped

\* Giving a line up marks it FAILED, which claims nothing.
LEMMA SetFailedKeeps ==
  ASSUME Safe, NEW p \in Everyone, SetFailed(p)
  PROVE  Safe'
<1>1. todo[p] # <<>> /\ Cur(p).do # "refund"
  BY DEF SetFailed, At, Cur
<1>2. PICK i \in Items \cup {NoItem}, n \in Nat : i = Cur(p).item /\ n = Cur(p).n
  BY <1>1, HeadIsBacked DEF Safe, HandlerSteps
<1>3. items' = [items EXCEPT ![i].attempts = n, ![i].status = "FAILED",
                             ![i].escalated = TRUE]
  BY <1>2 DEF SetFailed
<1>4. items' \in [Items -> Row]
      /\ \A j \in Items : items'[j] = items[j] \/ items'[j].status = "FAILED"
  <2> DEFINE row(j) == [items[j] EXCEPT !.attempts = n, !.status = "FAILED",
                                        !.escalated = TRUE]
  <2>1. items \in [Items -> Row]
    BY DEF Safe, StateTyped
  <2>2. ASSUME NEW j \in Items PROVE row(j) \in Row /\ row(j).status = "FAILED"
    BY <2>1 DEF Row, ItemStatuses
  <2> HIDE DEF row
  <2>3. items' = [j \in Items |-> IF j = i THEN row(i) ELSE items[j]]
    BY <1>3, <2>1 DEF row
  <2>4. QED
    BY <2>1, <2>2, <2>3
<1>5. \A j \in Items : items'[j].status \in {items[j].status, "FAILED"}
  BY <1>4
<1>6. QED
  BY <1>1, <1>4, <1>5, NoStep, StepKeeps DEF SetFailed, Done, Safe, StateTyped

\* checkCompletion looks at the rows.
LEMMA CheckItemsKeeps ==
  ASSUME Safe, NEW p \in Everyone, CheckItems(p)
  PROVE  Safe'
<1>1. todo[p] # <<>> /\ Cur(p).do # "refund"
      /\ UNCHANGED <<session, intent, items, job, outside, faults>>
  BY DEF CheckItems, At, Cur
<1>2. Replace(p, <<Do("completeSession")>>) \/ Replace(p, <<>>)
  BY DEF CheckItems
<1>3. <<Do("completeSession")>> \in Seq(HandlerSteps) /\ AllBacked(<<Do("completeSession")>>)'
  <2>1. PICK s : s = Do("completeSession")
    OBVIOUS
  <2>2. s \in HandlerSteps /\ s.do = "completeSession"
    BY <2>1, PlainStep DEF StepKinds
  <2>3. <<s>> \in Seq(HandlerSteps) /\ AllBacked(<<s>>)'
    BY <2>2, OneStep DEF Marks, OfLine, OfAll
  <2>4. AllBacked(<<Do("completeSession")>>)'
    BY <2>1, <2>3 DEF Do
  <2>5. QED
    BY <2>1, <2>3, <2>4
<1>4. QED
  BY <1>1, <1>2, <1>3, NoStep, StepKeeps DEF Safe, StateTyped

\* checkCompletion completes the session.
LEMMA CompleteSessionKeeps ==
  ASSUME Safe, NEW p \in Everyone, CompleteSession(p)
  PROVE  Safe'
<1>1. todo[p] # <<>> /\ Cur(p).do # "refund"
      /\ UNCHANGED <<intent, items, job, outside, faults>>
  BY DEF CompleteSession, At, Cur
<1>2. session' \in CheckoutStatuses
  BY DEF CompleteSession, Safe, StateTyped, CheckoutStatuses
<1>3. QED
  BY <1>1, <1>2, NoStep, StepKeeps DEF CompleteSession, Done, Safe, StateTyped

\* The administrator makes FAILED rows PENDING.
LEMMA ResetFailedKeeps ==
  ASSUME Safe, NEW p \in Everyone, ResetFailed(p)
  PROVE  Safe'
<1>1. todo[p] # <<>> /\ Cur(p).do # "refund"
      /\ UNCHANGED <<session, intent, job, outside, faults>>
  BY DEF ResetFailed, At, Cur
<1>2. ASSUME NEW i \in Items
      PROVE  items'[i] \in Row
             /\ (items'[i].status = items[i].status \/ items'[i].status = "PENDING")
  <2>1. PICK r \in Row : r = items[i]
    BY DEF Safe, StateTyped
  <2>2. CASE r.status # "FAILED"
    BY <2>1, <2>2 DEF ResetFailed
  <2>3. CASE r.status = "FAILED"
    <3>1. items'[i] = [r EXCEPT !.status = "PENDING", !.attempts = 0,
                                !.retry = FALSE, !.escalated = FALSE]
      BY <2>1, <2>3 DEF ResetFailed
    <3>2. items'[i] = [status |-> "PENDING", attempts |-> 0, retry |-> FALSE,
                       escalated |-> FALSE, refunded |-> r.refunded]
      BY <2>1, <3>1 DEF Row
    <3>3. r.refunded \in BOOLEAN
      BY <2>1 DEF Row
    <3>4. items'[i] \in Row
      BY <3>2, <3>3 DEF Row, ItemStatuses
    <3>5. QED
      BY <3>2, <3>4
  <2>4. QED
    BY <2>2, <2>3
<1>3. items' \in [Items -> Row]
  BY <1>2 DEF ResetFailed
<1>4. QED
  BY <1>1, <1>2, <1>3, NoStep, StepKeeps DEF ResetFailed, Done, Safe, StateTyped

(***************************************************************************)
(* The steps of partialRefund and fullRefund.                              *)
(***************************************************************************)

\* partialRefund reads the FAILED lines.
LEMMA FindFailedKeeps ==
  ASSUME Safe, NEW p \in Everyone, FindFailed(p)
  PROVE  Safe'
<1>1. todo[p] # <<>> /\ Cur(p).do # "refund"
      /\ UNCHANGED <<session, intent, items, job, outside, faults>>
  BY DEF FindFailed, At, Cur
<1>2. PICK S \in SUBSET Items : Replace(p, <<>>) \/ Replace(p, <<DoSet("findPaid", S)>>)
  BY DEF FindFailed
<1>3. PICK s : s = DoSet("findPaid", S)
  OBVIOUS
<1>4. "findPaid" \in StepKinds /\ 0 \in Nat /\ NoItem \in Items \cup {NoItem}
      /\ S \in RefundKeys
  BY DEF StepKinds, RefundKeys
<1>5. s \in HandlerSteps /\ s.do = "findPaid"
  BY <1>3, <1>4, StepsAreTyped
<1>6. <<s>> \in Seq(HandlerSteps) /\ AllBacked(<<s>>)'
  BY <1>5, OneStep DEF Marks, OfLine, OfAll
<1>7. QED
  BY <1>1, <1>2, <1>3, <1>6, NoStep, StepKeeps DEF Safe, StateTyped

\* The refund of lines comes before the marks of these lines.
LEMMA MarksFollowRefund ==
  ASSUME NEW S \in RefundKeys
  PROVE  /\ <<DoSet("refund", S)>> \o Each("setRefunded", S) \in Seq(HandlerSteps)
         /\ AllBacked(<<DoSet("refund", S)>> \o Each("setRefunded", S))'
<1>1. PICK a, e, s : /\ a = DoSet("refund", S) /\ e = Each("setRefunded", S)
                     /\ s = <<a>> \o e
  OBVIOUS
<1>2. "refund" \in StepKinds /\ "setRefunded" \in StepKinds /\ 0 \in Nat
      /\ NoItem \in Items \cup {NoItem}
  BY DEF StepKinds
<1>3. a \in HandlerSteps /\ a.do = "refund" /\ a.of = S
  BY <1>1, <1>2, StepsAreTyped
<1>4. e \in Seq(HandlerSteps)
      /\ \A n \in 1..Len(e) : e[n].do = "setRefunded" /\ e[n].item \in S
  BY <1>1, <1>2, KeysAreTyped, EachIsTyped
<1>5. <<a>> \in Seq(HandlerSteps) /\ Len(<<a>>) = 1 /\ <<a>>[1] = a
  BY <1>3
<1>6. /\ s \in Seq(HandlerSteps) /\ Len(s) = Len(e) + 1 /\ s[1] = a
      /\ \A n \in 1..Len(s) : n # 1 => n - 1 \in 1..Len(e) /\ s[n] = e[n - 1]
  BY <1>1, <1>4, <1>5
<1>7. ASSUME NEW n \in 1..Len(s) PROVE Backed(s, n)'
  <2>1. CASE n = 1
    BY <1>3, <1>6, <2>1 DEF Backed, OfLine, OfAll
  <2>2. CASE n # 1
    <3>1. s[n].do = "setRefunded" /\ s[n].item \in S
      BY <1>4, <1>6, <2>2
    <3>2. 1 \in 1..(n - 1)
      BY <1>4, <1>6, <2>2
    <3>3. Ahead(s, n, s[n].item)'
      BY <1>3, <1>6, <3>1, <3>2 DEF Ahead
    <3>4. QED
      BY <3>1, <3>3 DEF Backed, OfLine, OfAll
  <2>3. QED
    BY <2>1, <2>2
<1>8. AllBacked(s)'
  BY <1>7 DEF AllBacked
<1>9. QED
  BY <1>1, <1>6, <1>8

\* partialRefund plans the refund of the lines and their marks after it.
LEMMA FindPaidKeeps ==
  ASSUME Safe, NEW p \in Everyone, FindPaid(p)
  PROVE  Safe'
<1>1. todo[p] # <<>> /\ Cur(p).do # "refund"
      /\ UNCHANGED <<session, intent, items, job, outside, faults>>
  BY DEF FindPaid, At, Cur
<1>2. PICK S \in RefundKeys : S = Cur(p).of
  BY <1>1, HeadIsBacked DEF Safe, HandlerSteps
<1>3. \/ Replace(p, <<>>)
      \/ Replace(p, <<Do("readIntent")>>)
      \/ Replace(p, <<DoSet("refund", S)>> \o Each("setRefunded", S))
  BY <1>2 DEF FindPaid
<1>4. CASE Replace(p, <<>>)
  BY <1>1, <1>4, NoStep, StepKeeps DEF Safe, StateTyped
<1>5. CASE Replace(p, <<Do("readIntent")>>)
  <2>1. PICK s : s = Do("readIntent")
    OBVIOUS
  <2>2. s \in HandlerSteps /\ s.do = "readIntent"
    BY <2>1, PlainStep DEF StepKinds
  <2>3. <<s>> \in Seq(HandlerSteps) /\ AllBacked(<<s>>)'
    BY <2>2, OneStep DEF Marks, OfLine, OfAll
  <2>4. QED
    BY <1>1, <1>5, <2>1, <2>3, StepKeeps DEF Safe, StateTyped
<1>6. CASE Replace(p, <<DoSet("refund", S)>> \o Each("setRefunded", S))
  <2>1. PICK s : s = <<DoSet("refund", S)>> \o Each("setRefunded", S)
    OBVIOUS
  <2>2. s \in Seq(HandlerSteps) /\ AllBacked(s)'
    BY <2>1, MarksFollowRefund
  <2>3. QED
    BY <1>1, <1>6, <2>1, <2>2, StepKeeps DEF Safe, StateTyped
<1>7. QED
  BY <1>3, <1>4, <1>5, <1>6

\* fullRefund plans the refund of everything and the marks after it.
LEMMA ReadIntentKeeps ==
  ASSUME Safe, NEW p \in Everyone, ReadIntent(p)
  PROVE  Safe'
<1>1. todo[p] # <<>> /\ Cur(p).do # "refund"
      /\ UNCHANGED <<session, intent, items, job, outside, faults>>
  BY DEF ReadIntent, At, Cur
<1>2. PICK a, b, c, s : /\ a = DoSet("refund", FullKey) /\ b = Do("setIntentRefunded")
                        /\ c = Do("refundAll") /\ s = <<a, b, c>>
  OBVIOUS
<1>3. Replace(p, <<>>) \/ Replace(p, s)
  BY <1>2 DEF ReadIntent
<1>4. "refund" \in StepKinds /\ 0 \in Nat /\ NoItem \in Items \cup {NoItem}
      /\ FullKey \in RefundKeys
  BY KeysAreTyped DEF StepKinds
<1>5. a \in HandlerSteps /\ a.do = "refund" /\ a.of = FullKey
  BY <1>2, <1>4, StepsAreTyped
<1>6. /\ b \in HandlerSteps /\ b.do = "setIntentRefunded"
      /\ c \in HandlerSteps /\ c.do = "refundAll"
  BY <1>2, PlainStep DEF StepKinds
<1>7. s \in Seq(HandlerSteps) /\ Len(s) = 3 /\ s[1] = a /\ s[2] = b /\ s[3] = c
  BY <1>2, <1>5, <1>6
<1>8. ASSUME NEW n \in 1..Len(s) PROVE Backed(s, n)'
  <2>1. CASE n = 1
    BY <1>5, <1>7, <2>1 DEF Backed, OfLine, OfAll
  <2>2. CASE n \in {2, 3}
    <3>1. s[n].do \in OfAll /\ 1 \in 1..(n - 1)
      BY <1>6, <1>7, <2>2 DEF OfAll
    <3>2. AllAhead(s, n)'
      BY <1>5, <1>7, <3>1 DEF AllAhead
    <3>3. QED
      BY <3>1, <3>2 DEF Backed, OfLine, OfAll
  <2>3. QED
    BY <1>7, <2>1, <2>2
<1>9. AllBacked(s)'
  BY <1>8 DEF AllBacked
<1>10. QED
  BY <1>1, <1>3, <1>7, <1>9, NoStep, StepKeeps DEF Safe, StateTyped

\* YooKassa answers, with the money or without, or loses its answer.
LEMMA AnswersAreKept ==
  ASSUME Safe, NEW key \in RefundKeys, YookassaReturns(key) \/ YookassaCancels(key),
         UNCHANGED <<orders, booked>>
  PROVE  OutsideGrows /\ NowKnown(key) /\ canceled' \subseteq RefundKeys
<1>1. refunds \subseteq refunds' /\ canceled \subseteq canceled' /\ canceled' \subseteq RefundKeys
  BY DEF YookassaReturns, YookassaCancels, Safe, StateTyped
<1>2. RefundOf(key).key = key
  BY DEF RefundOf
<1>3. NowKnown(key)
  BY <1>2 DEF NowKnown, YookassaReturns, YookassaCancels, Returned
<1> QED
  BY <1>1, <1>3, OrdersAreNumbers DEF OutsideGrows, Safe

\* The answer of YooKassa backs the marks; its refusal ends the handler.
LEMMA CallRefundKeeps ==
  ASSUME Safe, NEW p \in Everyone, CallRefund(p)
  PROVE  Safe'
<1>1. todo[p] # <<>> /\ Cur(p).do = "refund"
      /\ UNCHANGED <<session, intent, items, job, orders, lost, booked, faults>>
  BY DEF CallRefund, At, Cur
<1>2. PICK key \in RefundKeys : key = Cur(p).of
  BY <1>1, HeadIsBacked DEF Safe, HandlerSteps
<1>3. CASE (YookassaReturns(key) \/ YookassaCancels(key)) /\ Done(p)
  <2>1. OutsideGrows /\ NowKnown(key) /\ canceled' \subseteq RefundKeys
    BY <1>1, <1>3, AnswersAreKept
  <2>2. todo' \in [Everyone -> Seq(HandlerSteps)] /\ StepsBacked'
    BY <1>1, <1>2, <1>3, <2>1, HandlerIsDone DEF Safe, Cur
  <2>3. Outside'
    BY <1>1, <2>1, RowsStayTrue DEF Safe
  <2>4. StateTyped' /\ JobHasTries'
    BY <1>1, <2>1, <2>2 DEF Safe, StateTyped, JobHasTries
  <2> QED
    BY <2>2, <2>3, <2>4 DEF Safe
<1>4. CASE todo' = [todo EXCEPT ![p] = <<>>] /\ UNCHANGED <<refunds, canceled>>
  <2>1. OutsideGrows
    BY <1>1, <1>4, OrdersAreNumbers DEF OutsideGrows, Safe
  <2>2. todo' \in [Everyone -> Seq(HandlerSteps)] /\ StepsBacked'
    BY <1>4, <2>1, HandlerStops DEF Safe
  <2>3. Outside'
    BY <1>1, <2>1, RowsStayTrue DEF Safe
  <2>4. StateTyped' /\ JobHasTries'
    BY <1>1, <1>4, <2>2 DEF Safe, StateTyped, JobHasTries
  <2> QED
    BY <2>2, <2>3, <2>4 DEF Safe
<1> QED
  BY <1>2, <1>3, <1>4 DEF CallRefund

\* A line is marked after its refund.
LEMMA SetRefundedKeeps ==
  ASSUME Safe, NEW p \in Everyone, SetRefunded(p)
  PROVE  Safe'
<1>1. todo[p] # <<>> /\ Cur(p).do = "setRefunded"
      /\ UNCHANGED <<session, intent, job, outside, faults>>
  BY DEF SetRefunded, At, Cur
<1>2. PICK i : i = Cur(p).item
  OBVIOUS
<1>3. IsAnswered(i)
  BY <1>1, <1>2, HeadIsBacked DEF Safe
<1>4. PICK r : r = [items EXCEPT ![i].status = "REFUNDED"]
  OBVIOUS
<1>5. items' = [r EXCEPT ![i].refunded = TRUE]
  BY <1>2, <1>4 DEF SetRefunded
<1>6. /\ r \in [Items -> Row]
      /\ \A j \in Items : IF j = i THEN r[j].status = "REFUNDED" ELSE r[j] = items[j]
  BY <1>4 DEF Safe, StateTyped, Row, ItemStatuses
<1>7. /\ items' \in [Items -> Row]
      /\ \A j \in Items : items'[j].status = r[j].status
  BY <1>5, <1>6 DEF Row
<1>8. \A j \in Items : IF j = i THEN items'[j].status = "REFUNDED"
                       ELSE items'[j].status = items[j].status
  BY <1>6, <1>7
<1>9. QED
  BY <1>1, <1>3, <1>7, <1>8, NoStep, StepKeeps DEF SetRefunded, Done, Safe, StateTyped

\* The intent is marked after the full refund.
LEMMA SetIntentRefundedKeeps ==
  ASSUME Safe, NEW p \in Everyone, SetIntentRefunded(p)
  PROVE  Safe'
<1>1. todo[p] # <<>> /\ Cur(p).do = "setIntentRefunded" /\ intent' = "REFUNDED"
      /\ UNCHANGED <<session, items, job, outside, faults>>
  BY DEF SetIntentRefunded, At, Cur
<1>2. Known(FullKey) /\ "REFUNDED" \in PaymentStatuses
  BY <1>1, HeadIsBacked DEF Safe, OfAll, PaymentStatuses
<1>3. QED
  BY <1>1, <1>2, NoStep, StepKeeps DEF SetIntentRefunded, Done, Safe, StateTyped

\* All lines are marked after the full refund.
LEMMA RefundAllKeeps ==
  ASSUME Safe, NEW p \in Everyone, RefundAll(p)
  PROVE  Safe'
<1>1. todo[p] # <<>> /\ Cur(p).do = "refundAll"
      /\ UNCHANGED <<session, intent, job, outside, faults>>
  BY DEF RefundAll, At, Cur
<1>2. Known(FullKey)
  BY <1>1, HeadIsBacked DEF Safe, OfAll
<1>3. ASSUME NEW i \in Items
      PROVE  items'[i] \in Row /\ items'[i].status \in {items[i].status, "REFUNDED"}
  <2>1. PICK r \in Row : r = items[i]
    BY DEF Safe, StateTyped
  <2>2. items'[i] = r \/ items'[i] = [r EXCEPT !.status = "REFUNDED", !.refunded = TRUE]
    BY <2>1 DEF RefundAll
  <2>3. QED
    BY <2>1, <2>2 DEF Row, ItemStatuses
<1>4. items' \in [Items -> Row]
  BY <1>3 DEF RefundAll
<1>5. QED
  BY <1>1, <1>2, <1>3, <1>4, NoStep, StepKeeps DEF RefundAll, Done, Safe, StateTyped

(***************************************************************************)
(* Handlers begin, and are interrupted.                                    *)
(***************************************************************************)

\* The worker takes a job, or an administrator sends a request.
LEMMA BeginningsKeep ==
  ASSUME Safe,
         \/ TakeJob \/ RunRetry \/ RunCompensate
         \/ \E p \in Admins : AdminRetries(p) \/ AdminRefunds(p)
  PROVE  Safe'
<1>1. PICK p \in Everyone,
           s \in {<<Do("markPaid"), Do("start"), Do("findItems")>>, <<Do("findItems")>>,
                  <<Do("findFailed")>>, <<Do("resetFailed"), Do("findItems")>>,
                  <<Do("readIntent")>>} :
        /\ Begin(p, s)
        /\ \/ job' = job
           \/ job.state = "waiting" /\ job' = [job EXCEPT !.state = "active"]
  BY DEF TakeJob, RunRetry, RunCompensate, AdminRetries, AdminRefunds, Everyone
<1>2. \A k \in StepKinds : Do(k) \in HandlerSteps /\ Do(k).do = k
  BY PlainStep
<1>3. s \in Seq(HandlerSteps) /\ \A n \in 1..Len(s) : s[n].do \notin Marks
  <2>1. PICK a, b, c, d, e, f :
          /\ a = Do("markPaid") /\ b = Do("start") /\ c = Do("findItems")
          /\ d = Do("findFailed") /\ e = Do("resetFailed") /\ f = Do("readIntent")
    OBVIOUS
  <2>2. \A x \in {a, b, c, d, e, f} : x \in HandlerSteps /\ x.do \notin Marks
    BY <1>2, <2>1 DEF StepKinds, Marks, OfLine, OfAll
  <2>3. s \in {<<a, b, c>>, <<c>>, <<d>>, <<e, c>>, <<f>>}
    BY <1>1, <2>1
  <2>4. CASE s = <<a, b, c>>
    BY <2>2, <2>4
  <2>5. CASE s = <<e, c>>
    BY <2>2, <2>5
  <2>6. ASSUME NEW x \in {c, d, f}, s = <<x>>
        PROVE  s \in Seq(HandlerSteps) /\ \A n \in 1..Len(s) : s[n].do \notin Marks
    <3>1. x \in HandlerSteps /\ x.do \notin Marks
      BY <2>2, <2>6
    <3>2. QED
      BY <2>6, <3>1
  <2>7. QED
    BY <2>3, <2>4, <2>5, <2>6
<1>4. JobOK(job')
  BY <1>1 DEF Safe, StateTyped, JobHasTries, JobOK
<1>5. QED
  BY <1>1, <1>3, <1>4, BeginKeeps

\* The worker is done with a job.
LEMMA FinishJobKeeps ==
  ASSUME Safe, FinishJob
  PROVE  Safe'
<1>1. /\ job' = [job EXCEPT !.state = "completed"]
      /\ UNCHANGED <<session, intent, items, todo, outside, faults>>
  BY DEF FinishJob
<1>2. JobOK(job')
  BY <1>1 DEF Safe, StateTyped, JobOK
<1>3. OutsideGrows
  BY <1>1, QuietOutside DEF Safe
<1>4. Outside'
  BY <1>1, <1>3, RowsStayTrue DEF Safe
<1>5. StateTyped' /\ JobHasTries'
  BY <1>1, <1>2 DEF Safe, StateTyped, JobOK, JobHasTries, outside
<1>6. StepsBacked'
  BY <1>1 DEF Safe, StepsBacked, AllBacked, Backed, Ahead, AllAhead, IsAnswered, Ordered,
     Booked, Known, Returned, outside
<1>7. QED
  BY <1>4, <1>5, <1>6 DEF Safe

\* A failed call ends the handler; it may have been carried out all the same.
LEMMA ThrowKeeps ==
  ASSUME Safe, NEW p \in Everyone, Throw(p)
  PROVE  Safe'
<1>1. /\ todo' = [todo EXCEPT ![p] = <<>>] /\ todo[p] # <<>>
      /\ job' = job \/ job' = JobAfterThrow
      /\ faults' = faults + 1
      /\ UNCHANGED <<session, intent, items, orders, lost, booked>>
  BY DEF Throw, Fault
<1>3. OutsideGrows /\ canceled' \subseteq RefundKeys
  <2>1. CASE UNCHANGED <<refunds, canceled>>
    BY <1>1, <2>1, OrdersAreNumbers DEF OutsideGrows, Safe, StateTyped
  <2>2. CASE At(p, "refund") /\ (YookassaReturns(Cur(p).of) \/ YookassaCancels(Cur(p).of))
    <3>1. Cur(p).of \in RefundKeys
      BY <1>1, HeadIsBacked DEF Safe, HandlerSteps
    <3> QED
      BY <1>1, <2>2, <3>1, AnswersAreKept
  <2>3. QED
    BY <2>1, <2>2 DEF Throw
<1>4. todo' \in [Everyone -> Seq(HandlerSteps)] /\ StepsBacked'
  BY <1>1, <1>3, HandlerStops DEF Safe
<1>5. Outside'
  BY <1>1, <1>3, RowsStayTrue DEF Safe
<1>6. JobOK(job')
  BY <1>1, JobMovesOn DEF Safe, StateTyped, JobHasTries, JobOK
<1>7. StateTyped' /\ JobHasTries'
  BY <1>1, <1>3, <1>4, <1>6 DEF Safe, StateTyped, JobOK, JobHasTries
<1>8. QED
  BY <1>4, <1>5, <1>7 DEF Safe

\* A restart ends all handlers.
LEMMA CrashKeeps ==
  ASSUME Safe, Crash
  PROVE  Safe'
<1>1. /\ todo' = [p \in Everyone |-> <<>>] /\ job' = JobAfterRestart
      /\ faults' = faults + 1
      /\ UNCHANGED <<session, intent, items, outside>>
  BY DEF Crash, Fault
<1>2. OutsideGrows
  BY <1>1, QuietOutside DEF Safe
<1>3. todo' \in [Everyone -> Seq(HandlerSteps)] /\ \A p \in Everyone : todo'[p] = <<>>
  BY <1>1
<1>4. StepsBacked'
  BY <1>3 DEF StepsBacked, AllBacked
<1>5. Outside'
  BY <1>1, <1>2, RowsStayTrue DEF Safe
<1>6. StateTyped' /\ JobHasTries'
  BY <1>1, <1>3, JobMovesOn DEF Safe, StateTyped, JobOK, JobHasTries, outside
<1>7. QED
  BY <1>4, <1>5, <1>6 DEF Safe

(***************************************************************************)
(* The invariant.                                                          *)
(***************************************************************************)

\* The invariant holds when the payment has succeeded.
LEMMA InitIsSafe == Init => Safe
<1> SUFFICES ASSUME Init PROVE Safe
  OBVIOUS
<1>1. StateTyped
  BY NoRowIsRow, FulfillmentAssumption
     DEF Init, StateTyped, PaymentStatuses, MaxJobAttempts, MaxStalls
<1>2. JobHasTries
  BY DEF Init, JobHasTries, MaxJobAttempts, MaxStalls
<1>3. \A p \in Everyone : todo[p] = <<>>
  BY DEF Init
<1>4. StepsBacked
  BY <1>3 DEF StepsBacked, AllBacked
<1>5. \A i \in Items : items[i].status = "none"
  BY DEF Init, NoRow
<1>6. Outside
  BY <1>5 DEF Init, Outside, ConfirmedIsBooked, RefundedIsAnswered
<1>7. QED
  BY <1>1, <1>2, <1>4, <1>6 DEF Safe

\* Every step keeps the invariant.
LEMMA NextKeepsSafe == Safe /\ [Next]_vars => Safe'
<1> SUFFICES ASSUME Safe, [Next]_vars PROVE Safe'
  OBVIOUS
<1>1. CASE \/ TakeJob \/ RunRetry \/ RunCompensate
           \/ \E p \in Admins : AdminRetries(p) \/ AdminRefunds(p)
  BY <1>1, BeginningsKeep
<1>2. CASE FinishJob
  BY <1>2, FinishJobKeeps
<1>3. CASE Crash
  BY <1>3, CrashKeeps
<1>4. ASSUME NEW p \in Everyone, Throw(p) PROVE Safe'
  BY <1>4, ThrowKeeps
<1>5. ASSUME NEW p \in Everyone, Continue(p) PROVE Safe'
  BY <1>5, PaidKeeps, StartKeeps, FindItemsKeeps, SetReservingKeeps, ReserveKeeps,
     SetStatusKeeps, ConfirmKeeps, ReadAttemptsKeeps, SetRetryKeeps, SetFailedKeeps,
     CheckItemsKeeps, CompleteSessionKeeps, ResetFailedKeeps, FindFailedKeeps,
     FindPaidKeeps, ReadIntentKeeps, CallRefundKeeps, SetRefundedKeeps,
     SetIntentRefundedKeeps, RefundAllKeeps DEF Continue
<1>6. CASE UNCHANGED vars
  <2>1. /\ UNCHANGED <<session, intent, items, todo, job, faults>>
        /\ UNCHANGED <<orders, lost, booked, refunds, canceled>> /\ UNCHANGED outside
    BY <1>6 DEF vars, outside
  <2>2. OutsideGrows
    BY <2>1, QuietOutside DEF Safe
  <2>3. Outside'
    BY <2>1, <2>2, RowsStayTrue DEF Safe
  <2>4. StateTyped' /\ JobHasTries'
    BY <2>1 DEF Safe, StateTyped, JobHasTries
  <2>5. StepsBacked'
    BY <2>1 DEF Safe, StepsBacked, AllBacked, Backed, Ahead, AllAhead, IsAnswered, Ordered,
       Booked, Known, Returned
  <2>6. QED
    BY <2>3, <2>4, <2>5 DEF Safe
<1>7. QED
  BY <1>1, <1>2, <1>3, <1>4, <1>5, <1>6 DEF Next

(***************************************************************************)
(* Money: what lines are worth, and what YooKassa has returned.            *)
(***************************************************************************)
\* YooKassa's books are finite, and each entry is an amount of money.
BooksTyped == IsFiniteSet(refunds) /\ refunds \subseteq [key : RefundKeys, amount : Nat]

\* Prices add up.
LEMMA TotalsAddUp ==
  ASSUME NEW S \in SUBSET Items
  PROVE  /\ IsFiniteSet(S) /\ Total(S) \in Nat
         /\ \A T \in SUBSET S : Total(T) <= Total(S)
         /\ \A T \in SUBSET Items : S \cap T = {} => Total(S \cup T) = Total(S) + Total(T)
<1>1. \A i \in Items : Price[i] \in Nat /\ Price[i] \in Int
  BY FulfillmentAssumption
<1>2. \A T \in SUBSET Items : IsFiniteSet(T) /\ Total(T) = SumOver(Price, T)
  BY FulfillmentAssumption, FS_Subset DEF Total, SumOver
<1>3. Total(S) \in Nat
  BY <1>1, <1>2, SumIsNat
<1>4. ASSUME NEW T \in SUBSET S PROVE Total(T) <= Total(S)
  <2>1. SumOver(Price, T) <= SumOver(Price, S)
    BY <1>1, <1>2, SumOfPart
  <2>2. Total(T) = SumOver(Price, T) /\ Total(S) = SumOver(Price, S)
    BY <1>2
  <2> QED
    BY <2>1, <2>2
<1>5. ASSUME NEW T \in SUBSET Items, S \cap T = {}
      PROVE  Total(S \cup T) = Total(S) + Total(T)
  <2>1. SumOver(Price, S \cup T) = SumOver(Price, S) + SumOver(Price, T)
    BY <1>1, <1>2, <1>5, SumOfBoth
  <2>2. Total(T) = SumOver(Price, T) /\ Total(S) = SumOver(Price, S)
        /\ Total(S \cup T) = SumOver(Price, S \cup T)
    BY <1>2
  <2> QED
    BY <2>1, <2>2
<1> QED
  BY <1>2, <1>3, <1>4, <1>5

\* Lines that are worth as much as all of them are all of them.
LEMMA WorthAll ==
  ASSUME NEW S \in SUBSET Items, NEW T \in SUBSET S, Total(S) <= Total(T)
  PROVE  T = S
<1> SUFFICES ASSUME T # S PROVE FALSE
  OBVIOUS
<1>1. PICK i \in S : i \notin T
  OBVIOUS
<1>2. Price[i] \in Nat \ {0}
  BY <1>1, FulfillmentAssumption
<1>3. Total({i}) = Price[i]
  <2>1. SumOver(Price, {} \cup {i}) = SumOver(Price, {}) + Price[i]
    BY <1>2, FS_EmptySet, SumWith
  <2>2. SumOver(Price, {}) = 0 /\ {} \cup {i} = {i}
    BY SumOfNone
  <2> QED
    BY <1>2, <2>1, <2>2 DEF Total, SumOver
<1>4. T \cup {i} \in SUBSET S /\ T \cap {i} = {} /\ T \in SUBSET Items /\ {i} \in SUBSET Items
  BY <1>1
<1>5. Total(T \cup {i}) = Total(T) + Total({i})
  BY <1>4, TotalsAddUp
<1>6. Total(T \cup {i}) <= Total(S) /\ Total(T) \in Nat /\ Total(S) \in Nat
      /\ Total(T \cup {i}) \in Nat
  BY <1>4, TotalsAddUp
<1> QED
  BY <1>2, <1>3, <1>5, <1>6

\* What a refund returns is an amount of money.
LEMMA RefundsAreTyped ==
  ASSUME NEW key \in RefundKeys
  PROVE  /\ RefundOf(key) \in [key : RefundKeys, amount : Nat]
         /\ RefundOf(key).key = key
         /\ RefundOf(key).amount = IF key = FullKey THEN Captured ELSE Total(key)
         /\ Captured \in Nat
<1>1. Total(Platform) \in Nat
  BY TotalsAddUp DEF Platform
<1>2. Captured \in Nat
  BY <1>1, FulfillmentAssumption DEF Captured
<1>3. key # FullKey => Total(key) \in Nat
  <2>1. key # FullKey => key \in SUBSET Items
    BY DEF RefundKeys
  <2> QED
    BY <2>1, TotalsAddUp
<1> QED
  BY <1>2, <1>3 DEF RefundOf

SumOfAmounts(R) == MapThenSumSet(LAMBDA r : r.amount, R)

\* The amounts are those of a table, too.
LEMMA RefundedIsSum ==
  ASSUME NEW R, IsFiniteSet(R)
  PROVE  SumOfAmounts(R) = SumOver([r \in R |-> r.amount], R)
<1> DEFINE f == [r \in R |-> r.amount]
<1> DEFINE AddsAmounts(t) ==
      t = [s \in SUBSET R |-> IF s = {} THEN 0 ELSE First(s).amount + t[s \ {First(s)}]]
<1>1. SumOfAmounts(R) = (CHOOSE t : AddsAmounts(t))[R]
  BY DEF SumOfAmounts, MapThenSumSet, MapThenFoldSet, First
<1>2. ASSUME NEW t PROVE AddsAmounts(t) <=> Adds(t, f, R)
  <2>1. \A s \in SUBSET R : s # {} => First(s) \in R
    BY DEF First
  <2>2. \A s \in SUBSET R : s # {} => f[First(s)] = First(s).amount
    BY <2>1
  <2> DEFINE u == [s \in SUBSET R |-> IF s = {} THEN 0 ELSE First(s).amount + t[s \ {First(s)}]]
  <2> DEFINE v == [s \in SUBSET R |-> IF s = {} THEN 0 ELSE f[First(s)] + t[s \ {First(s)}]]
  <2>3. u = v
    <3> HIDE DEF f
    <3> QED
      BY <2>2
  <2> QED
    BY <2>3 DEF Adds
<1>3. PICK c : c = CHOOSE t : AddsAmounts(t)
  OBVIOUS
<1>4. Adds(Table(f, R), f, R)
  BY TableExists
<1>5. AddsAmounts(c)
  <2> HIDE DEF AddsAmounts
  <2> QED
    BY <1>2, <1>3, <1>4
<1>6. Adds(c, f, R)
  BY <1>2, <1>5
<1>7. c[R] = Table(f, R)[R]
  <2> HIDE DEF f
  <2> QED
    BY <1>4, <1>6, OneTable
<1> QED
  BY <1>1, <1>3, <1>7, SumIsInTable

\* A refund more is its amount more.
LEMMA RefundAdds ==
  ASSUME NEW R, IsFiniteSet(R), NEW r, r \notin R, \A x \in R \cup {r} : x.amount \in Int
  PROVE  /\ SumOfAmounts(R \cup {r})
            = SumOfAmounts(R) + r.amount
         /\ SumOfAmounts(R) \in Int
<1>1. PICK f : f = [x \in R |-> x.amount]
  OBVIOUS
<1>2. PICK g : g = [x \in R \cup {r} |-> x.amount]
  OBVIOUS
<1>3. IsFiniteSet(R \cup {r})
  BY FS_AddElement
<1>4. SumOver(g, R \cup {r}) = SumOver(g, R) + g[r]
  BY <1>2, SumWith
<1>5. SumOver(g, R) = SumOver(f, R) /\ SumOver(f, R) \in Int
  <2>1. Adds(Table(g, R), g, R) /\ Adds(Table(f, R), f, R)
    BY TableExists
  <2>2. \A t : Adds(t, g, R) => Adds(t, f, R)
    <3> SUFFICES ASSUME NEW t, Adds(t, g, R) PROVE Adds(t, f, R)
      OBVIOUS
    <3>1. \A s \in SUBSET R : s # {} => First(s) \in R
      BY DEF First
    <3>2. \A s \in SUBSET R : s # {} => g[First(s)] = f[First(s)]
      BY <1>1, <1>2, <3>1
    <3> DEFINE u == [s \in SUBSET R |-> IF s = {} THEN 0 ELSE f[First(s)] + t[s \ {First(s)}]]
    <3> DEFINE v == [s \in SUBSET R |-> IF s = {} THEN 0 ELSE g[First(s)] + t[s \ {First(s)}]]
    <3>3. u = v
      BY <3>2
    <3> QED
      BY <3>3 DEF Adds
  <2>3. Table(g, R)[R] = Table(f, R)[R]
    BY <2>1, <2>2, OneTable
  <2>4. SumOver(f, R) \in Int
    BY <1>1, SumIsInt
  <2> QED
    BY <2>3, <2>4, SumIsInTable
<1>6. g[r] = r.amount
  BY <1>2
<1>7. /\ SumOfAmounts(R \cup {r}) = SumOver(g, R \cup {r})
      /\ SumOfAmounts(R) = SumOver(f, R)
  BY <1>1, <1>2, <1>3, RefundedIsSum
<1> QED
  BY <1>4, <1>5, <1>6, <1>7

\* What one more refund makes of YooKassa's books.
LEMMA BooksGrow ==
  ASSUME BooksTyped, NEW key \in RefundKeys, ~Returned(key), refunds' = refunds \cup {RefundOf(key)}
  PROVE  /\ BooksTyped'
         /\ Refunded' = Refunded + RefundOf(key).amount
         /\ Refunded \in Int
<1>1. PICK r : r = RefundOf(key)
  OBVIOUS
<1>2. r \in [key : RefundKeys, amount : Nat] /\ r.key = key
  BY <1>1, RefundsAreTyped
<1>3. r \notin refunds
  BY <1>2 DEF Returned
<1>4. IsFiniteSet(refunds \cup {r})
  BY FS_AddElement DEF BooksTyped
<1>5. BooksTyped'
  BY <1>1, <1>2, <1>4 DEF BooksTyped
<1>6. \A x \in refunds \cup {r} : x.amount \in Int
  BY <1>2 DEF BooksTyped
<1>7. /\ SumOfAmounts(refunds \cup {r})
            = SumOfAmounts(refunds) + r.amount
      /\ SumOfAmounts(refunds) \in Int
  BY <1>3, <1>6, RefundAdds DEF BooksTyped
<1>8. Refunded = SumOfAmounts(refunds)
  BY DEF Refunded, SumOfAmounts
<1>9. Refunded' = SumOfAmounts(refunds')
  BY DEF Refunded, SumOfAmounts, MapThenSumSet, MapThenFoldSet
<1> QED
  BY <1>1, <1>5, <1>7, <1>8, <1>9

\* Only calls of createYookassaRefund are entered in the books.
LEMMA RefundsFollow ==
  ASSUME Safe, [Next]_vars
  PROVE  \/ refunds' = refunds
         \/ \E p \in Everyone : /\ At(p, "refund") /\ Cur(p).of \in RefundKeys
                                /\ ~Refusable(Cur(p).of) /\ ~Known(Cur(p).of)
                                /\ refunds' = refunds \cup {RefundOf(Cur(p).of)}
                                /\ CallRefund(p) \/ Throw(p)
<1>1. ASSUME NEW p \in Everyone, At(p, "refund") PROVE Cur(p).of \in RefundKeys
  BY <1>1, HeadIsBacked DEF Safe, HandlerSteps, At
<1>2. ASSUME NEW p \in Everyone, CallRefund(p), refunds' # refunds
      PROVE  /\ At(p, "refund") /\ ~Refusable(Cur(p).of) /\ ~Known(Cur(p).of)
             /\ refunds' = refunds \cup {RefundOf(Cur(p).of)}
  BY <1>2 DEF CallRefund, YookassaReturns, YookassaCancels, Known
<1>3. ASSUME NEW p \in Everyone, Throw(p), refunds' # refunds
      PROVE  /\ At(p, "refund") /\ ~Refusable(Cur(p).of) /\ ~Known(Cur(p).of)
             /\ refunds' = refunds \cup {RefundOf(Cur(p).of)}
  BY <1>3 DEF Throw, YookassaReturns, YookassaCancels, Known
<1>4. CASE \/ TakeJob \/ FinishJob \/ RunRetry \/ RunCompensate \/ Crash
           \/ \E p \in Admins : AdminRetries(p) \/ AdminRefunds(p)
  BY <1>4 DEF TakeJob, FinishJob, RunRetry, RunCompensate, Crash, AdminRetries,
     AdminRefunds, Begin, outside
<1>5. ASSUME NEW p \in Everyone, Continue(p), ~CallRefund(p) PROVE refunds' = refunds
  BY <1>5 DEF Continue, MarkPaid, Start, FindItems, SetReserving, Reserve, SetReserved,
     SetConfirmed, SetStatus, Confirm, ReadAttempts, SetRetry, SetFailed, CheckItems,
     CompleteSession, ResetFailed, FindFailed, FindPaid, ReadIntent, SetRefunded,
     SetIntentRefunded, RefundAll, outside
<1>6. CASE UNCHANGED vars
  BY <1>6 DEF vars
<1> QED
  BY <1>1, <1>2, <1>3, <1>4, <1>5, <1>6 DEF Next

\* YooKassa's books stay typed.
LEMMA BooksStayTyped == Safe /\ BooksTyped /\ [Next]_vars => BooksTyped'
<1> SUFFICES ASSUME Safe, BooksTyped, [Next]_vars PROVE BooksTyped'
  OBVIOUS
<1>1. CASE refunds' = refunds
  BY <1>1 DEF BooksTyped
<1> QED
  BY <1>1, RefundsFollow, BooksGrow DEF Known

\* No money has been returned when the payment has just succeeded.
LEMMA NoBooks == Init => BooksTyped
BY FS_EmptySet DEF Init, BooksTyped

(***************************************************************************)
(* The plans of handlers: which steps follow which, in every scene.        *)
(***************************************************************************)
LineSteps   == OfLine \cup {"setRetry", "setFailed"}
LeadKinds   == {"markPaid", "start"} \cup {k \in {"resetFailed"} : "retry" \in AdminRoles}
AloneKinds  == {"completeSession", "findFailed", "findPaid", "readIntent", "refundAll"}
RefundKinds == {"findFailed", "findPaid", "readIntent", "refund", "setRefunded",
                "setIntentRefunded", "refundAll"}

\* Up to executeFulfillment.
LeadsIn(s) == /\ s # <<>> /\ s[Len(s)].do = "findItems"
              /\ \A n \in 1..(Len(s) - 1) : s[n].do \in LeadKinds

\* Through the lines: two steps ahead for one line are its mark RESERVED and its
\* confirmation.
Apart(a, b) == a.item = b.item => a.do = "setReserved" /\ b.do = "confirm"
GoesThrough(s) ==
  /\ s # <<>> /\ s[Len(s)].do = "checkItems"
  /\ \A n \in 1..(Len(s) - 1) : s[n].do \in LineSteps /\ s[n].item \in Platform
  /\ \A n \in 1..(Len(s) - 1) : \A m \in 1..(n - 1) : Apart(s[m], s[n])

\* The marks of a partial refund, of different lines, and the call before them.
Marking(s) == /\ \A n \in 1..Len(s) : s[n].do = "setRefunded"
              /\ \A n \in 1..Len(s) : \A m \in 1..(n - 1) : s[m].item # s[n].item
Marked(s)  == {s[n].item : n \in 1..Len(s)}
PartCall(s) == s # <<>> /\ s[1].do = "refund" /\ Marking(Tail(s)) /\ s[1].of = Marked(Tail(s))

\* The same of a full one.
FullMarks(s) == Len(s) = 2 /\ s[1].do = "setIntentRefunded" /\ s[2].do = "refundAll"
FullCall(s)  == s # <<>> /\ s[1].do = "refund" /\ s[1].of = FullKey /\ FullMarks(Tail(s))

Alone(s) == Len(s) = 1 /\ s[1].do \in AloneKinds

Form(s) == \/ LeadsIn(s) \/ GoesThrough(s) \/ Alone(s)
           \/ Marking(s) \/ PartCall(s) \/ FullMarks(s) \/ FullCall(s)

Formed == \A p \in Everyone : Form(todo[p])

\* Without administrators who retry, administrators only refund.
AdminsRefund ==
  "retry" \notin AdminRoles =>
    \A p \in Admins : todo[p] = <<>> \/ Head(todo[p]).do \in RefundKinds

\* What is known of a sequence that is not empty.
LEMMA HeadAndTail ==
  ASSUME NEW s \in Seq(HandlerSteps), s # <<>>
  PROVE  /\ Len(s) \in Nat /\ Len(s) >= 1 /\ Head(s) = s[1] /\ s[1] \in HandlerSteps
         /\ Tail(s) \in Seq(HandlerSteps) /\ Len(Tail(s)) = Len(s) - 1
         /\ \A k \in 1..(Len(s) - 1) : Tail(s)[k] = s[k + 1]
         /\ Len(s) = 1 <=> Tail(s) = <<>>
<1>1. /\ Len(s) \in Nat /\ Len(s) >= 1 /\ Head(s) = s[1] /\ s[1] \in HandlerSteps
      /\ Tail(s) \in Seq(HandlerSteps) /\ Len(Tail(s)) = Len(s) - 1
  OBVIOUS
<1>2. \A k \in 1..(Len(s) - 1) : Tail(s)[k] = s[k + 1]
  OBVIOUS
<1>3. \A t \in Seq(HandlerSteps) : Len(t) = 0 <=> t = <<>>
  OBVIOUS
<1>4. Len(Tail(s)) = 0 <=> Tail(s) = <<>>
  BY <1>1, <1>3, Zenon
<1>5. Len(s) = 1 <=> Len(Tail(s)) = 0
  BY <1>1
<1> QED
  BY <1>1, <1>2, <1>4, <1>5, Zenon

\* The first step tells which plan it belongs to, and what may follow.
LEMMA HeadTells ==
  ASSUME NEW s \in Seq(HandlerSteps), Form(s), s # <<>>, NEW h, h = Head(s).do,
         NEW r, r = Tail(s)
  PROVE  /\ h \in LeadKinds => LeadsIn(r)
         /\ h \in {"findItems", "checkItems"} \cup AloneKinds => r = <<>>
         /\ h \in LineSteps => GoesThrough(s) /\ GoesThrough(r)
         /\ h = "refund" => (PartCall(s) /\ Marking(r)) \/ (FullCall(s) /\ FullMarks(r))
         /\ h = "setRefunded" => Marking(s) /\ Marking(r)
         /\ h = "setIntentRefunded" => FullMarks(s) /\ Len(r) = 1 /\ r[1].do = "refundAll"
         /\ h = "resetFailed" => "retry" \in AdminRoles /\ h \in LeadKinds
<1>1. /\ Len(s) \in Nat /\ Len(s) >= 1 /\ h = s[1].do /\ s[1] \in HandlerSteps
      /\ r \in Seq(HandlerSteps) /\ Len(r) = Len(s) - 1
      /\ \A k \in 1..(Len(s) - 1) : r[k] = s[k + 1]
      /\ Len(s) = 1 <=> r = <<>>
  BY HeadAndTail
<1>2. CASE LeadsIn(s)
  <2>1. CASE Len(s) = 1
    BY <1>1, <1>2, <2>1 DEF LeadsIn, LeadKinds, LineSteps, OfLine, AloneKinds
  <2>2. CASE Len(s) # 1
    <3>1. 1 \in 1..(Len(s) - 1) /\ h \in LeadKinds /\ r # <<>>
      <4>1. 1 \in 1..(Len(s) - 1) /\ r # <<>>
        BY <1>1, <2>2
      <4> QED
        BY <1>1, <1>2, <4>1 DEF LeadsIn
    <3>2. r[Len(r)] = s[Len(s)] /\ \A n \in 1..(Len(r) - 1) : r[n] = s[n + 1] /\ n + 1 \in 1..(Len(s) - 1)
      BY <1>1, <2>2
    <3>3. LeadsIn(r)
      BY <1>2, <3>1, <3>2 DEF LeadsIn
    <3> QED
      BY <3>1, <3>3 DEF LeadKinds, LineSteps, OfLine, AloneKinds
  <2> QED
    BY <2>1, <2>2
<1>3. CASE GoesThrough(s)
  <2>1. CASE Len(s) = 1
    BY <1>1, <1>3, <2>1 DEF GoesThrough, LeadKinds, LineSteps, OfLine, AloneKinds
  <2>2. CASE Len(s) # 1
    <3>1. 1 \in 1..(Len(s) - 1) /\ h \in LineSteps /\ r # <<>>
      <4>1. 1 \in 1..(Len(s) - 1) /\ r # <<>>
        BY <1>1, <2>2
      <4> QED
        BY <1>1, <1>3, <4>1 DEF GoesThrough
    <3>2. /\ r[Len(r)] = s[Len(s)]
          /\ \A n \in 1..(Len(r) - 1) : r[n] = s[n + 1] /\ n + 1 \in 1..(Len(s) - 1)
      BY <1>1, <2>2
    <3>3. \A n \in 1..(Len(r) - 1) : r[n].do \in LineSteps /\ r[n].item \in Platform
      BY <1>3, <3>2 DEF GoesThrough
    <3>4. ASSUME NEW n \in 1..(Len(r) - 1), NEW m \in 1..(n - 1) PROVE Apart(r[m], r[n])
      <4>1. m \in 1..(Len(r) - 1) /\ m + 1 \in 1..((n + 1) - 1)
        BY <1>1
      <4>2. Apart(s[m + 1], s[n + 1])
        BY <1>3, <3>2, <4>1 DEF GoesThrough
      <4> QED
        BY <3>2, <4>1, <4>2
    <3>5. GoesThrough(r)
      BY <1>3, <3>1, <3>2, <3>3, <3>4 DEF GoesThrough
    <3> QED
      BY <1>3, <3>1, <3>5 DEF LeadKinds, LineSteps, OfLine, AloneKinds
  <2> QED
    BY <2>1, <2>2
<1>4. CASE Alone(s)
  BY <1>1, <1>4 DEF Alone, LeadKinds, LineSteps, OfLine, AloneKinds
<1>5. CASE Marking(s)
  <2>1. h = "setRefunded"
    BY <1>1, <1>5 DEF Marking
  <2>2. \A n \in 1..Len(r) : n + 1 \in 1..Len(s) /\ r[n] = s[n + 1]
    BY <1>1
  <2>3. \A n \in 1..Len(r) : \A m \in 1..(n - 1) : m \in 1..Len(r) /\ m + 1 \in 1..((n + 1) - 1)
    BY <1>1
  <2>4. Marking(r)
    BY <1>5, <2>2, <2>3 DEF Marking
  <2> QED
    BY <1>5, <2>1, <2>4 DEF LeadKinds, LineSteps, OfLine, AloneKinds
<1>6. CASE PartCall(s)
  BY <1>1, <1>6 DEF PartCall, LeadKinds, LineSteps, OfLine, AloneKinds
<1>7. CASE FullMarks(s)
  <2>1. Len(r) = 1 /\ r[1] = s[2]
    <3>1. Len(s) = 2 /\ 1 \in 1..(Len(s) - 1) /\ 1 + 1 = 2
      BY <1>7 DEF FullMarks
    <3> QED
      BY <1>1, <3>1
  <2> QED
    BY <1>1, <1>7, <2>1 DEF FullMarks, LeadKinds, LineSteps, OfLine, AloneKinds
<1>8. CASE FullCall(s)
  BY <1>1, <1>8 DEF FullCall, LeadKinds, LineSteps, OfLine, AloneKinds
<1> QED
  BY <1>2, <1>3, <1>4, <1>5, <1>6, <1>7, <1>8 DEF Form

\* Next steps for a line take the place of one, and all stays apart.
LEMMA LinesGoOn ==
  ASSUME NEW s \in Seq(HandlerSteps), GoesThrough(s), Head(s).do \in LineSteps,
         NEW new \in Seq(HandlerSteps), Head(s).do = "setReserved" => new = <<>>,
         \A n \in 1..Len(new) : new[n].do \in LineSteps /\ new[n].item = Head(s).item,
         \A n \in 1..Len(new) : \A m \in 1..(n - 1) :
           new[m].do = "setReserved" /\ new[n].do = "confirm"
  PROVE  /\ GoesThrough(new \o Tail(s))
         /\ \A n \in 1..(Len(Tail(s)) - 1) : Tail(s)[n].item = Head(s).item =>
              Head(s).do = "setReserved" /\ Tail(s)[n].do = "confirm"
<1>1. PICK r, u : r = Tail(s) /\ u = new \o r
  OBVIOUS
<1>2. /\ Len(s) \in Nat /\ Len(s) >= 1 /\ Head(s) = s[1]
      /\ r \in Seq(HandlerSteps) /\ Len(r) = Len(s) - 1
      /\ \A k \in 1..(Len(s) - 1) : r[k] = s[k + 1]
  BY <1>1, HeadAndTail DEF GoesThrough
<1>3. Len(s) # 1
  BY <1>2 DEF GoesThrough, LineSteps, OfLine
<1>4. GoesThrough(r) /\ Len(r) >= 1 /\ r # <<>>
  <2>1. Form(s) /\ s # <<>>
    BY DEF Form, GoesThrough
  <2>2. GoesThrough(r)
    BY <1>1, <2>1, HeadTells
  <2>3. Len(r) >= 1 /\ r # <<>>
    BY <1>2, <1>3
  <2> QED
    BY <2>2, <2>3
<1>5. s[1].item \in Platform /\ 1 \in 1..(Len(s) - 1)
  BY <1>2, <1>3 DEF GoesThrough
<1>6. ASSUME NEW n \in 1..(Len(r) - 1) PROVE Apart(s[1], r[n])
  <2>1. n + 1 \in 1..(Len(s) - 1) /\ 1 \in 1..((n + 1) - 1) /\ r[n] = s[n + 1]
    BY <1>2
  <2> QED
    BY <2>1 DEF GoesThrough
<1>7. /\ Len(new) \in Nat /\ u \in Seq(HandlerSteps) /\ Len(u) = Len(new) + Len(r)
      /\ \A n \in 1..Len(new) : u[n] = new[n]
      /\ \A n \in 1..Len(r) : u[n + Len(new)] = r[n]
  BY <1>1, <1>2
<1>8. u # <<>> /\ u[Len(u)].do = "checkItems"
  <2>1. Len(r) \in 1..Len(r) /\ u[Len(r) + Len(new)] = r[Len(r)] /\ Len(r) + Len(new) = Len(u)
    BY <1>2, <1>4, <1>7
  <2> QED
    BY <1>4, <1>7, <2>1 DEF GoesThrough
<1>9. ASSUME NEW n \in 1..(Len(u) - 1), n > Len(new)
      PROVE  n - Len(new) \in 1..(Len(r) - 1) /\ u[n] = r[n - Len(new)]
  <2>1. n - Len(new) \in 1..(Len(r) - 1) /\ n - Len(new) \in 1..Len(r)
    BY <1>2, <1>7, <1>9
  <2>2. u[(n - Len(new)) + Len(new)] = r[n - Len(new)] /\ (n - Len(new)) + Len(new) = n
    BY <1>7, <2>1
  <2> QED
    BY <2>1, <2>2
<1>10. ASSUME NEW n \in 1..(Len(u) - 1), n <= Len(new)
       PROVE  n \in 1..Len(new) /\ u[n] = new[n]
  BY <1>7, <1>10
<1>11. \A n \in 1..(Len(u) - 1) : u[n].do \in LineSteps /\ u[n].item \in Platform
  <2> SUFFICES ASSUME NEW n \in 1..(Len(u) - 1)
               PROVE  u[n].do \in LineSteps /\ u[n].item \in Platform
    OBVIOUS
  <2>1. CASE n > Len(new)
    BY <1>4, <1>9, <2>1 DEF GoesThrough
  <2>2. CASE n <= Len(new)
    BY <1>2, <1>5, <1>10, <2>2
  <2> QED
    BY <1>7, <2>1, <2>2
<1>12. ASSUME NEW n \in 1..(Len(u) - 1), NEW m \in 1..(n - 1) PROVE Apart(u[m], u[n])
  <2>0. m \in 1..(Len(u) - 1) /\ Len(u) \in Nat
    BY <1>7
  <2>1. CASE n <= Len(new)
    <3>1. m <= Len(new) /\ n \in 1..Len(new) /\ u[n] = new[n] /\ u[m] = new[m]
      BY <1>7, <1>10, <2>0, <2>1
    <3> QED
      BY <3>1 DEF Apart
  <2>2. CASE n > Len(new) /\ m > Len(new)
    <3>1. /\ n - Len(new) \in 1..(Len(r) - 1) /\ u[n] = r[n - Len(new)]
          /\ u[m] = r[m - Len(new)]
      BY <1>9, <2>0, <2>2
    <3>2. m - Len(new) \in 1..((n - Len(new)) - 1)
      BY <1>7, <2>0, <2>2
    <3> QED
      BY <1>4, <3>1, <3>2 DEF GoesThrough
  <2>3. CASE n > Len(new) /\ m <= Len(new)
    <3>1. /\ n - Len(new) \in 1..(Len(r) - 1) /\ u[n] = r[n - Len(new)]
          /\ m \in 1..Len(new) /\ u[m] = new[m] /\ u[m].item = s[1].item
      BY <1>2, <1>9, <1>10, <2>0, <2>3
    <3>2. new # <<>>
      BY <3>1
    <3>3. Apart(s[1], r[n - Len(new)]) /\ s[1].do # "setReserved"
      BY <1>2, <1>6, <3>1, <3>2
    <3> QED
      BY <3>1, <3>3 DEF Apart
  <2> QED
    BY <1>7, <2>0, <2>1, <2>2, <2>3
<1>13. GoesThrough(u)
  BY <1>8, <1>11, <1>12 DEF GoesThrough
<1> QED
  BY <1>1, <1>2, <1>6, <1>13 DEF Apart

\* Each makes one step for each line, and for different lines.
LEMMA EachCovers ==
  ASSUME NEW kind \in StepKinds, NEW S \in SUBSET (Items \cup {NoItem}),
         NEW s, s = Each(kind, S)
  PROVE  /\ s \in Seq(HandlerSteps)
         /\ \A n \in 1..Len(s) : s[n].do = kind /\ s[n].item \in S
         /\ \A n \in 1..Len(s) : \A m \in 1..(n - 1) : s[m].item # s[n].item
         /\ Marked(s) = S
<1>1. IsFiniteSet(S)
  BY FulfillmentAssumption, FS_Subset, FS_Singleton, FS_Union
<1>2. PICK N \in Nat : N = Cardinality(S)
  BY <1>1, SetAsSequence
<1>3. \E f \in [1..N -> S] : IsInjective(f)
  <2>1. PICK n \in Nat : ExistsBijection(1..n, S)
    BY <1>1, FS_NatBijection
  <2>2. n = N
    BY <1>2, <2>1, FS_CountingElements
  <2> QED
    BY <2>1, <2>2 DEF ExistsBijection, Bijection, Injection, Surjection, IsInjective
<1>4. PICK f \in [1..N -> S] : f = SetToSeq(S) /\ IsInjective(f)
  BY <1>2, <1>3 DEF SetToSeq
<1>5. f \in Surjection(1..N, S)
  <2>1. f \in Injection(1..N, S)
    BY <1>4 DEF Injection, IsInjective
  <2>2. Cardinality(1..N) = N
    <3>1. 1 \in Int /\ N \in Int
      OBVIOUS
    <3> QED
      BY <3>1, FS_Interval
  <2> QED
    BY <1>1, <1>2, <2>1, <2>2, FS_Injection
<1>6. s \in Seq(HandlerSteps) /\ Len(s) = N
      /\ \A n \in 1..Len(s) : s[n].do = kind /\ s[n].item \in S
  BY <1>2, EachIsTyped
<1>7. \A n \in 1..N : s[n].item = f[n]
  <2>1. \A n \in 1..N : s[n] = DoItem(kind, f[n])
    BY <1>2, <1>4 DEF Each
  <2> QED
    BY <2>1 DEF DoItem, Do
<1>8. ASSUME NEW n \in 1..Len(s), NEW m \in 1..(n - 1) PROVE s[m].item # s[n].item
  <2>1. n \in 1..N /\ m \in 1..N /\ m # n
    BY <1>6
  <2> QED
    BY <1>4, <1>7, <2>1 DEF IsInjective
<1>9. Marked(s) = S
  <2>1. \A x \in S : \E n \in 1..N : f[n] = x
    BY <1>5 DEF Surjection
  <2> QED
    BY <1>6, <1>7, <2>1 DEF Marked
<1> QED
  BY <1>6, <1>8, <1>9

Takes == {"setReserving", "reserve"}

\* What may follow a step for a line.
Follows(new, t) ==
  /\ \A n \in 1..Len(new) : /\ new[n].do \in LineSteps /\ new[n].item = t.item
                            /\ new[n].do \in Takes => t.do = "setReserving"
  /\ \A n \in 1..Len(new) : \A m \in 1..(n - 1) :
       new[m].do = "setReserved" /\ new[n].do = "confirm"
  /\ t.do \in {"setReserved", "setConfirmed", "setRetry", "setFailed"} => new = <<>>

\* No step follows.
LEMMA NoneFollows == \A t : Follows(<<>>, t)
<1>1. Len(<<>>) = 0
  OBVIOUS
<1> QED
  BY <1>1 DEF Follows

\* One step follows.
LEMMA OneFollows ==
  ASSUME NEW a \in HandlerSteps, NEW t, a.do \in LineSteps, a.item = t.item,
         a.do \in Takes => t.do = "setReserving",
         t.do \notin {"setReserved", "setConfirmed", "setRetry", "setFailed"}
  PROVE  <<a>> \in Seq(HandlerSteps) /\ Follows(<<a>>, t)
<1>1. PICK s : s = <<a>>
  OBVIOUS
<1>2. s \in Seq(HandlerSteps) /\ Len(s) = 1 /\ s[1] = a
  BY <1>1
<1>3. \A n \in 1..Len(s) : n = 1 /\ s[n] = a /\ \A m \in 1..(n - 1) : FALSE
  BY <1>2
<1>4. Follows(s, t)
  BY <1>3 DEF Follows
<1> QED
  BY <1>1, <1>2, <1>4

\* A handler that works on a line goes on with that line.
LEMMA LineGoes ==
  ASSUME Safe, NEW p \in Everyone, Continue(p), Cur(p).do \in LineSteps,
         Cur(p).item \in Items
  PROVE  \E new \in Seq(HandlerSteps) :
           /\ Replace(p, new) /\ Follows(new, Cur(p))
           /\ orders' = orders \/ \E n \in 1..Len(new) : new[n].do = "setReserved"
<1>1. PICK i \in Items : i = Cur(p).item
  OBVIOUS
<1>t. PICK t : t = Cur(p)
  OBVIOUS
<1>2. ASSUME NEW k \in LineSteps \cap StepKinds, NEW n \in Nat, k \in Takes => t.do = "setReserving",
             t.do \notin {"setReserved", "setConfirmed", "setRetry", "setFailed"}
      PROVE  /\ <<DoItem(k, i)>> \in Seq(HandlerSteps) /\ Follows(<<DoItem(k, i)>>, t)
             /\ <<DoCount(k, i, n)>> \in Seq(HandlerSteps) /\ Follows(<<DoCount(k, i, n)>>, t)
  <2>1. /\ DoItem(k, i) \in HandlerSteps /\ DoItem(k, i).do = k /\ DoItem(k, i).item = i
        /\ DoCount(k, i, n) \in HandlerSteps /\ DoCount(k, i, n).do = k
        /\ DoCount(k, i, n).item = i
    <3>1. i \in Items \cup {NoItem} /\ {} \in RefundKeys
      BY DEF RefundKeys
    <3> QED
      BY <1>2, <3>1, StepsAreTyped
  <2>2. PICK a, b : a = DoItem(k, i) /\ b = DoCount(k, i, n)
    OBVIOUS
  <2> QED
    BY <1>1, <1>t, <1>2, <2>1, <2>2, OneFollows
<1>3. CASE SetReserving(p)
  <2>1. Replace(p, <<DoItem("reserve", i)>>) /\ orders' = orders /\ t.do = "setReserving"
    BY <1>1, <1>t, <1>3 DEF SetReserving, outside, At, Cur
  <2>2. "reserve" \in LineSteps \cap StepKinds /\ 0 \in Nat
    BY DEF LineSteps, OfLine, StepKinds
  <2> QED
    BY <1>1, <1>t, <1>2, <2>1, <2>2
<1>4. ASSUME NEW retryable \in {0, 1}, t.do \in {"reserve", "confirm"},
             Replace(p, <<DoCount("fail", i, retryable)>>), orders' = orders
      PROVE  \E new \in Seq(HandlerSteps) :
               /\ Replace(p, new) /\ Follows(new, Cur(p))
               /\ orders' = orders \/ \E n \in 1..Len(new) : new[n].do = "setReserved"
  <2>1. "fail" \in LineSteps \cap StepKinds /\ retryable \in Nat /\ "fail" \notin Takes
    BY DEF LineSteps, OfLine, StepKinds, Takes
  <2>2. t.do \notin {"setReserved", "setConfirmed", "setRetry", "setFailed"}
    BY <1>4
  <2>3. PICK new \in Seq(HandlerSteps) :
          new = <<DoCount("fail", i, retryable)>> /\ Follows(new, t)
    BY <1>2, <2>1, <2>2
  <2> QED
    BY <1>1, <1>t, <1>4, <2>3
<1>5. CASE Reserve(p)
  <2>0. t.do = "reserve"
    BY <1>1, <1>t, <1>5 DEF Reserve, At, Cur
  <2>1. CASE Replace(p, <<DoItem("setReserved", i), DoItem("confirm", i)>>)
    <3>1. PICK a, b : a = DoItem("setReserved", i) /\ b = DoItem("confirm", i)
      OBVIOUS
    <3>2. /\ a \in HandlerSteps /\ a.do = "setReserved" /\ a.item = i
          /\ b \in HandlerSteps /\ b.do = "confirm" /\ b.item = i
      BY <3>1, LineStep DEF StepKinds
    <3>3. PICK new : new = <<a, b>>
      OBVIOUS
    <3>4. new \in Seq(HandlerSteps) /\ Len(new) = 2 /\ new[1] = a /\ new[2] = b
      BY <3>2, <3>3
    <3>5. \A n \in 1..Len(new) : /\ new[n].do \in {"setReserved", "confirm"} /\ new[n].item = i
                                 /\ \A m \in 1..(n - 1) : m = 1 /\ n = 2
      BY <3>2, <3>4
    <3>6. Follows(new, t)
      BY <1>1, <1>t, <2>0, <3>2, <3>4, <3>5 DEF Follows, LineSteps, OfLine, Takes
    <3>7. 1 \in 1..Len(new) /\ new[1].do = "setReserved"
      BY <3>2, <3>4
    <3> QED
      BY <1>1, <1>t, <2>1, <3>1, <3>3, <3>4, <3>6, <3>7
  <2>2. CASE Refuse(p, i)
    <3>1. /\ \E retryable \in {0, 1} : Replace(p, <<DoCount("fail", i, retryable)>>)
          /\ orders' = orders
      BY <2>2, FulfillmentAssumption DEF Refuse, Refusals, InternalRefusals, PartnerRefusals, TcRefusals
    <3> QED
      BY <1>4, <2>0, <3>1
  <2> QED
    BY <1>1, <1>t, <1>5, <2>1, <2>2 DEF Reserve
<1>6. CASE Confirm(p)
  <2>0. t.do = "confirm" /\ orders' = orders
    BY <1>1, <1>t, <1>6 DEF Confirm, At, Cur
  <2>1. CASE Replace(p, <<DoItem("setConfirmed", i)>>)
    <3>1. "setConfirmed" \in LineSteps \cap StepKinds /\ 0 \in Nat /\ "setConfirmed" \notin Takes
      BY DEF LineSteps, OfLine, StepKinds, Takes
    <3>2. t.do \notin {"setReserved", "setConfirmed", "setRetry", "setFailed"}
      BY <2>0
    <3> QED
      BY <1>1, <1>t, <1>2, <2>0, <2>1, <3>1, <3>2
  <2>2. CASE Replace(p, <<DoCount("fail", i, 1)>>)
    BY <1>4, <2>0, <2>2
  <2> QED
    BY <1>1, <1>t, <1>6, <2>1, <2>2 DEF Confirm
<1>7. CASE ReadAttempts(p)
  <2>0. t.do = "fail" /\ orders' = orders
    BY <1>1, <1>t, <1>7 DEF ReadAttempts, At, Cur, outside
  <2>1. PICK k \in {"setRetry", "setFailed"}, n \in Nat : Replace(p, <<DoCount(k, i, n)>>)
    <3>1. items[i].attempts + 1 \in Nat
      BY DEF Safe, StateTyped, Row
    <3> QED
      BY <1>1, <1>t, <1>7, <3>1 DEF ReadAttempts
  <2>2. k \in LineSteps \cap StepKinds /\ k \notin Takes
    BY DEF LineSteps, OfLine, StepKinds, Takes
  <2>3. t.do \notin {"setReserved", "setConfirmed", "setRetry", "setFailed"}
    BY <2>0
  <2> QED
    BY <1>1, <1>t, <1>2, <2>0, <2>1, <2>2, <2>3
<1>8. CASE SetReserved(p) \/ SetConfirmed(p) \/ SetRetry(p) \/ SetFailed(p)
  <2>1. Replace(p, <<>>) /\ orders' = orders /\ <<>> \in Seq(HandlerSteps)
    BY <1>8 DEF SetReserved, SetConfirmed, SetStatus, SetRetry, SetFailed, Done, outside
  <2> QED
    BY <2>1, NoneFollows
<1>9. ASSUME \/ MarkPaid(p) \/ Start(p) \/ FindItems(p) \/ CheckItems(p) \/ CompleteSession(p)
             \/ ResetFailed(p) \/ FindFailed(p) \/ FindPaid(p) \/ ReadIntent(p)
             \/ CallRefund(p) \/ SetRefunded(p) \/ SetIntentRefunded(p) \/ RefundAll(p)
      PROVE  FALSE
  BY <1>9 DEF MarkPaid, Start, FindItems, CheckItems, CompleteSession, ResetFailed, FindFailed,
     FindPaid, ReadIntent, CallRefund, SetRefunded, SetIntentRefunded, RefundAll, At, Cur,
     LineSteps, OfLine
<1> QED
  BY <1>3, <1>5, <1>6, <1>7, <1>8, <1>9 DEF Continue

\* What a handler does next is a plan again, and a refund stays one.
GoesOn(s, u) == /\ Form(u)
                /\ Head(s).do \in RefundKinds => u = <<>> \/ Head(u).do \in RefundKinds

\* The plan after a step, when other steps have taken its place.
LEMMA Replaced ==
  ASSUME StateTyped, NEW p \in Everyone, NEW new, Replace(p, new)
  PROVE  /\ todo'[p] = new \o Tail(todo[p])
         /\ \A q \in Everyone : q # p => todo'[q] = todo[q]
BY DEF StateTyped, Replace

\* Nothing before or after a plan leaves it as it is.
LEMMA NothingAdded ==
  ASSUME NEW s \in Seq(HandlerSteps)
  PROVE  <<>> \o s = s /\ s \o <<>> = s
OBVIOUS

\* The forms of short plans.
LEMMA ShortForms ==
  /\ Form(<<>>)
  /\ \A a \in HandlerSteps : a.do \in AloneKinds => Form(<<a>>) /\ Head(<<a>>) = a
<1>1. Form(<<>>)
  <2>1. Len(<<>>) = 0
    OBVIOUS
  <2> QED
    BY <2>1 DEF Form, Marking
<1>2. ASSUME NEW a \in HandlerSteps, a.do \in AloneKinds PROVE Form(<<a>>) /\ Head(<<a>>) = a
  <2>1. Len(<<a>>) = 1 /\ <<a>>[1] = a /\ Head(<<a>>) = a
    OBVIOUS
  <2> QED
    BY <1>2, <2>1 DEF Form, Alone
<1> QED
  BY <1>1, <1>2

\* The steps that lead in: markPaid, startFulfillment, the reset.
LEMMA LeadGoes ==
  ASSUME StateTyped, NEW p \in Everyone, Form(todo[p]), todo[p] # <<>>,
         MarkPaid(p) \/ Start(p) \/ ResetFailed(p)
  PROVE  todo'[p] = <<>> \/ (todo'[p] = Tail(todo[p]) /\ LeadsIn(todo'[p]))
<1>1. PICK s \in Seq(HandlerSteps) : s = todo[p]
  BY DEF StateTyped
<1>2. Head(s).do \in LeadKinds
  <2>1. Head(s).do \in {"markPaid", "start", "resetFailed"}
    BY <1>1 DEF MarkPaid, Start, ResetFailed, At
  <2>2. Head(s).do = "resetFailed" => Head(s).do \in LeadKinds
    BY <1>1, HeadTells
  <2> QED
    BY <2>1, <2>2 DEF LeadKinds
<1>3. LeadsIn(Tail(s)) /\ Tail(s) \in Seq(HandlerSteps)
  BY <1>1, <1>2, HeadTells, HeadAndTail
<1>4. Replace(p, <<>>) \/ todo' = [todo EXCEPT ![p] = <<>>]
  BY DEF MarkPaid, Start, ResetFailed, Done
<1>5. CASE Replace(p, <<>>)
  <2>1. todo'[p] = Tail(s)
    BY <1>1, <1>3, <1>5, Replaced, NothingAdded
  <2> QED
    BY <1>1, <1>3, <2>1
<1>6. CASE todo' = [todo EXCEPT ![p] = <<>>]
  BY <1>6 DEF StateTyped
<1> QED
  BY <1>4, <1>5, <1>6

\* executeFulfillment.
LEMMA FindItemsGoes ==
  ASSUME StateTyped, NEW p \in Everyone, Form(todo[p]), todo[p] # <<>>, FindItems(p)
  PROVE  LET open == {i \in Platform : items[i].status \in {"PENDING", "RESERVING"}}
         IN /\ GoesThrough(todo'[p])
            /\ \A n \in 1..(Len(todo'[p]) - 1) :
                 todo'[p][n].do = "setReserving" /\ todo'[p][n].item \in open
            /\ todo[p] = <<Head(todo[p])>>
<1> DEFINE open == {i \in Platform : items[i].status \in {"PENDING", "RESERVING"}}
<1>1. PICK s \in Seq(HandlerSteps) : s = todo[p]
  BY DEF StateTyped
<1>2. Head(s).do = "findItems"
  BY <1>1 DEF FindItems, At
<1>3. Tail(s) = <<>> /\ s = <<Head(s)>>
  <2>1. Tail(s) = <<>>
    BY <1>1, <1>2, HeadTells
  <2>2. Len(s) = 1 /\ Head(s) = s[1]
    BY <1>1, <2>1, HeadAndTail
  <2> QED
    BY <2>1, <2>2
<1>4. PICK e, d, u : /\ e = Each("setReserving", open) /\ d = Do("checkItems")
                     /\ u = Append(e, d)
  OBVIOUS
<1>5. open \in SUBSET (Items \cup {NoItem}) /\ open \subseteq Platform
  BY DEF Platform
<1>6. /\ e \in Seq(HandlerSteps)
      /\ \A n \in 1..Len(e) : e[n].do = "setReserving" /\ e[n].item \in open
      /\ \A n \in 1..Len(e) : \A m \in 1..(n - 1) : e[m].item # e[n].item
  <2>1. "setReserving" \in StepKinds
    BY DEF StepKinds
  <2> HIDE DEF open
  <2> QED
    BY <1>4, <1>5, <2>1, EachCovers
<1>7. d \in HandlerSteps /\ d.do = "checkItems"
  BY <1>4, PlainStep DEF StepKinds
<1>8. /\ u \in Seq(HandlerSteps) /\ Len(u) = Len(e) + 1 /\ u[Len(u)] = d /\ Len(e) \in Nat
      /\ \A n \in 1..Len(e) : u[n] = e[n]
  BY <1>4, <1>6, <1>7
<1>9. todo'[p] = u
  <2>1. Replace(p, u)
    BY <1>4 DEF FindItems
  <2>2. todo'[p] = u \o Tail(s)
    BY <1>1, <2>1, Replaced
  <2>3. u \o <<>> = u
    BY <1>8, NothingAdded
  <2> QED
    BY <1>3, <2>2, <2>3
<1>10. GoesThrough(u)
  <2>1. u # <<>> /\ Len(u) - 1 = Len(e)
    BY <1>8
  <2>2. \A n \in 1..Len(e) : u[n].do \in LineSteps /\ u[n].item \in Platform
    BY <1>5, <1>6, <1>8 DEF LineSteps, OfLine
  <2>3. \A n \in 1..Len(e) : \A m \in 1..(n - 1) : Apart(u[m], u[n])
    <3> SUFFICES ASSUME NEW n \in 1..Len(e), NEW m \in 1..(n - 1) PROVE Apart(u[m], u[n])
      OBVIOUS
    <3>1. m \in 1..Len(e)
      BY <1>8
    <3>2. e[m].item # e[n].item /\ u[m] = e[m] /\ u[n] = e[n]
      BY <1>6, <1>8, <3>1
    <3> QED
      BY <3>2 DEF Apart
  <2> QED
    BY <1>7, <1>8, <2>1, <2>2, <2>3 DEF GoesThrough
<1>11. \A n \in 1..(Len(u) - 1) : u[n].do = "setReserving" /\ u[n].item \in open
  BY <1>6, <1>8
<1> QED
  BY <1>1, <1>3, <1>9, <1>10, <1>11

\* The plan of a partial refund.
LEMMA PartCallForm ==
  ASSUME NEW S \in RefundKeys, NEW u, u = <<DoSet("refund", S)>> \o Each("setRefunded", S)
  PROVE  /\ u \in Seq(HandlerSteps) /\ PartCall(u)
         /\ \A n \in 1..Len(u) : u[n].do = "refund" \/ (u[n].do = "setRefunded" /\ u[n].item \in S)
<1>1. PICK a, e : a = DoSet("refund", S) /\ e = Each("setRefunded", S) /\ u = <<a>> \o e
  OBVIOUS
<1>2. "refund" \in StepKinds /\ "setRefunded" \in StepKinds /\ 0 \in Nat
      /\ NoItem \in Items \cup {NoItem} /\ S \in SUBSET (Items \cup {NoItem})
  BY KeysAreTyped DEF StepKinds
<1>3. a \in HandlerSteps /\ a.do = "refund" /\ a.of = S
  BY <1>1, <1>2, StepsAreTyped, ZenonT(60)
<1>4. /\ e \in Seq(HandlerSteps)
      /\ \A n \in 1..Len(e) : e[n].do = "setRefunded" /\ e[n].item \in S
      /\ \A n \in 1..Len(e) : \A m \in 1..(n - 1) : e[m].item # e[n].item
      /\ Marked(e) = S
  BY <1>1, <1>2, EachCovers
<1>5. u \in Seq(HandlerSteps) /\ u # <<>> /\ u[1] = a /\ Tail(u) = e /\ Len(u) = Len(e) + 1
      /\ Len(e) \in Nat /\ \A n \in 1..Len(u) : n # 1 => n - 1 \in 1..Len(e) /\ u[n] = e[n - 1]
  <2>1. <<a>> \in Seq(HandlerSteps) /\ Len(<<a>>) = 1 /\ <<a>>[1] = a
    BY <1>3
  <2>2. /\ u \in Seq(HandlerSteps) /\ Len(u) = Len(e) + 1 /\ Len(e) \in Nat /\ u[1] = a
        /\ \A n \in 1..Len(u) : n # 1 => n - 1 \in 1..Len(e) /\ u[n] = e[n - 1]
    BY <1>1, <1>4, <2>1
  <2>3. u # <<>>
    BY <2>2
  <2>4. Tail(u) = e
    <3>1. /\ Tail(u) \in Seq(HandlerSteps) /\ Len(Tail(u)) = Len(e)
          /\ \A k \in 1..Len(e) : Tail(u)[k] = u[k + 1]
      BY <2>2, <2>3
    <3>2. \A k \in 1..Len(e) : k + 1 \in 1..Len(u) /\ k + 1 # 1 /\ (k + 1) - 1 = k
      BY <2>2
    <3>3. \A k \in 1..Len(e) : Tail(u)[k] = e[k]
      BY <2>2, <3>1, <3>2
    <3> QED
      BY <1>4, <3>1, <3>3
  <2> QED
    BY <2>2, <2>3, <2>4
<1>6. Marking(e)
  BY <1>4 DEF Marking
<1>7. PartCall(u)
  BY <1>3, <1>4, <1>5, <1>6 DEF PartCall
<1>8. \A n \in 1..Len(u) : u[n].do = "refund" \/ (u[n].do = "setRefunded" /\ u[n].item \in S)
  BY <1>3, <1>4, <1>5
<1> QED
  BY <1>5, <1>7, <1>8

\* The plan of a full refund.
LEMMA FullCallForm ==
  ASSUME NEW u, u = <<DoSet("refund", FullKey), Do("setIntentRefunded"), Do("refundAll")>>
  PROVE  u \in Seq(HandlerSteps) /\ FullCall(u)
<1>1. PICK a, b, c : /\ a = DoSet("refund", FullKey) /\ b = Do("setIntentRefunded")
                     /\ c = Do("refundAll") /\ u = <<a, b, c>>
  OBVIOUS
<1>2. "refund" \in StepKinds /\ 0 \in Nat /\ NoItem \in Items \cup {NoItem}
      /\ FullKey \in RefundKeys
  BY KeysAreTyped DEF StepKinds
<1>3. a \in HandlerSteps /\ a.do = "refund" /\ a.of = FullKey
  BY <1>1, <1>2, StepsAreTyped
<1>4. /\ b \in HandlerSteps /\ b.do = "setIntentRefunded"
      /\ c \in HandlerSteps /\ c.do = "refundAll"
  BY <1>1, PlainStep DEF StepKinds
<1>5. u \in Seq(HandlerSteps) /\ u # <<>> /\ u[1] = a /\ Tail(u) = <<b, c>>
  BY <1>1, <1>3, <1>4
<1>6. Len(<<b, c>>) = 2 /\ <<b, c>>[1] = b /\ <<b, c>>[2] = c
  OBVIOUS
<1> QED
  BY <1>3, <1>4, <1>5, <1>6 DEF FullCall, FullMarks

\* The lines that were lost: what partialRefund picks up.
Lost == {i \in Items : items[i].status = "FAILED"}

\* How a refund goes on, from plan s to plan u.
RefundGoesOn(s, u) ==
  \/ u = <<>>
  \/ Head(s).do = "findFailed" /\ Len(u) = 1 /\ u[1].do = "findPaid" /\ u[1].of = Lost
  \/ /\ Head(s).do = "findPaid" /\ Len(u) = 1 /\ u[1].do = "readIntent"
     /\ Total(Head(s).of) >= Captured
  \/ /\ Head(s).do = "findPaid" /\ PartCall(u)
     /\ \A n \in 1..Len(u) : \/ u[n].do = "refund"
                             \/ u[n].do = "setRefunded" /\ u[n].item \in Head(s).of
  \/ Head(s).do = "readIntent" /\ FullCall(u)
  \/ Head(s).do = "refund" /\ u = Tail(s) /\ (Marking(u) \/ FullMarks(u))
  \/ Head(s).do = "setRefunded" /\ u = Tail(s) /\ Marking(u)
  \/ /\ Head(s).do = "setIntentRefunded" /\ u = Tail(s)
     /\ Len(u) = 1 /\ u[1].do = "refundAll"

\* A handler whose plan is one step goes on to what replaces it.
LEMMA AloneGoes ==
  ASSUME StateTyped, NEW p \in Everyone, Form(todo[p]), todo[p] # <<>>,
         Head(todo[p]).do \in {"findItems", "checkItems"} \cup AloneKinds,
         NEW new \in Seq(HandlerSteps), Replace(p, new)
  PROVE  todo'[p] = new
<1>1. PICK s \in Seq(HandlerSteps) : s = todo[p]
  BY DEF StateTyped
<1>2. Tail(s) = <<>>
  BY <1>1, HeadTells
<1>3. todo'[p] = new \o Tail(s)
  BY <1>1, Replaced
<1>4. new \o <<>> = new
  BY NothingAdded
<1> QED
  BY <1>2, <1>3, <1>4

\* The steps of a refund, one after the other.
LEMMA RefundGoes ==
  ASSUME Safe, NEW p \in Everyone, Form(todo[p]), todo[p] # <<>>,
         Continue(p), Head(todo[p]).do \in RefundKinds
  PROVE  RefundGoesOn(todo[p], todo'[p])
<1>0. StateTyped
  BY DEF Safe
<1>1. PICK s \in Seq(HandlerSteps) : s = todo[p] /\ s # <<>>
  BY DEF Safe, StateTyped
<1>2. PICK t \in HandlerSteps : t = Head(s) /\ t = Cur(p)
  BY <1>1, HeadAndTail DEF Cur
<1>3. <<>> \in Seq(HandlerSteps)
  OBVIOUS
<1>4. CASE FindFailed(p)
  <2>1. t.do = "findFailed"
    BY <1>2, <1>4 DEF FindFailed, At, Cur
  <2>2. CASE Replace(p, <<>>)
    BY <1>0, <1>1, <1>2, <1>3, <2>1, <2>2, AloneGoes DEF AloneKinds, RefundGoesOn
  <2>3. CASE Replace(p, <<DoSet("findPaid", Lost)>>)
    <3>1. PICK a : a = DoSet("findPaid", Lost)
      OBVIOUS
    <3>2. a \in HandlerSteps /\ a.do = "findPaid" /\ a.of = Lost
      <4>1. PICK S \in RefundKeys : S = Lost
        BY KeysAreTyped DEF Lost
      <4>2. "findPaid" \in StepKinds /\ 0 \in Nat /\ NoItem \in Items \cup {NoItem}
        BY DEF StepKinds
      <4>3. a = DoSet("findPaid", S)
        BY <3>1, <4>1
      <4>4. a \in HandlerSteps /\ a.do = "findPaid" /\ a.of = S
        BY <4>2, <4>3, StepsAreTyped
      <4> QED
        BY <4>1, <4>4
    <3>3. PICK u : u = <<a>>
      OBVIOUS
    <3>4. u \in Seq(HandlerSteps) /\ Len(u) = 1 /\ u[1] = a
      BY <3>2, <3>3
    <3>5. todo'[p] = u
      BY <1>0, <1>1, <1>2, <2>1, <2>3, <3>1, <3>3, <3>4, AloneGoes DEF AloneKinds
    <3> QED
      BY <1>1, <1>2, <2>1, <3>2, <3>4, <3>5 DEF RefundGoesOn
  <2> QED
    BY <1>4, <2>2, <2>3 DEF FindFailed, Lost
<1>5. CASE FindPaid(p)
  <2>1. t.do = "findPaid" /\ t.of \in RefundKeys
    BY <1>2, <1>5 DEF FindPaid, At, Cur, HandlerSteps
  <2>2. CASE Replace(p, <<>>)
    BY <1>0, <1>1, <1>2, <1>3, <2>1, <2>2, AloneGoes DEF AloneKinds, RefundGoesOn
  <2>3. CASE Replace(p, <<Do("readIntent")>>) /\ Total(t.of) >= Captured
    <3>1. PICK a, u : a = Do("readIntent") /\ u = <<a>>
      OBVIOUS
    <3>2. a \in HandlerSteps /\ a.do = "readIntent"
      BY <3>1, PlainStep DEF StepKinds
    <3>3. u \in Seq(HandlerSteps) /\ Len(u) = 1 /\ u[1] = a
      BY <3>1, <3>2
    <3>4. todo'[p] = u
      BY <1>0, <1>1, <1>2, <2>1, <2>3, <3>1, <3>3, AloneGoes DEF AloneKinds
    <3> QED
      BY <1>1, <1>2, <2>1, <2>3, <3>2, <3>3, <3>4 DEF RefundGoesOn
  <2>4. CASE Replace(p, <<DoSet("refund", t.of)>> \o Each("setRefunded", t.of))
    <3>1. PICK u : u = <<DoSet("refund", t.of)>> \o Each("setRefunded", t.of)
      OBVIOUS
    <3>2. /\ u \in Seq(HandlerSteps) /\ PartCall(u)
          /\ \A n \in 1..Len(u) : \/ u[n].do = "refund"
                                  \/ u[n].do = "setRefunded" /\ u[n].item \in t.of
      BY <2>1, <3>1, PartCallForm
    <3>3. todo'[p] = u
      BY <1>0, <1>1, <1>2, <2>1, <2>4, <3>1, <3>2, AloneGoes DEF AloneKinds
    <3> QED
      BY <1>1, <1>2, <2>1, <3>2, <3>3 DEF RefundGoesOn
  <2> QED
    BY <1>2, <1>5, <2>2, <2>3, <2>4 DEF FindPaid
<1>6. CASE ReadIntent(p)
  <2>1. t.do = "readIntent"
    BY <1>2, <1>6 DEF ReadIntent, At, Cur
  <2>2. CASE Replace(p, <<>>)
    BY <1>0, <1>1, <1>2, <1>3, <2>1, <2>2, AloneGoes DEF AloneKinds, RefundGoesOn
  <2>3. CASE Replace(p, <<DoSet("refund", FullKey), Do("setIntentRefunded"), Do("refundAll")>>)
    <3>1. PICK u : u = <<DoSet("refund", FullKey), Do("setIntentRefunded"), Do("refundAll")>>
      OBVIOUS
    <3>2. u \in Seq(HandlerSteps) /\ FullCall(u)
      BY <3>1, FullCallForm
    <3>3. todo'[p] = u
      BY <1>0, <1>1, <1>2, <2>1, <2>3, <3>1, <3>2, AloneGoes DEF AloneKinds
    <3> QED
      BY <1>1, <1>2, <2>1, <3>2, <3>3 DEF RefundGoesOn
  <2> QED
    BY <1>6, <2>2, <2>3 DEF ReadIntent
<1>7. ASSUME Replace(p, <<>>) PROVE todo'[p] = Tail(s)
  <2>1. todo'[p] = <<>> \o Tail(s) /\ Tail(s) \in Seq(HandlerSteps)
    BY <1>0, <1>1, <1>7, Replaced, HeadAndTail
  <2> QED
    BY <2>1, NothingAdded
<1>8. CASE CallRefund(p)
  <2>1. t.do = "refund"
    BY <1>2, <1>8 DEF CallRefund, At, Cur
  <2>2. Marking(Tail(s)) \/ FullMarks(Tail(s))
    BY <1>1, <1>2, <2>1, HeadTells
  <2>3. Replace(p, <<>>) \/ todo' = [todo EXCEPT ![p] = <<>>]
    BY <1>8 DEF CallRefund, Done
  <2>4. CASE Replace(p, <<>>)
    BY <1>1, <1>2, <1>7, <2>1, <2>2, <2>4 DEF RefundGoesOn
  <2>5. CASE todo' = [todo EXCEPT ![p] = <<>>]
    <3>1. todo'[p] = <<>>
      BY <1>0, <2>5 DEF StateTyped
    <3> QED
      BY <3>1 DEF RefundGoesOn
  <2> QED
    BY <2>3, <2>4, <2>5
<1>9. CASE SetRefunded(p)
  <2>1. t.do = "setRefunded" /\ Replace(p, <<>>)
    BY <1>2, <1>9 DEF SetRefunded, At, Cur, Done
  <2>2. Marking(Tail(s))
    BY <1>1, <1>2, <2>1, HeadTells
  <2> QED
    BY <1>1, <1>2, <1>7, <2>1, <2>2 DEF RefundGoesOn
<1>10. CASE SetIntentRefunded(p)
  <2>1. t.do = "setIntentRefunded" /\ Replace(p, <<>>)
    BY <1>2, <1>10 DEF SetIntentRefunded, At, Cur, Done
  <2>2. Len(Tail(s)) = 1 /\ Tail(s)[1].do = "refundAll"
    BY <1>1, <1>2, <2>1, HeadTells
  <2> QED
    BY <1>1, <1>2, <1>7, <2>1, <2>2 DEF RefundGoesOn
<1>11. CASE RefundAll(p)
  <2>1. t.do = "refundAll" /\ Replace(p, <<>>)
    BY <1>2, <1>11 DEF RefundAll, At, Cur, Done
  <2> QED
    BY <1>0, <1>1, <1>2, <1>3, <2>1, AloneGoes DEF AloneKinds, RefundGoesOn
<1>12. ASSUME \/ MarkPaid(p) \/ Start(p) \/ FindItems(p)
              \/ SetReserving(p) \/ Reserve(p) \/ SetReserved(p) \/ Confirm(p) \/ SetConfirmed(p)
              \/ ReadAttempts(p) \/ SetRetry(p) \/ SetFailed(p) \/ CheckItems(p)
              \/ CompleteSession(p) \/ ResetFailed(p)
       PROVE  FALSE
  BY <1>12, Zenon DEF MarkPaid, Start, FindItems, SetReserving, Reserve, SetReserved, Confirm,
     SetConfirmed, SetStatus, ReadAttempts, SetRetry, SetFailed, CheckItems,
     CompleteSession, ResetFailed, At, RefundKinds
<1> QED
  BY <1>4, <1>5, <1>6, <1>8, <1>9, <1>10, <1>11, <1>12 DEF Continue

\* A plan of a refund is a plan, and of a refund.
LEMMA RefundStaysOne ==
  ASSUME NEW s, NEW u \in Seq(HandlerSteps), RefundGoesOn(s, u)
  PROVE  Form(u) /\ (u = <<>> \/ Head(u).do \in RefundKinds)
<1>1. CASE u = <<>>
  BY <1>1, ShortForms
<1>2. CASE u # <<>>
  <2>1. Head(u) = u[1] /\ Len(u) >= 1 /\ 1 \in 1..Len(u)
    BY <1>2
  <2>2. Alone(u) \/ PartCall(u) \/ FullCall(u) \/ Marking(u) \/ FullMarks(u)
    BY <1>2 DEF RefundGoesOn, Alone, AloneKinds
  <2>3. u[1].do \in RefundKinds
    BY <1>2, <2>1 DEF RefundGoesOn, PartCall, FullCall, Marking, FullMarks, RefundKinds
  <2> QED
    BY <2>1, <2>2, <2>3 DEF Form
<1> QED
  BY <1>1, <1>2

\* Every step of a handler leads from a plan to a plan.
LEMMA FormsFollow ==
  ASSUME Safe, Formed, NEW p \in Everyone, Continue(p), todo' \in [Everyone -> Seq(HandlerSteps)]
  PROVE  GoesOn(todo[p], todo'[p]) /\ \A q \in Everyone : q # p => todo'[q] = todo[q]
<1>0. StateTyped
  BY DEF Safe
<1>1. PICK s \in Seq(HandlerSteps) : s = todo[p]
  BY DEF Safe, StateTyped
<1>2. s # <<>> /\ Form(s) /\ Head(s) = Cur(p) /\ Head(s) \in HandlerSteps
  <2>1. s # <<>>
    BY <1>1 DEF Continue, MarkPaid, Start, FindItems, SetReserving, Reserve, SetReserved,
       SetConfirmed, SetStatus, Confirm, ReadAttempts, SetRetry, SetFailed, CheckItems,
       CompleteSession, ResetFailed, FindFailed, FindPaid, ReadIntent, CallRefund,
       SetRefunded, SetIntentRefunded, RefundAll, At
  <2> QED
    BY <1>1, <2>1, HeadAndTail DEF Formed, Cur
<1>3. \A q \in Everyone : q # p => todo'[q] = todo[q]
  <2>1. (\E new : Replace(p, new)) \/ todo' = [todo EXCEPT ![p] = <<>>]
    BY DEF Continue, MarkPaid, Start, FindItems, SetReserving, Reserve, Refuse, SetReserved,
       SetConfirmed, SetStatus, Confirm, ReadAttempts, SetRetry, SetFailed, CheckItems,
       CompleteSession, ResetFailed, FindFailed, FindPaid, ReadIntent, CallRefund,
       SetRefunded, SetIntentRefunded, RefundAll, Done
  <2> QED
    BY <1>0, <2>1, Replaced DEF StateTyped
<1>4. CASE Head(s).do \in LeadKinds
  <2>1. MarkPaid(p) \/ Start(p) \/ ResetFailed(p)
    BY <1>2, <1>4 DEF Continue, FindItems, SetReserving, Reserve, SetReserved,
       SetConfirmed, SetStatus, Confirm, ReadAttempts, SetRetry, SetFailed, CheckItems,
       CompleteSession, FindFailed, FindPaid, ReadIntent, CallRefund,
       SetRefunded, SetIntentRefunded, RefundAll, At, Cur, LeadKinds
  <2>2. todo'[p] = <<>> \/ LeadsIn(todo'[p])
    BY <1>0, <1>1, <1>2, <2>1, LeadGoes
  <2>3. Form(todo'[p])
    BY <2>2, ShortForms DEF Form
  <2> QED
    BY <1>1, <1>3, <1>4, <2>3 DEF GoesOn, LeadKinds, RefundKinds
<1>5. CASE Head(s).do = "findItems"
  <2>1. FindItems(p)
    BY <1>2, <1>5 DEF Continue, MarkPaid, Start, ResetFailed, SetReserving, Reserve, SetReserved,
       SetConfirmed, SetStatus, Confirm, ReadAttempts, SetRetry, SetFailed, CheckItems,
       CompleteSession, FindFailed, FindPaid, ReadIntent, CallRefund,
       SetRefunded, SetIntentRefunded, RefundAll, At, Cur
  <2>2. Form(todo'[p])
    BY <1>0, <1>1, <1>2, <2>1, FindItemsGoes DEF Form
  <2> QED
    BY <1>1, <1>3, <1>5, <2>2 DEF GoesOn, RefundKinds
<1>6. CASE Head(s).do \in LineSteps
  <2>1. GoesThrough(s) /\ Cur(p).item \in Items
    <3>1. GoesThrough(s)
      BY <1>2, <1>6, HeadTells
    <3>2. Len(s) # 1 /\ Len(s) \in Nat /\ Len(s) >= 1 /\ Head(s) = s[1]
      BY <1>2, <1>6, <3>1, HeadAndTail DEF GoesThrough, LineSteps, OfLine
    <3>3. \A N \in Nat : N >= 1 /\ N # 1 => 1 \in 1..(N - 1)
      OBVIOUS
    <3>4. 1 \in 1..(Len(s) - 1)
      BY <3>2, <3>3, Zenon
    <3> QED
      BY <1>2, <3>1, <3>2, <3>4 DEF GoesThrough, Platform
  <2>2. PICK new \in Seq(HandlerSteps) : Replace(p, new) /\ Follows(new, Head(s))
    BY <1>2, <1>6, <2>1, LineGoes
  <2>3. todo'[p] = new \o Tail(s)
    BY <1>0, <1>1, <2>2, Replaced
  <2>4. GoesThrough(new \o Tail(s))
    BY <1>6, <2>1, <2>2, LinesGoOn DEF Follows
  <2> QED
    BY <1>1, <1>3, <1>6, <2>3, <2>4 DEF GoesOn, Form, LineSteps, OfLine, RefundKinds
<1>7. CASE Head(s).do \in {"checkItems", "completeSession"}
  <2>1. PICK a \in HandlerSteps : a = Do("completeSession") /\ a.do = "completeSession"
    BY PlainStep DEF StepKinds
  <2>2. Replace(p, <<>>) \/ Replace(p, <<a>>)
    BY <1>2, <1>7, <2>1 DEF Continue, MarkPaid, Start, ResetFailed, FindItems, SetReserving, Reserve,
       SetReserved, SetConfirmed, SetStatus, Confirm, ReadAttempts, SetRetry, SetFailed, CheckItems,
       CompleteSession, FindFailed, FindPaid, ReadIntent, CallRefund,
       SetRefunded, SetIntentRefunded, RefundAll, At, Cur, Done
  <2>3. <<>> \in Seq(HandlerSteps) /\ <<a>> \in Seq(HandlerSteps)
    OBVIOUS
  <2>4. todo'[p] = <<>> \/ todo'[p] = <<a>>
    BY <1>0, <1>1, <1>2, <1>7, <2>2, <2>3, AloneGoes DEF AloneKinds
  <2>5. Form(todo'[p])
    BY <2>1, <2>4, ShortForms DEF AloneKinds
  <2> QED
    BY <1>1, <1>3, <1>7, <2>5 DEF GoesOn, RefundKinds
<1>8. CASE Head(s).do \in RefundKinds
  <2>1. RefundGoesOn(s, todo'[p]) /\ todo'[p] \in Seq(HandlerSteps)
    BY <1>1, <1>2, <1>8, RefundGoes
  <2> QED
    BY <1>1, <1>3, <2>1, RefundStaysOne DEF GoesOn
<1>9. Head(s).do = "resetFailed" => Head(s).do \in LeadKinds
  BY <1>2, HeadTells
<1> QED
  BY <1>2, <1>4, <1>5, <1>6, <1>7, <1>8, <1>9
     DEF HandlerSteps, StepKinds, LeadKinds, LineSteps, OfLine, RefundKinds

\* What a handler begins with.
Opening(p, s) ==
  /\ s \in Seq(HandlerSteps) /\ Form(s)
  /\ \A n \in 1..Len(s) :
       /\ s[n].do \in LeadKinds \cup {"findItems", "findFailed", "readIntent"}
       /\ s[n].do = "readIntent" => "full" \in AdminRoles
  /\ p \in Admins /\ "retry" \notin AdminRoles => s # <<>> /\ Head(s).do \in RefundKinds

\* The worker and the administrators begin with a plan.
LEMMA OpeningsAreForms ==
  ASSUME \/ TakeJob \/ RunRetry \/ RunCompensate
         \/ \E p \in Admins : AdminRetries(p) \/ AdminRefunds(p)
  PROVE  \E p \in Everyone : \E s \in Seq(HandlerSteps) : Begin(p, s) /\ Opening(p, s)
<1>1. PICK a, b, c, d, e, f :
        /\ a = Do("markPaid") /\ b = Do("start") /\ c = Do("findItems")
        /\ d = Do("findFailed") /\ e = Do("resetFailed") /\ f = Do("readIntent")
  OBVIOUS
<1>2. /\ \A x \in {a, b, c, d, e, f} : x \in HandlerSteps
      /\ a.do = "markPaid" /\ b.do = "start" /\ c.do = "findItems"
      /\ d.do = "findFailed" /\ e.do = "resetFailed" /\ f.do = "readIntent"
  BY <1>1, PlainStep DEF StepKinds
<1>3. ASSUME NEW p \in Everyone, NEW x \in {d, f}, x = f => "full" \in AdminRoles
      PROVE  <<x>> \in Seq(HandlerSteps) /\ Opening(p, <<x>>)
  <2>1. PICK s : s = <<x>>
    OBVIOUS
  <2>2. x \in HandlerSteps /\ x.do \in {"findFailed", "readIntent"} /\ (x.do = "readIntent" => "full" \in AdminRoles)
    BY <1>2, <1>3
  <2>3. s \in Seq(HandlerSteps) /\ Len(s) = 1 /\ s[1] = x /\ Head(s) = x /\ s # <<>>
    BY <2>1, <2>2
  <2>4. Form(s)
    BY <2>2, <2>3 DEF Form, Alone, AloneKinds
  <2> QED
    BY <2>1, <2>2, <2>3, <2>4 DEF Opening, RefundKinds
<1>4. ASSUME NEW p \in Everyone, p \notin Admins \/ "retry" \in AdminRoles,
             NEW s \in {<<a, b, c>>, <<c>>, <<e, c>>}, s = <<e, c>> => "retry" \in AdminRoles
      PROVE  s \in Seq(HandlerSteps) /\ Opening(p, s)
  <2>1. CASE s = <<a, b, c>>
    <3>1. s \in Seq(HandlerSteps) /\ Len(s) = 3 /\ s[1] = a /\ s[2] = b /\ s[3] = c /\ s # <<>>
      BY <1>2, <2>1
    <3>2. LeadsIn(s)
      BY <1>2, <3>1 DEF LeadsIn, LeadKinds
    <3> QED
      BY <1>2, <1>4, <3>1, <3>2 DEF Opening, Form, LeadKinds
  <2>2. CASE s = <<c>>
    <3>1. s \in Seq(HandlerSteps) /\ Len(s) = 1 /\ s[1] = c /\ s # <<>>
      BY <1>2, <2>2
    <3>2. LeadsIn(s)
      BY <1>2, <3>1 DEF LeadsIn, LeadKinds
    <3> QED
      BY <1>2, <1>4, <3>1, <3>2 DEF Opening, Form, LeadKinds
  <2>3. CASE s = <<e, c>>
    <3>1. s \in Seq(HandlerSteps) /\ Len(s) = 2 /\ s[1] = e /\ s[2] = c /\ s # <<>>
      BY <1>2, <2>3
    <3>2. LeadsIn(s)
      BY <1>2, <1>4, <2>3, <3>1 DEF LeadsIn, LeadKinds
    <3> QED
      BY <1>2, <1>4, <3>1, <3>2 DEF Opening, Form, LeadKinds
  <2> QED
    BY <2>1, <2>2, <2>3
<1>5. Worker \in Everyone /\ Worker \notin Admins /\ \A p \in Admins : p \in Everyone
  BY FulfillmentAssumption DEF Everyone
<1>6. CASE TakeJob \/ RunRetry
  <2>1. Begin(Worker, <<a, b, c>>) \/ Begin(Worker, <<c>>)
    BY <1>1, <1>6 DEF TakeJob, RunRetry
  <2>2. <<a, b, c>> # <<e, c>> /\ <<c>> # <<e, c>>
    OBVIOUS
  <2> QED
    BY <1>4, <1>5, <2>1, <2>2
<1>7. CASE RunCompensate
  <2>1. Begin(Worker, <<d>>)
    BY <1>1, <1>7 DEF RunCompensate
  <2> QED
    BY <1>2, <1>3, <1>5, <2>1
<1>8. ASSUME NEW p \in Admins, AdminRetries(p) \/ AdminRefunds(p)
      PROVE  \E s \in Seq(HandlerSteps) : Begin(p, s) /\ Opening(p, s)
  <2>1. \/ "retry" \in AdminRoles /\ Begin(p, <<e, c>>)
        \/ Begin(p, <<d>>)
        \/ "full" \in AdminRoles /\ Begin(p, <<f>>)
    BY <1>1, <1>8 DEF AdminRetries, AdminRefunds
  <2>2. CASE "retry" \in AdminRoles /\ Begin(p, <<e, c>>)
    BY <1>4, <1>5, <2>2
  <2>3. CASE Begin(p, <<d>>)
    BY <1>2, <1>3, <1>5, <2>3
  <2>4. CASE "full" \in AdminRoles /\ Begin(p, <<f>>)
    BY <1>3, <1>5, <2>4
  <2> QED
    BY <2>1, <2>2, <2>3, <2>4
<1> QED
  BY <1>5, <1>6, <1>7, <1>8

\* A handler begins, and the others are left alone.
LEMMA Opens ==
  ASSUME StateTyped, NEW p \in Everyone, NEW s, Begin(p, s)
  PROVE  /\ todo[p] = <<>> /\ todo'[p] = s
         /\ \A q \in Everyone : q # p => todo'[q] = todo[q]
         /\ UNCHANGED <<session, intent, items, orders, booked, refunds, faults>>
BY DEF StateTyped, Begin, outside

\* A fault ends handlers, and is counted.
LEMMA FaultsEnd ==
  ASSUME StateTyped, Crash \/ \E p \in Everyone : Throw(p)
  PROVE  /\ \A q \in Everyone : todo'[q] = todo[q] \/ todo'[q] = <<>>
         /\ items' = items /\ session' = session /\ intent' = intent
         /\ faults' = faults + 1
<1>1. CASE Crash
  BY <1>1 DEF Crash, Fault
<1>2. ASSUME NEW p \in Everyone, Throw(p)
      PROVE  /\ \A q \in Everyone : todo'[q] = todo[q] \/ todo'[q] = <<>>
             /\ items' = items /\ session' = session /\ intent' = intent
             /\ faults' = faults + 1
  BY <1>2 DEF Throw, Fault, StateTyped
<1> QED
  BY <1>1, <1>2

Planned == Formed /\ AdminsRefund

\* Every handler follows a plan, in every scene.
LEMMA PlansStay == Safe /\ Planned /\ [Next]_vars => Planned'
<1> SUFFICES ASSUME Safe, Formed, AdminsRefund, [Next]_vars PROVE Formed' /\ AdminsRefund'
  BY DEF Planned
<1>0. StateTyped /\ StateTyped'
  BY NextKeepsSafe DEF Safe
<1>1. ASSUME NEW p \in Everyone, Form(todo'[p]), \A q \in Everyone : q # p => todo'[q] = todo[q],
             p \in Admins /\ "retry" \notin AdminRoles =>
               todo'[p] = <<>> \/ Head(todo'[p]).do \in RefundKinds
      PROVE  Formed' /\ AdminsRefund'
  <2>1. \A q \in Everyone : Form(todo'[q])
    BY <1>1 DEF Formed
  <2>2. Formed'
    BY <2>1 DEF Formed, Form, LeadsIn, GoesThrough, Apart, Alone, Marking, Marked, PartCall,
       FullMarks, FullCall
  <2>3. AdminsRefund'
    BY <1>1 DEF AdminsRefund, Everyone
  <2> QED
    BY <2>2, <2>3
<1>2. ASSUME \A q \in Everyone : todo'[q] = todo[q] \/ todo'[q] = <<>>
      PROVE  Formed' /\ AdminsRefund'
  <2>1. \A q \in Everyone : Form(todo'[q])
    BY <1>2, ShortForms DEF Formed
  <2>2. Formed'
    BY <2>1 DEF Formed, Form, LeadsIn, GoesThrough, Apart, Alone, Marking, Marked, PartCall,
       FullMarks, FullCall
  <2>3. AdminsRefund'
    BY <1>2 DEF AdminsRefund, Everyone
  <2> QED
    BY <2>2, <2>3
<1>3. CASE \/ TakeJob \/ RunRetry \/ RunCompensate
           \/ \E p \in Admins : AdminRetries(p) \/ AdminRefunds(p)
  <2>1. PICK p \in Everyone, s \in Seq(HandlerSteps) : Begin(p, s) /\ Opening(p, s)
    BY <1>3, OpeningsAreForms
  <2>2. todo'[p] = s /\ \A q \in Everyone : q # p => todo'[q] = todo[q]
    BY <1>0, <2>1, Opens
  <2> QED
    BY <1>1, <2>1, <2>2 DEF Opening
<1>4. CASE FinishJob \/ UNCHANGED vars
  BY <1>2, <1>4 DEF FinishJob, vars
<1>5. CASE Crash \/ \E p \in Everyone : Throw(p)
  BY <1>0, <1>2, <1>5, FaultsEnd
<1>6. ASSUME NEW p \in Everyone, Continue(p) PROVE Formed' /\ AdminsRefund'
  <2>1. GoesOn(todo[p], todo'[p]) /\ \A q \in Everyone : q # p => todo'[q] = todo[q]
    BY <1>0, <1>6, FormsFollow DEF StateTyped
  <2>2. todo[p] # <<>>
    BY <1>6 DEF Continue, MarkPaid, Start, FindItems, SetReserving, Reserve, SetReserved,
       SetConfirmed, SetStatus, Confirm, ReadAttempts, SetRetry, SetFailed, CheckItems,
       CompleteSession, ResetFailed, FindFailed, FindPaid, ReadIntent, CallRefund,
       SetRefunded, SetIntentRefunded, RefundAll, At
  <2> QED
    BY <1>1, <2>1, <2>2 DEF GoesOn, AdminsRefund
<1> QED
  BY <1>3, <1>4, <1>5, <1>6 DEF Next

\* Nobody has a plan when the payment has just succeeded.
LEMMA NoPlans == Init => Planned
<1> SUFFICES ASSUME Init PROVE Planned
  OBVIOUS
<1>1. \A p \in Everyone : todo[p] = <<>>
  BY DEF Init
<1> QED
  BY <1>1, ShortForms DEF Planned, Formed, AdminsRefund, Everyone

(***************************************************************************)
(* One order for a line.                                                   *)
(***************************************************************************)

\* Once a line has an order at TC, the worker is not about to reserve it again, and
\* will not pick it up: its row says so, or will before the worker gets there.
OnceTaken(i) ==
  /\ \A n \in 1..Len(todo[Worker]) :
       todo[Worker][n].item = i => todo[Worker][n].do \notin Takes
  /\ items[i].status \in {"none", "PENDING", "RESERVING"} =>
       \E n \in 1..Len(todo[Worker]) :
         todo[Worker][n].do = "setReserved" /\ todo[Worker][n].item = i

OrdersOnce ==
  faults = 0 /\ "retry" \notin AdminRoles =>
    \A i \in Items : orders[i] # 0 =>
      orders[i] = 1 /\ (Provider[i] = "TC" => OnceTaken(i))

\* Plans that do not begin with a step for a line have none.
LEMMA NoLines ==
  ASSUME NEW s \in Seq(HandlerSteps), Form(s), s # <<>> => Head(s).do \notin LineSteps
  PROVE  \A n \in 1..Len(s) : s[n].do \notin LineSteps
<1>1. CASE s = <<>>
  BY <1>1
<1>2. CASE s # <<>>
  <2>1. Len(s) \in Nat /\ Len(s) >= 1 /\ Head(s) = s[1] /\ Len(Tail(s)) = Len(s) - 1
        /\ \A k \in 1..(Len(s) - 1) : Tail(s)[k] = s[k + 1]
    BY <1>2, HeadAndTail
  <2>2. CASE LeadsIn(s)
    BY <2>1, <2>2 DEF LeadsIn, LeadKinds, LineSteps, OfLine
  <2>3. CASE GoesThrough(s)
    <3>1. Len(s) = 1
      BY <1>2, <2>1, <2>3 DEF GoesThrough
    <3> QED
      BY <2>3, <3>1 DEF GoesThrough, LineSteps, OfLine
  <2>4. CASE Alone(s)
    BY <2>4 DEF Alone, AloneKinds, LineSteps, OfLine
  <2>5. CASE Marking(s)
    BY <2>5 DEF Marking, LineSteps, OfLine
  <2>6. CASE FullMarks(s)
    BY <2>6 DEF FullMarks, LineSteps, OfLine
  <2>7. \A n \in 1..Len(s) : n = 1 \/ (n - 1 \in 1..Len(Tail(s)) /\ s[n] = Tail(s)[n - 1])
    BY <2>1
  <2>8. CASE PartCall(s)
    BY <2>7, <2>8 DEF PartCall, Marking, LineSteps, OfLine
  <2>9. CASE FullCall(s)
    <3>1. \A n \in 1..Len(Tail(s)) : Tail(s)[n].do \in {"setIntentRefunded", "refundAll"}
      <4>1. PICK r : r = Tail(s)
        OBVIOUS
      <4>2. Len(r) = 2 /\ r[1].do = "setIntentRefunded" /\ r[2].do = "refundAll"
        BY <2>9, <4>1 DEF FullCall, FullMarks
      <4>3. \A n \in 1..Len(r) : n = 1 \/ n = 2
        BY <4>2
      <4> QED
        BY <4>1, <4>2, <4>3
    <3> QED
      BY <2>7, <2>9, <3>1 DEF FullCall, LineSteps, OfLine
  <2> QED
    BY <2>2, <2>3, <2>4, <2>5, <2>6, <2>8, <2>9 DEF Form
<1> QED
  BY <1>1, <1>2

\* Refunds mark rows REFUNDED, and create no order.
LEMMA RefundTouches ==
  ASSUME Safe, NEW p \in Everyone, Continue(p), Head(todo[p]).do \in RefundKinds
  PROVE  /\ orders' = orders /\ faults' = faults
         /\ \A i \in Items : items'[i].status \in {items[i].status, "REFUNDED"}
<1>1. CASE FindFailed(p) \/ FindPaid(p) \/ ReadIntent(p) \/ CallRefund(p) \/ SetIntentRefunded(p)
  BY <1>1 DEF FindFailed, FindPaid, ReadIntent, CallRefund, SetIntentRefunded, outside
<1>2. CASE SetRefunded(p)
  <2>1. orders' = orders /\ faults' = faults
    BY <1>2 DEF SetRefunded, outside
  <2>2. PICK j, r : /\ r = [items EXCEPT ![j].status = "REFUNDED"]
                    /\ items' = [r EXCEPT ![j].refunded = TRUE]
    BY <1>2 DEF SetRefunded
  <2>3. /\ r \in [Items -> Row]
        /\ \A i \in Items : IF i = j THEN r[i].status = "REFUNDED" ELSE r[i] = items[i]
    BY <2>2, ZenonT(60) DEF Safe, StateTyped, Row, ItemStatuses
  <2>4. \A i \in Items : items'[i].status = r[i].status
    BY <2>2, <2>3 DEF Row
  <2> QED
    BY <2>1, <2>3, <2>4
<1>3. CASE RefundAll(p)
  <2>1. orders' = orders /\ faults' = faults
    BY <1>3 DEF RefundAll, outside
  <2>2. ASSUME NEW i \in Items PROVE items'[i].status \in {items[i].status, "REFUNDED"}
    <3>1. PICK r \in Row : r = items[i]
      BY DEF Safe, StateTyped
    <3>2. items'[i] = r \/ items'[i] = [r EXCEPT !.status = "REFUNDED", !.refunded = TRUE]
      BY <1>3, <3>1 DEF RefundAll
    <3> QED
      BY <3>1, <3>2 DEF Row
  <2> QED
    BY <2>1, <2>2
<1>4. ASSUME \/ MarkPaid(p) \/ Start(p) \/ FindItems(p)
             \/ SetReserving(p) \/ Reserve(p) \/ SetReserved(p) \/ Confirm(p) \/ SetConfirmed(p)
             \/ ReadAttempts(p) \/ SetRetry(p) \/ SetFailed(p) \/ CheckItems(p)
             \/ CompleteSession(p) \/ ResetFailed(p)
      PROVE  FALSE
  BY <1>4, Zenon DEF MarkPaid, Start, FindItems, SetReserving, Reserve, SetReserved, Confirm,
     SetConfirmed, SetStatus, ReadAttempts, SetRetry, SetFailed, CheckItems,
     CompleteSession, ResetFailed, At, RefundKinds
<1> QED
  BY <1>1, <1>2, <1>3, <1>4 DEF Continue

\* What a step for a line does to the row, and to orders.
LEMMA LineTouches ==
  ASSUME Safe, NEW p \in Everyone, Continue(p), NEW i \in Items, i = Cur(p).item,
         Cur(p).do \in LineSteps
  PROVE  /\ \A j \in Items : j # i => items'[j] = items[j] /\ orders'[j] = orders[j]
         /\ orders' = orders \/ (Cur(p).do = "reserve" /\ orders' = AfterReserve(i))
         /\ Cur(p).do = "setReserving" => items'[i].status = "RESERVING"
         /\ Cur(p).do = "setReserved" => items'[i].status = "RESERVED"
         /\ Cur(p).do = "setConfirmed" => items'[i].status = "CONFIRMED"
         /\ Cur(p).do = "setFailed" => items'[i].status = "FAILED"
         /\ Cur(p).do \in {"reserve", "confirm", "fail", "setRetry"} =>
              items'[i].status = items[i].status
         /\ faults' = faults /\ refunds' = refunds
<1>1. items \in [Items -> Row] /\ orders \in [Items -> Nat]
  BY OrdersAreNumbers DEF Safe, StateTyped
<1>2. CASE SetReserving(p)
  BY <1>1, <1>2 DEF SetReserving, At, Cur, outside, Row
<1>3. CASE SetReserved(p)
  BY <1>1, <1>3 DEF SetReserved, SetStatus, At, Cur, outside, Row
<1>4. CASE SetConfirmed(p)
  BY <1>1, <1>4 DEF SetConfirmed, SetStatus, At, Cur, outside, Row
<1>5. CASE SetRetry(p)
  <2>1. PICK r, n : /\ r = [items EXCEPT ![i].attempts = n]
                    /\ items' = [r EXCEPT ![i].retry = TRUE]
    BY <1>5 DEF SetRetry
  <2>2. /\ \A j \in Items : j # i => r[j] = items[j]
        /\ r[i].status = items[i].status /\ DOMAIN r = Items
        /\ r[i] = [items[i] EXCEPT !.attempts = n]
    BY <1>1, <2>1 DEF Row
  <2>3. /\ \A j \in Items : j # i => items'[j] = items[j]
        /\ items'[i].status = items[i].status
    BY <1>1, <2>1, <2>2 DEF Row
  <2> QED
    BY <1>5, <2>3, Zenon DEF SetRetry, At, Cur, outside
<1>6. CASE SetFailed(p)
  <2>1. PICK r, q, n : /\ r = [items EXCEPT ![i].attempts = n]
                       /\ q = [r EXCEPT ![i].status = "FAILED"]
                       /\ items' = [q EXCEPT ![i].escalated = TRUE]
    BY <1>6 DEF SetFailed
  <2>2. /\ \A j \in Items : j # i => r[j] = items[j]
        /\ DOMAIN r = Items /\ r[i] = [items[i] EXCEPT !.attempts = n]
    BY <1>1, <2>1
  <2>3. /\ \A j \in Items : j # i => q[j] = items[j]
        /\ DOMAIN q = Items /\ q[i] = [r[i] EXCEPT !.status = "FAILED"]
    BY <1>1, <2>1, <2>2
  <2>4. /\ \A j \in Items : j # i => items'[j] = items[j]
        /\ items'[i] = [q[i] EXCEPT !.escalated = TRUE]
    BY <1>1, <2>1, <2>3
  <2>5. items'[i].status = "FAILED"
    BY <1>1, <2>2, <2>3, <2>4 DEF Row
  <2> QED
    BY <1>6, <2>4, <2>5, Zenon DEF SetFailed, At, Cur, outside
<1>7. CASE Reserve(p)
  BY <1>1, <1>7 DEF Reserve, Refuse, AfterReserve, At, Cur
<1>8. CASE Confirm(p) \/ ReadAttempts(p)
  BY <1>1, <1>8 DEF Confirm, ReadAttempts, At, Cur, outside
<1>9. ASSUME \/ MarkPaid(p) \/ Start(p) \/ FindItems(p) \/ CheckItems(p) \/ CompleteSession(p)
             \/ ResetFailed(p) \/ FindFailed(p) \/ FindPaid(p) \/ ReadIntent(p)
             \/ CallRefund(p) \/ SetRefunded(p) \/ SetIntentRefunded(p) \/ RefundAll(p)
      PROVE  FALSE
  BY <1>9, Zenon DEF MarkPaid, Start, FindItems, CheckItems, CompleteSession, ResetFailed, FindFailed,
     FindPaid, ReadIntent, CallRefund, SetRefunded, SetIntentRefunded, RefundAll, At, Cur,
     LineSteps, OfLine
<1> QED
  BY <1>2, <1>3, <1>4, <1>5, <1>6, <1>7, <1>8, <1>9 DEF Continue

\* What a plan that begins with a step for a line is made of, when steps new have
\* taken the place of that step.
Mixed(s, new, u) ==
  /\ Head(s).item \in Platform /\ GoesThrough(u) /\ u \in Seq(HandlerSteps)
  /\ \A n \in 1..Len(u) :
       \/ \E m \in 1..Len(new) : u[n] = new[m]
       \/ u[n].do = "checkItems"
       \/ /\ u[n].do \in LineSteps
          /\ \E m \in 2..(Len(s) - 1) : u[n] = s[m]
          /\ u[n].item = Head(s).item => Head(s).do = "setReserved" /\ u[n].do = "confirm"
  /\ \A m \in 1..Len(new) : \E n \in 1..Len(u) : u[n] = new[m]
  /\ \A m \in 2..Len(s) : \E n \in 1..Len(u) : u[n] = s[m]

LEMMA ThroughParts ==
  ASSUME NEW s \in Seq(HandlerSteps), GoesThrough(s), Head(s).do \in LineSteps,
         NEW new \in Seq(HandlerSteps), Follows(new, Head(s)), NEW u, u = new \o Tail(s)
  PROVE  Mixed(s, new, u)
<1>1. PICK r : r = Tail(s)
  OBVIOUS
<1>2. /\ Len(s) \in Nat /\ Len(s) >= 1 /\ Head(s) = s[1] /\ s # <<>>
      /\ r \in Seq(HandlerSteps) /\ Len(r) = Len(s) - 1 /\ Len(new) \in Nat
      /\ \A k \in 1..(Len(s) - 1) : r[k] = s[k + 1]
  BY <1>1, HeadAndTail DEF GoesThrough
<1>3. Len(s) # 1
  BY <1>2 DEF GoesThrough, LineSteps, OfLine
<1>4. /\ GoesThrough(u)
      /\ \A n \in 1..(Len(r) - 1) : r[n].item = Head(s).item =>
           Head(s).do = "setReserved" /\ r[n].do = "confirm"
  BY <1>1, LinesGoOn DEF Follows
<1>5. Head(s).item \in Platform
  <2>1. 1 \in 1..(Len(s) - 1)
    BY <1>2, <1>3
  <2> QED
    BY <1>2, <2>1 DEF GoesThrough
<1>6. /\ u \in Seq(HandlerSteps) /\ Len(u) = Len(new) + Len(r)
      /\ \A n \in 1..Len(new) : u[n] = new[n]
      /\ \A n \in 1..Len(r) : u[n + Len(new)] = r[n]
  BY <1>1, <1>2
<1>7. ASSUME NEW n \in 1..Len(u)
      PROVE  \/ \E m \in 1..Len(new) : u[n] = new[m]
             \/ u[n].do = "checkItems"
             \/ /\ u[n].do \in LineSteps
                /\ \E m \in 2..(Len(s) - 1) : u[n] = s[m]
                /\ u[n].item = Head(s).item =>
                     Head(s).do = "setReserved" /\ u[n].do = "confirm"
  <2>1. CASE n <= Len(new)
    <3>1. n \in 1..Len(new)
      BY <1>2, <1>6, <2>1
    <3> QED
      BY <1>6, <3>1
  <2>2. CASE n > Len(new)
    <3>1. PICK k : k = n - Len(new)
      OBVIOUS
    <3>2. k \in 1..Len(r) /\ n = k + Len(new)
      BY <1>2, <1>6, <2>2, <3>1
    <3>3. u[n] = r[k] /\ k + 1 \in 2..Len(s) /\ r[k] = s[k + 1]
      <4>1. u[k + Len(new)] = r[k]
        BY <1>6, <3>2
      <4>2. k \in 1..(Len(s) - 1) /\ k + 1 \in 2..Len(s)
        BY <1>2, <3>2
      <4>3. u[n] = r[k]
        BY <3>2, <4>1, Zenon
      <4> QED
        BY <1>2, <4>2, <4>3
    <3>4. CASE k = Len(r)
      <4>0. k + 1 = Len(s)
        BY <1>2, <3>2, <3>4
      <4>1. u[n] = s[Len(s)]
        BY <3>3, <4>0, Zenon
      <4> QED
        BY <4>1 DEF GoesThrough
    <3>5. CASE k # Len(r)
      <4>1. k \in 1..(Len(r) - 1) /\ k + 1 \in 2..(Len(s) - 1) /\ k + 1 \in 1..(Len(s) - 1)
        BY <1>2, <3>2, <3>5
      <4>2. s[k + 1].do \in LineSteps
        BY <4>1 DEF GoesThrough
      <4> QED
        BY <1>4, <3>3, <4>1, <4>2
    <3> QED
      BY <3>4, <3>5
  <2> QED
    BY <1>2, <1>6, <2>1, <2>2
<1>8. \A m \in 1..Len(new) : \E n \in 1..Len(u) : u[n] = new[m]
  <2>1. \A m \in 1..Len(new) : m \in 1..Len(u)
    BY <1>2, <1>6
  <2> QED
    BY <1>6, <2>1
<1>9. ASSUME NEW m \in 2..Len(s) PROVE \E n \in 1..Len(u) : u[n] = s[m]
  <2>1. m - 1 \in 1..Len(r) /\ (m - 1) + Len(new) \in 1..Len(u) /\ r[m - 1] = s[(m - 1) + 1]
        /\ (m - 1) + 1 = m
    BY <1>2, <1>6
  <2> QED
    BY <1>6, <2>1
<1> QED
  BY <1>4, <1>5, <1>6, <1>7, <1>8, <1>9 DEF Mixed

\* Rows and plans change so that what was ordered is not taken again.
LEMMA OrdersStay ==
  ASSUME OrdersOnce, faults = 0, orders' = orders,
         "retry" \notin AdminRoles => \A i \in Items : Provider[i] = "TC" /\ orders[i] # 0 /\ OnceTaken(i) => OnceTaken(i)'
  PROVE  OrdersOnce'
BY DEF OrdersOnce

\* An administrator's refund, at any time, leaves the worker's plan alone.
LEMMA AdminsKeepOrders ==
  ASSUME Safe, Planned, OrdersOnce, faults = 0, NEW p \in Admins, Continue(p),
         "retry" \notin AdminRoles, todo[p] # <<>>,
         \A q \in Everyone : q # p => todo'[q] = todo[q]
  PROVE  OrdersOnce'
<1>1. Head(todo[p]).do \in RefundKinds
  BY DEF Planned, AdminsRefund
<1>2. p \in Everyone /\ todo'[Worker] = todo[Worker]
  BY FulfillmentAssumption DEF Everyone
<1>3. orders' = orders /\ \A i \in Items : items'[i].status \in {items[i].status, "REFUNDED"}
  BY <1>1, <1>2, RefundTouches
<1>4. \A i \in Items : OnceTaken(i) => OnceTaken(i)'
  BY <1>2, <1>3 DEF OnceTaken
<1> QED
  BY <1>3, <1>4, OrdersStay

\* The worker's steps for a line.
LEMMA LinesKeepOrders ==
  ASSUME Safe, Planned, OrdersOnce, faults = 0, Continue(Worker), todo[Worker] # <<>>,
         "retry" \notin AdminRoles, Cur(Worker).do \in LineSteps
  PROVE  OrdersOnce'
<1>1. PICK s \in Seq(HandlerSteps) : s = todo[Worker] /\ s # <<>> /\ Form(s)
  BY DEF Safe, StateTyped, Everyone, Planned, Formed
<1>2. Head(s) = Cur(Worker) /\ Worker \in Everyone /\ GoesThrough(s)
      /\ Len(s) \in Nat /\ Len(s) >= 1 /\ Head(s) = s[1]
  <2>1. Head(s) = Cur(Worker) /\ Worker \in Everyone
    BY <1>1 DEF Cur, Everyone
  <2> QED
    BY <1>1, <2>1, HeadTells, HeadAndTail
<1>3. Cur(Worker).item \in Items
  <2>1. Len(s) # 1
    BY <1>2 DEF GoesThrough, LineSteps, OfLine
  <2>2. \A N \in Nat : N >= 1 /\ N # 1 => 1 \in 1..(N - 1)
    OBVIOUS
  <2>3. 1 \in 1..(Len(s) - 1)
    BY <1>2, <2>1, <2>2, Zenon
  <2> QED
    BY <1>2, <2>3 DEF GoesThrough, Platform
<1>4. PICK new \in Seq(HandlerSteps) :
        /\ Replace(Worker, new) /\ Follows(new, Cur(Worker))
        /\ orders' = orders \/ \E n \in 1..Len(new) : new[n].do = "setReserved"
  BY <1>2, <1>3, LineGoes
<1>5. PICK u : u = new \o Tail(s) /\ u = todo'[Worker]
  BY <1>1, <1>2, <1>4, Replaced DEF Safe
<1>6. PICK i \in Items : i = Cur(Worker).item
  BY <1>3
<1>h. PICK h : h = Cur(Worker).do
  OBVIOUS
<1>7. /\ \A n \in 1..Len(u) :
           \/ \E m \in 1..Len(new) : u[n] = new[m]
           \/ u[n].do = "checkItems"
           \/ /\ u[n].do \in LineSteps
              /\ \E m \in 2..(Len(s) - 1) : u[n] = s[m]
              /\ u[n].item = i => h = "setReserved" /\ u[n].do = "confirm"
      /\ \A m \in 1..Len(new) : \E n \in 1..Len(u) : u[n] = new[m]
      /\ \A m \in 2..Len(s) : \E n \in 1..Len(u) : u[n] = s[m]
  <2>1. Follows(new, Head(s)) /\ Head(s).do \in LineSteps
    BY <1>2, <1>4
  <2>2. Mixed(s, new, u)
    BY <1>1, <1>2, <1>5, <2>1, ThroughParts
  <2>3. Head(s).item = i /\ Head(s).do = h
    BY <1>2, <1>6, <1>h
  <2> QED
    BY <2>2, <2>3 DEF Mixed
<1>8. /\ \A j \in Items : j # i => items'[j] = items[j] /\ orders'[j] = orders[j]
      /\ orders' = orders \/ (h = "reserve" /\ orders' = AfterReserve(i))
      /\ h = "setReserving" => items'[i].status = "RESERVING"
      /\ h = "setReserved" => items'[i].status = "RESERVED"
      /\ h = "setConfirmed" => items'[i].status = "CONFIRMED"
      /\ h = "setFailed" => items'[i].status = "FAILED"
      /\ h \in {"reserve", "confirm", "fail", "setRetry"} => items'[i].status = items[i].status
  BY <1>2, <1>6, <1>h, LineTouches
<1>9. /\ \A n \in 1..Len(new) : /\ new[n].do \in LineSteps /\ new[n].item = i
                                /\ new[n].do \in Takes => h = "setReserving"
  BY <1>4, <1>6, <1>h DEF Follows
<1>10. h \in LineSteps
  BY <1>6, <1>h
<1>11. ASSUME NEW j \in Items, j # i, OnceTaken(j) PROVE OnceTaken(j)'
  <2>1. \A n \in 1..Len(u) : u[n].item = j => u[n].do \notin Takes
    <3> SUFFICES ASSUME NEW n \in 1..Len(u), u[n].item = j PROVE u[n].do \notin Takes
      OBVIOUS
    <3>1. CASE \E m \in 2..(Len(s) - 1) : u[n] = s[m]
      <4>1. PICK m \in 1..Len(s) : u[n] = s[m]
        BY <1>2, <3>1
      <4> QED
        BY <1>1, <1>11, <4>1 DEF OnceTaken
    <3> QED
      <4>1. CASE \E m \in 1..Len(new) : u[n] = new[m]
        BY <1>9, <1>11, <4>1
      <4>2. CASE u[n].do = "checkItems"
        BY <4>2 DEF Takes
      <4> QED
        BY <1>7, <3>1, <4>1, <4>2
  <2>2. ASSUME items'[j].status \in {"none", "PENDING", "RESERVING"}
        PROVE  \E n \in 1..Len(u) : u[n].do = "setReserved" /\ u[n].item = j
    <3>1. PICK m \in 1..Len(s) : s[m].do = "setReserved" /\ s[m].item = j
      BY <1>1, <1>8, <1>11, <2>2 DEF OnceTaken
    <3>2. m # 1
      BY <1>2, <1>6, <1>h, <1>11, <3>1
    <3>3. m \in 2..Len(s)
      BY <1>2, <3>1, <3>2
    <3> QED
      BY <1>7, <3>1, <3>3
  <2> QED
    BY <1>5, <2>1, <2>2 DEF OnceTaken
<1>12. ASSUME OnceTaken(i), orders' = orders PROVE OnceTaken(i)'
  <2>1. h \notin Takes
    <3>1. 1 \in 1..Len(s)
      BY <1>2
    <3> QED
      BY <1>1, <1>2, <1>6, <1>h, <1>12, <3>1 DEF OnceTaken
  <2>2. \A n \in 1..Len(u) : u[n].item = i => u[n].do \notin Takes
    BY <1>7, <1>9, <2>1 DEF Takes
  <2>3. ASSUME items'[i].status \in {"none", "PENDING", "RESERVING"}
        PROVE  \E n \in 1..Len(u) : u[n].do = "setReserved" /\ u[n].item = i
    <3>1. h \in {"confirm", "fail", "setRetry"}
      BY <1>8, <1>10, <2>1, <2>3 DEF LineSteps, OfLine, Takes
    <3>2. PICK m \in 1..Len(s) : s[m].do = "setReserved" /\ s[m].item = i
      BY <1>1, <1>8, <1>12, <2>3, <3>1 DEF OnceTaken
    <3>3. m # 1
      BY <1>2, <1>6, <1>h, <3>1, <3>2
    <3>4. m \in 2..Len(s)
      BY <1>2, <3>2, <3>3
    <3> QED
      BY <1>7, <3>2, <3>4
  <2> QED
    BY <1>5, <2>2, <2>3 DEF OnceTaken
<1>13. CASE orders' = orders
  BY <1>11, <1>12, <1>13, OrdersStay
<1>14. CASE orders' # orders
  <2>1. h = "reserve" /\ orders' = AfterReserve(i)
    BY <1>8, <1>14
  <2>2. ASSUME Provider[i] = "TC" PROVE orders[i] = 0
    <3>1. 1 \in 1..Len(s) /\ s[1].item = i /\ s[1].do \in Takes
      <4>1. \A N \in Nat : N >= 1 => 1 \in 1..N
        OBVIOUS
      <4>2. 1 \in 1..Len(s)
        BY <1>2, <4>1, Zenon
      <4> QED
        BY <1>2, <1>6, <1>h, <2>1, <4>2, Zenon DEF Takes
    <3>2. ~OnceTaken(i)
      BY <1>1, <3>1 DEF OnceTaken
    <3> QED
      BY <2>2, <3>2 DEF OrdersOnce
  <2>3. orders'[i] = 1
    <3>1. orders \in [Items -> 0..MaxOrders] /\ MaxOrders \in Nat \ {0}
      BY FulfillmentAssumption DEF Safe, StateTyped
    <3> QED
      BY <1>14, <2>1, <2>2, <3>1 DEF AfterReserve, CallsOut
  <2>4. OnceTaken(i)'
    <3>1. \A n \in 1..Len(u) : u[n].item = i => u[n].do \notin Takes
      BY <1>7, <1>9, <2>1 DEF Takes
    <3>2. PICK m \in 1..Len(new) : new[m].do = "setReserved"
      BY <1>4, <1>14
    <3>3. \E n \in 1..Len(u) : u[n].do = "setReserved" /\ u[n].item = i
      <4>1. PICK n \in 1..Len(u) : u[n] = new[m]
        BY <1>7
      <4>2. new[m].item = i
        BY <1>9
      <4> QED
        BY <3>2, <4>1, <4>2
    <3> QED
      BY <1>5, <3>1, <3>3 DEF OnceTaken
  <2>5. ASSUME NEW j \in Items, orders'[j] # 0
        PROVE  orders'[j] = 1 /\ (Provider[j] = "TC" => OnceTaken(j)')
    <3>1. CASE j = i
      BY <2>3, <2>4, <3>1
    <3>2. CASE j # i
      BY <1>8, <1>11, <2>5, <3>2 DEF OrdersOnce
    <3> QED
      BY <3>1, <3>2
  <2> QED
    BY <2>5 DEF OrdersOnce
<1> QED
  BY <1>13, <1>14

\* What has been taken stays taken when the worker has no steps for lines, neither
\* before nor after, and rows only change to REFUNDED.
LEMMA QuietWorker ==
  ASSUME NEW i \in Items, OnceTaken(i),
         \A n \in 1..Len(todo[Worker]) : todo[Worker][n].do \notin LineSteps,
         \A n \in 1..Len(todo'[Worker]) : todo'[Worker][n].do \notin LineSteps,
         items'[i].status \in {items[i].status, "REFUNDED"}
  PROVE  OnceTaken(i)'
<1>1. items[i].status \notin {"none", "PENDING", "RESERVING"}
  BY DEF OnceTaken, LineSteps, OfLine
<1>2. \A n \in 1..Len(todo'[Worker]) : todo'[Worker][n].do \notin Takes
  BY DEF Takes, LineSteps, OfLine
<1> QED
  BY <1>1, <1>2 DEF OnceTaken

\* What leads in is no step for a line.
LEMMA LeadsNoLine ==
  ASSUME NEW u \in Seq(HandlerSteps), LeadsIn(u)
  PROVE  Head(u).do \notin LineSteps
<1>1. Len(u) \in Nat /\ Len(u) >= 1 /\ Head(u) = u[1]
  BY HeadAndTail DEF LeadsIn
<1>2. \A N \in Nat : N >= 1 => N = 1 \/ 1 \in 1..(N - 1)
  OBVIOUS
<1>3. Len(u) = 1 \/ 1 \in 1..(Len(u) - 1)
  BY <1>1, <1>2, Zenon
<1> QED
  BY <1>1, <1>3 DEF LeadsIn, LeadKinds, LineSteps, OfLine

\* A step of the worker that is not for a line.
LEMMA OthersKeepOrders ==
  ASSUME Safe, Planned, OrdersOnce, faults = 0, Continue(Worker), todo[Worker] # <<>>,
         "retry" \notin AdminRoles, Cur(Worker).do \notin LineSteps,
         todo' \in [Everyone -> Seq(HandlerSteps)]
  PROVE  OrdersOnce'
<1>0. Worker \in Everyone /\ StateTyped
  BY DEF Everyone, Safe
<1>1. PICK s \in Seq(HandlerSteps) :
        s = todo[Worker] /\ s # <<>> /\ Form(s) /\ Head(s) = Cur(Worker)
  BY <1>0 DEF StateTyped, Planned, Formed, Cur
<1>2. PICK u \in Seq(HandlerSteps) : u = todo'[Worker]
  BY <1>0
<1>3. \A n \in 1..Len(s) : s[n].do \notin LineSteps
  BY <1>1, NoLines
<1>4. Head(s).do # "resetFailed"
  BY <1>1, HeadTells
<1>5. GoesOn(s, u)
  BY <1>0, <1>1, <1>2, FormsFollow DEF Planned
<1>6. ASSUME orders' = orders, u # <<>> => Head(u).do \notin LineSteps,
             \A i \in Items : items'[i].status \in {items[i].status, "REFUNDED"}
      PROVE  OrdersOnce'
  <2>1. \A n \in 1..Len(u) : u[n].do \notin LineSteps
    BY <1>5, <1>6, NoLines DEF GoesOn
  <2>2. \A i \in Items : OnceTaken(i) => OnceTaken(i)'
    BY <1>1, <1>2, <1>3, <1>6, <2>1, QuietWorker
  <2> QED
    BY <1>6, <2>2, OrdersStay
<1>7. CASE MarkPaid(Worker)
  <2>1. orders' = orders /\ items' = items
    BY <1>7 DEF MarkPaid, outside
  <2>2. u = <<>> \/ LeadsIn(u)
    BY <1>0, <1>1, <1>2, <1>7, LeadGoes
  <2>3. u # <<>> => Head(u).do \notin LineSteps
    BY <2>2, LeadsNoLine
  <2> QED
    BY <1>6, <2>1, <2>3
<1>8. CASE Start(Worker)
  <2>1. orders' = orders
    BY <1>8 DEF Start, outside
  <2>2. u = <<>> \/ LeadsIn(u)
    BY <1>0, <1>1, <1>2, <1>8, LeadGoes
  <2>3. u # <<>> => Head(u).do \notin LineSteps
    BY <2>2, LeadsNoLine
  <2>4. \A n \in 1..Len(u) : u[n].do \notin LineSteps
    BY <1>5, <2>3, NoLines DEF GoesOn
  <2>5. ASSUME NEW i \in Items, OnceTaken(i) PROVE OnceTaken(i)'
    <3>1. items[i].status # "none"
      BY <1>1, <1>3, <2>5 DEF OnceTaken, LineSteps, OfLine
    <3>2. items' = items
      BY <1>8, <3>1 DEF Start
    <3> QED
      BY <1>1, <1>2, <1>3, <2>4, <2>5, <3>2, QuietWorker
  <2> QED
    BY <2>1, <2>5, OrdersStay
<1>9. CASE FindItems(Worker)
  <2>1. orders' = orders /\ items' = items
    BY <1>9 DEF FindItems, outside
  <2>2. /\ GoesThrough(u)
        /\ \A n \in 1..(Len(u) - 1) : items[u[n].item].status \in {"PENDING", "RESERVING"}
    BY <1>0, <1>1, <1>2, <1>9, FindItemsGoes
  <2>3. ASSUME NEW i \in Items, OnceTaken(i) PROVE OnceTaken(i)'
    <3>1. items[i].status \notin {"none", "PENDING", "RESERVING"}
      BY <1>1, <1>3, <2>3 DEF OnceTaken, LineSteps, OfLine
    <3>2. ASSUME NEW n \in 1..Len(u), u[n].item = i PROVE u[n].do \notin Takes
      <4>1. n = Len(u) \/ n \in 1..(Len(u) - 1)
        OBVIOUS
      <4> QED
        BY <2>2, <3>1, <3>2, <4>1 DEF GoesThrough, Takes
    <3> QED
      BY <1>2, <2>1, <3>1, <3>2 DEF OnceTaken
  <2> QED
    BY <2>1, <2>3, OrdersStay
<1>10. CASE CheckItems(Worker) \/ CompleteSession(Worker)
  <2>1. orders' = orders /\ items' = items /\ Head(s).do \in {"checkItems", "completeSession"}
    BY <1>1, <1>10 DEF CheckItems, CompleteSession, outside, At, Cur
  <2>2. PICK a \in HandlerSteps : a = Do("completeSession") /\ a.do = "completeSession"
    BY PlainStep DEF StepKinds
  <2>3. Replace(Worker, <<>>) \/ Replace(Worker, <<a>>)
    BY <1>10, <2>2 DEF CheckItems, CompleteSession, Done
  <2>4. <<>> \in Seq(HandlerSteps) /\ <<a>> \in Seq(HandlerSteps)
    OBVIOUS
  <2>5. u = <<>> \/ u = <<a>>
    BY <1>0, <1>1, <1>2, <2>1, <2>3, <2>4, AloneGoes DEF AloneKinds
  <2>6. Head(<<a>>) = a
    OBVIOUS
  <2>7. u # <<>> => Head(u).do \notin LineSteps
    BY <2>2, <2>5, <2>6 DEF LineSteps, OfLine
  <2> QED
    BY <1>6, <2>1, <2>7
<1>11. CASE Head(s).do \in RefundKinds
  <2>1. orders' = orders /\ \A i \in Items : items'[i].status \in {items[i].status, "REFUNDED"}
    BY <1>0, <1>1, <1>11, RefundTouches
  <2>2. u # <<>> => Head(u).do \notin LineSteps
    BY <1>5, <1>11 DEF GoesOn, RefundKinds, LineSteps, OfLine
  <2> QED
    BY <1>6, <2>1, <2>2
<1>12. \/ MarkPaid(Worker) \/ Start(Worker) \/ FindItems(Worker) \/ CheckItems(Worker)
       \/ CompleteSession(Worker) \/ Head(s).do \in RefundKinds
  BY <1>1, <1>4, ZenonT(60) DEF Continue, SetReserving, Reserve, SetReserved,
     SetConfirmed, SetStatus, Confirm, ReadAttempts, SetRetry, SetFailed, ResetFailed,
     FindFailed, FindPaid, ReadIntent, CallRefund,
     SetRefunded, SetIntentRefunded, RefundAll, At, Cur, LineSteps, OfLine, RefundKinds
<1> QED
  BY <1>7, <1>8, <1>9, <1>10, <1>11, <1>12

\* Handlers that go on or begin are no fault.
LEMMA NoFault ==
  ASSUME NEW p \in Everyone, Continue(p)
  PROVE  faults' = faults /\ todo[p] # <<>>
BY DEF Continue, MarkPaid, Start, FindItems, SetReserving, Reserve, SetReserved,
   SetConfirmed, SetStatus, Confirm, ReadAttempts, SetRetry, SetFailed, CheckItems,
   CompleteSession, ResetFailed, FindFailed, FindPaid, ReadIntent, CallRefund,
   SetRefunded, SetIntentRefunded, RefundAll, At

\* Every step keeps one order for a line.
LEMMA OrdersStayOnce == Safe /\ Planned /\ OrdersOnce /\ [Next]_vars => OrdersOnce'
<1> SUFFICES ASSUME Safe, Planned, OrdersOnce, [Next]_vars, faults' = 0, "retry" \notin AdminRoles
             PROVE  OrdersOnce'
  BY DEF OrdersOnce
<1>0. /\ StateTyped /\ todo' \in [Everyone -> Seq(HandlerSteps)] /\ faults \in Nat
      /\ Worker \in Everyone /\ todo[Worker] \in Seq(HandlerSteps)
  BY NextKeepsSafe DEF Safe, StateTyped, Everyone
<1>1. CASE \/ TakeJob \/ RunRetry \/ RunCompensate
           \/ \E p \in Admins : AdminRetries(p) \/ AdminRefunds(p)
  <2>1. PICK p \in Everyone, s \in Seq(HandlerSteps) : Begin(p, s) /\ Opening(p, s)
    BY <1>1, OpeningsAreForms
  <2>2. /\ todo[p] = <<>> /\ todo'[p] = s /\ \A q \in Everyone : q # p => todo'[q] = todo[q]
        /\ UNCHANGED <<items, orders, faults>>
    BY <1>0, <2>1, Opens
  <2>3. ASSUME NEW i \in Items, OnceTaken(i) PROVE OnceTaken(i)'
    <3>1. CASE p = Worker
      <4>1. \A n \in 1..Len(s) : s[n].do \notin LineSteps
        BY <2>1 DEF Opening, LeadKinds, LineSteps, OfLine
      <4>2. Len(<<>>) = 0
        OBVIOUS
      <4> QED
        BY <2>2, <2>3, <3>1, <4>1, <4>2, QuietWorker
    <3>2. CASE p # Worker
      BY <1>0, <2>2, <2>3, <3>2 DEF OnceTaken
    <3> QED
      BY <3>1, <3>2
  <2> QED
    BY <2>2, <2>3, OrdersStay
<1>2. CASE FinishJob \/ UNCHANGED vars
  BY <1>2 DEF FinishJob, vars, outside, OrdersOnce, OnceTaken
<1>3. CASE Crash \/ \E p \in Everyone : Throw(p)
  <2>1. faults' = faults + 1
    BY <1>0, <1>3, FaultsEnd
  <2> QED
    BY <1>0, <2>1
<1>4. ASSUME NEW p \in Everyone, Continue(p) PROVE OrdersOnce'
  <2>1. faults = 0 /\ todo[p] # <<>>
    BY <1>4, NoFault
  <2>2. CASE p = Worker
    BY <1>0, <1>4, <2>1, <2>2, LinesKeepOrders, OthersKeepOrders
  <2>3. CASE p # Worker
    <3>1. p \in Admins
      BY <2>3 DEF Everyone
    <3>2. \A q \in Everyone : q # p => todo'[q] = todo[q]
      BY <1>0, <1>4, FormsFollow DEF Planned
    <3> QED
      BY <1>4, <2>1, <3>1, <3>2, AdminsKeepOrders
  <2> QED
    BY <2>2, <2>3
<1> QED
  BY <1>1, <1>2, <1>3, <1>4 DEF Next

\* Nothing has been ordered yet.
LEMMA NoOrders == Init => OrdersOnce
BY DEF Init, OrdersOnce

(***************************************************************************)
(* Handlers in turn: while they do not overlap, what a handler has read is *)
(* still true when it acts on it.                                          *)
(***************************************************************************)
OneBusy == \A p, q \in Everyone : todo[p] # <<>> /\ todo[q] # <<>> => p = q

\* A handler begins when no other is in progress.
LEMMA NoneIsBusy ==
  ASSUME OneBusy, MaxOverlap = 1, NEW p \in Everyone, NEW s, Begin(p, s)
  PROVE  \A q \in Everyone : todo[q] = <<>>
<1> SUFFICES ASSUME NEW q \in Everyone, todo[q] # <<>> PROVE FALSE
  OBVIOUS
<1>1. Busy = {q}
  BY DEF OneBusy, Busy
<1>2. Cardinality(Busy) = 1
  BY <1>1, FS_Singleton
<1> QED
  BY <1>2 DEF Begin

\* One handler at a time.
LEMMA TurnsStay == MaxOverlap = 1 /\ Safe /\ Planned /\ OneBusy /\ [Next]_vars => OneBusy'
<1> SUFFICES ASSUME MaxOverlap = 1, Safe, Planned, OneBusy, [Next]_vars PROVE OneBusy'
  OBVIOUS
<1>0. StateTyped /\ todo' \in [Everyone -> Seq(HandlerSteps)]
  BY NextKeepsSafe DEF Safe, StateTyped
<1>1. CASE \/ TakeJob \/ RunRetry \/ RunCompensate
           \/ \E p \in Admins : AdminRetries(p) \/ AdminRefunds(p)
  <2>1. PICK p \in Everyone, s \in Seq(HandlerSteps) : Begin(p, s) /\ Opening(p, s)
    BY <1>1, OpeningsAreForms
  <2>2. /\ \A q \in Everyone : todo[q] = <<>>
        /\ \A q \in Everyone : q # p => todo'[q] = todo[q]
    BY <1>0, <2>1, NoneIsBusy, Opens
  <2> QED
    BY <2>2 DEF OneBusy
<1>2. CASE FinishJob \/ UNCHANGED vars
  BY <1>2 DEF FinishJob, vars, OneBusy
<1>3. CASE Crash \/ \E p \in Everyone : Throw(p)
  <2>1. \A q \in Everyone : todo'[q] = todo[q] \/ todo'[q] = <<>>
    BY <1>0, <1>3, FaultsEnd
  <2> QED
    BY <2>1 DEF OneBusy
<1>4. ASSUME NEW p \in Everyone, Continue(p) PROVE OneBusy'
  <2>1. todo[p] # <<>> /\ \A q \in Everyone : q # p => todo'[q] = todo[q]
    BY <1>0, <1>4, NoFault, FormsFollow DEF Planned
  <2> QED
    BY <2>1 DEF OneBusy
<1> QED
  BY <1>1, <1>2, <1>3, <1>4 DEF Next

\* What the other steps do to the rows.
LEMMA RowsChange ==
  ASSUME Safe, NEW p \in Everyone, Continue(p), NEW t, t = Cur(p), t.do \notin LineSteps
  PROVE  /\ t.do = "start" =>
              \/ items' = items
              \/ \A i \in Items : items[i].status = "none" /\ items'[i].status = "PENDING"
         /\ t.do = "resetFailed" => \A i \in Items :
              items'[i].status = IF items[i].status = "FAILED" THEN "PENDING" ELSE items[i].status
         /\ t.do = "setRefunded" => \A i \in Items :
              items'[i].status = IF i = t.item THEN "REFUNDED" ELSE items[i].status
         /\ t.do = "refundAll" => \A i \in Items :
              items'[i].status = IF items[i].status = "none" THEN "none" ELSE "REFUNDED"
         /\ t.do \notin {"start", "resetFailed", "setRefunded", "refundAll"} => items' = items
<1>0. items \in [Items -> Row]
  BY DEF Safe, StateTyped
<1>1. CASE Start(p)
  <2>1. t.do = "start"
    BY <1>1 DEF Start, At, Cur
  <2>2. items' # items => \A i \in Items :
          items[i].status = "none" /\ items'[i] = [NoRow EXCEPT !.status = "PENDING"]
    BY <1>1 DEF Start
  <2>3. [NoRow EXCEPT !.status = "PENDING"].status = "PENDING"
    BY DEF NoRow
  <2> QED
    BY <2>1, <2>2, <2>3
<1>2. CASE ResetFailed(p)
  <2>1. t.do = "resetFailed"
    BY <1>2 DEF ResetFailed, At, Cur
  <2>2. ASSUME NEW i \in Items
        PROVE  items'[i].status = IF items[i].status = "FAILED" THEN "PENDING" ELSE items[i].status
    <3>1. PICK r \in Row : r = items[i]
      BY <1>0
    <3>2. items'[i] = IF r.status # "FAILED" THEN r
                      ELSE [r EXCEPT !.status = "PENDING", !.attempts = 0,
                                     !.retry = FALSE, !.escalated = FALSE]
      BY <1>2, <3>1 DEF ResetFailed
    <3> QED
      BY <3>1, <3>2 DEF Row
  <2> QED
    BY <2>1, <2>2
<1>3. CASE SetRefunded(p)
  <2>0. t.do = "setRefunded"
    BY <1>3 DEF SetRefunded, At, Cur
  <2>1. PICK j, r : /\ j = t.item /\ r = [items EXCEPT ![j].status = "REFUNDED"]
                    /\ items' = [r EXCEPT ![j].refunded = TRUE]
    BY <1>3 DEF SetRefunded
  <2>2. DOMAIN r = Items /\ \A i \in Items :
          r[i] = IF i = j THEN [items[i] EXCEPT !.status = "REFUNDED"] ELSE items[i]
    BY <1>0, <2>1
  <2>3. \A i \in Items : items'[i] = IF i = j THEN [r[i] EXCEPT !.refunded = TRUE] ELSE r[i]
    BY <2>1, <2>2
  <2>4. ASSUME NEW i \in Items
        PROVE  items'[i].status = IF i = j THEN "REFUNDED" ELSE items[i].status
    <3>1. PICK a \in Row : a = items[i]
      BY <1>0
    <3>2. items'[i] = IF i = j THEN [[a EXCEPT !.status = "REFUNDED"] EXCEPT !.refunded = TRUE]
                      ELSE a
      BY <2>2, <2>3, <3>1
    <3> QED
      BY <3>1, <3>2 DEF Row
  <2> QED
    BY <2>0, <2>1, <2>4
<1>4. CASE RefundAll(p)
  <2>0. t.do = "refundAll"
    BY <1>4 DEF RefundAll, At, Cur
  <2>1. ASSUME NEW i \in Items
        PROVE  items'[i].status = IF items[i].status = "none" THEN "none" ELSE "REFUNDED"
    <3>1. PICK r \in Row : r = items[i]
      BY <1>0
    <3>2. items'[i] = IF r.status = "none" THEN r
                      ELSE [r EXCEPT !.status = "REFUNDED", !.refunded = TRUE]
      BY <1>4, <3>1 DEF RefundAll
    <3> QED
      BY <3>1, <3>2 DEF Row
  <2> QED
    BY <2>0, <2>1
<1>5. CASE \/ MarkPaid(p) \/ FindItems(p) \/ CheckItems(p) \/ CompleteSession(p)
           \/ FindFailed(p) \/ FindPaid(p) \/ ReadIntent(p) \/ CallRefund(p)
           \/ SetIntentRefunded(p)
  <2>1. t.do \notin {"start", "resetFailed", "setRefunded", "refundAll"}
    BY <1>5 DEF MarkPaid, FindItems, CheckItems, CompleteSession, FindFailed, FindPaid,
       ReadIntent, CallRefund, SetIntentRefunded, At, Cur
  <2>2. items' = items
    BY <1>5 DEF MarkPaid, FindItems, CheckItems, CompleteSession, FindFailed, FindPaid,
       ReadIntent, CallRefund, SetIntentRefunded
  <2> QED
    BY <2>1, <2>2
<1>6. ASSUME \/ SetReserving(p) \/ Reserve(p) \/ SetReserved(p) \/ Confirm(p) \/ SetConfirmed(p)
             \/ ReadAttempts(p) \/ SetRetry(p) \/ SetFailed(p)
      PROVE  FALSE
  BY <1>6 DEF SetReserving, Reserve, SetReserved, Confirm, SetConfirmed, SetStatus,
     ReadAttempts, SetRetry, SetFailed, At, Cur, LineSteps, OfLine
<1> QED
  BY <1>1, <1>2, <1>3, <1>4, <1>5, <1>6 DEF Continue

OpenStatuses == {"PENDING", "RESERVING", "RESERVED"}

\* An automatic refund is a full one when the lines lost are worth all that was paid.
Reached == "full" \notin AdminRoles => Captured <= Total(Lost)

\* A step finds the rows as they were when it was decided on.
StepIsRight(t) ==
  /\ t.do \in LineSteps => items[t.item].status \in OpenStatuses
  /\ t.do \in Takes => items[t.item].status \in {"PENDING", "RESERVING"}
  /\ t.do = "findPaid" => t.of = Lost
  /\ t.do = "setRefunded" => t.item \in Lost
  /\ t.do \in {"readIntent", "setIntentRefunded", "refundAll"} => Reached
PlanIsRight(p) == \A n \in 1..Len(todo[p]) : StepIsRight(todo[p][n])
StepsAreRight  == \A p \in Everyone : PlanIsRight(p)

\* Steps stay right as long as no row changes.
LEMMA QuietRows ==
  ASSUME items' = items, NEW t, StepIsRight(t)
  PROVE  StepIsRight(t)'
<1>1. Lost' = Lost
  BY DEF Lost
<1>2. Reached' = Reached
  BY <1>1 DEF Reached
<1> QED
  BY <1>1, <1>2 DEF StepIsRight

\* In turn, only the plan of the handler that goes on matters.
LEMMA RightAfter ==
  ASSUME OneBusy, NEW p \in Everyone, todo[p] # <<>>,
         \A q \in Everyone : q # p => todo'[q] = todo[q], PlanIsRight(p)'
  PROVE  StepsAreRight'
<1>1. ASSUME NEW q \in Everyone, q # p PROVE PlanIsRight(q)'
  <2>1. todo'[q] = <<>>
    BY <1>1 DEF OneBusy
  <2>2. Len(<<>>) = 0
    OBVIOUS
  <2> QED
    BY <2>1, <2>2 DEF PlanIsRight
<1> QED
  BY <1>1 DEF StepsAreRight

\* Steps for the lines.
LEMMA LinesAreRight ==
  ASSUME Safe, Planned, StepsAreRight, NEW p \in Everyone, Continue(p), todo[p] # <<>>,
         Cur(p).do \in LineSteps
  PROVE  PlanIsRight(p)'
<1>1. PICK s \in Seq(HandlerSteps) : s = todo[p] /\ s # <<>> /\ Form(s)
  BY DEF Safe, StateTyped, Planned, Formed
<1>2. Head(s) = Cur(p) /\ GoesThrough(s) /\ Len(s) \in Nat /\ Len(s) >= 1 /\ Head(s) = s[1]
  <2>1. Head(s) = Cur(p)
    BY <1>1 DEF Cur
  <2> QED
    BY <1>1, <2>1, HeadTells, HeadAndTail
<1>3. Cur(p).item \in Items /\ StepIsRight(Cur(p))
  <2>1. Len(s) # 1
    BY <1>2 DEF GoesThrough, LineSteps, OfLine
  <2>2. \A N \in Nat : N >= 1 /\ N # 1 => 1 \in 1..(N - 1) /\ 1 \in 1..N
    OBVIOUS
  <2>3. 1 \in 1..(Len(s) - 1) /\ 1 \in 1..Len(s)
    BY <1>2, <2>1, <2>2, Zenon
  <2>4. s[1].item \in Items
    BY <1>2, <2>3 DEF GoesThrough, Platform
  <2>5. StepIsRight(s[1])
    BY <1>1, <2>3 DEF StepsAreRight, PlanIsRight
  <2> QED
    BY <1>2, <2>4, <2>5
<1>4. PICK new \in Seq(HandlerSteps) : Replace(p, new) /\ Follows(new, Cur(p))
  BY <1>3, LineGoes
<1>5. PICK u : u = new \o Tail(s) /\ u = todo'[p]
  BY <1>1, <1>4, Replaced DEF Safe
<1>6. Mixed(s, new, u)
  BY <1>1, <1>2, <1>4, <1>5, ThroughParts
<1>7. PICK i \in Items : i = Cur(p).item
  BY <1>3
<1>8. PICK h : h = Cur(p).do
  OBVIOUS
<1>9. /\ \A j \in Items : j # i => items'[j] = items[j]
      /\ h = "setReserving" => items'[i].status = "RESERVING"
      /\ h = "setReserved" => items'[i].status = "RESERVED"
      /\ h \in {"reserve", "confirm", "fail", "setRetry"} => items'[i].status = items[i].status
  BY <1>7, <1>8, LineTouches
<1>10. h \in LineSteps /\ items[i].status \in OpenStatuses
  BY <1>3, <1>7, <1>8 DEF StepIsRight
<1>11. ASSUME NEW t, t.do \in LineSteps, t.item \in Items, items'[t.item].status \in OpenStatuses,
              t.do \in Takes => items'[t.item].status \in {"PENDING", "RESERVING"}
       PROVE  StepIsRight(t)'
  BY <1>11 DEF StepIsRight, LineSteps, OfLine
<1>12. ASSUME NEW m \in 1..Len(new) PROVE StepIsRight(new[m])'
  <2>1. /\ new[m].do \in LineSteps /\ new[m].item = i
        /\ new[m].do \in Takes => h = "setReserving"
        /\ h \notin {"setReserved", "setConfirmed", "setRetry", "setFailed"}
    <3>1. new # <<>>
      OBVIOUS
    <3> QED
      BY <1>4, <1>7, <1>8, <3>1 DEF Follows
  <2>2. /\ items'[i].status \in OpenStatuses
        /\ h = "setReserving" => items'[i].status = "RESERVING"
    BY <1>9, <1>10, <2>1 DEF LineSteps, OfLine, OpenStatuses
  <2> QED
    BY <1>11, <2>1, <2>2
<1>13. ASSUME NEW n \in 1..Len(u) PROVE StepIsRight(u[n])'
  <2>1. CASE \E m \in 1..Len(new) : u[n] = new[m]
    BY <1>12, <2>1
  <2>2. CASE u[n].do = "checkItems"
    BY <2>2 DEF StepIsRight, LineSteps, OfLine, Takes
  <2>3. ASSUME NEW m \in 2..(Len(s) - 1), u[n] = s[m], u[n].do \in LineSteps,
               u[n].item = Head(s).item => Head(s).do = "setReserved" /\ u[n].do = "confirm"
        PROVE  StepIsRight(u[n])'
    <3>1. m \in 1..Len(s) /\ m \in 1..(Len(s) - 1)
      BY <1>2
    <3>2. StepIsRight(u[n]) /\ u[n].item \in Items
      BY <1>1, <1>2, <2>3, <3>1 DEF StepsAreRight, PlanIsRight, GoesThrough, Platform
    <3>3. CASE u[n].item # i
      BY <1>9, <1>11, <2>3, <3>2, <3>3 DEF StepIsRight
    <3>4. CASE u[n].item = i
      <4>1. h = "setReserved" /\ u[n].do = "confirm"
        BY <1>2, <1>7, <1>8, <2>3, <3>4
      <4> QED
        BY <1>9, <1>11, <2>3, <3>4, <4>1 DEF OpenStatuses, Takes
    <3> QED
      BY <3>3, <3>4
  <2> QED
    BY <1>6, <2>1, <2>2, <2>3 DEF Mixed
<1> QED
  BY <1>5, <1>13 DEF PlanIsRight

\* Steps of a refund.
MarksOnly(u, S) ==
  \A n \in 1..Len(u) : \/ u[n].do = "refund"
                       \/ u[n].do = "setRefunded" /\ u[n].item \in S

LEMMA RefundsAreRight ==
  ASSUME Safe, Planned, StepsAreRight, NEW p \in Everyone, Continue(p), todo[p] # <<>>,
         Cur(p).do \in RefundKinds
  PROVE  PlanIsRight(p)'
<1>1. PICK s \in Seq(HandlerSteps) : s = todo[p] /\ s # <<>> /\ Form(s) /\ Head(s) = Cur(p)
  BY DEF Safe, StateTyped, Planned, Formed, Cur
<1>2. /\ Len(s) \in Nat /\ Len(s) >= 1 /\ Head(s) = s[1] /\ s[1] \in HandlerSteps
      /\ Tail(s) \in Seq(HandlerSteps) /\ Len(Tail(s)) = Len(s) - 1
      /\ \A k \in 1..(Len(s) - 1) : Tail(s)[k] = s[k + 1]
  BY <1>1, HeadAndTail
<1>3. PICK t \in HandlerSteps : t = Head(s)
  BY <1>2
<1>4. StepIsRight(t)
  <2>1. 1 \in 1..Len(s)
    BY <1>2
  <2> QED
    BY <1>1, <1>2, <1>3, <2>1 DEF StepsAreRight, PlanIsRight
<1>5. ASSUME NEW n \in 1..Len(Tail(s)) PROVE StepIsRight(Tail(s)[n])
  <2>1. n + 1 \in 1..Len(s) /\ Tail(s)[n] = s[n + 1]
    BY <1>2
  <2> QED
    BY <1>1, <2>1 DEF StepsAreRight, PlanIsRight
<1>6. PICK u : u = todo'[p]
  OBVIOUS
<1>7. RefundGoesOn(s, u)
  BY <1>1, <1>6, RefundGoes
<1>8. Cur(p).do \notin LineSteps
  BY DEF RefundKinds, LineSteps, OfLine
<1>9. CASE u = <<>>
  <2>1. Len(<<>>) = 0
    OBVIOUS
  <2> QED
    BY <1>6, <1>9, <2>1 DEF PlanIsRight
<1>10. CASE items' = items /\ u # <<>>
  <2>1. \A n \in 1..Len(u) : StepIsRight(u[n])
    <3>1. CASE t.do = "findFailed"
      <4>1. Len(u) = 1 /\ u[1].do = "findPaid" /\ u[1].of = Lost
        BY <1>3, <1>7, <1>10, <3>1 DEF RefundGoesOn
      <4> QED
        BY <4>1 DEF StepIsRight, LineSteps, OfLine, Takes
    <3>2. CASE t.do = "findPaid" /\ Len(u) = 1 /\ u[1].do = "readIntent" /\ Total(t.of) >= Captured
      <4>1. t.of = Lost
        BY <1>4, <3>2 DEF StepIsRight
      <4>2. Captured <= Total(Lost)
        <5>1. Captured \in Int /\ Total(Lost) \in Nat
          <6>1. Lost \in SUBSET Items /\ Platform \in SUBSET Items
            BY DEF Lost, Platform
          <6>2. Total(Lost) \in Nat /\ Total(Platform) \in Nat /\ Discount \in Nat
            BY <6>1, TotalsAddUp, FulfillmentAssumption
          <6> QED
            BY <6>2 DEF Captured
        <5> QED
          BY <3>2, <4>1, <5>1
      <4> QED
        BY <3>2, <4>2 DEF StepIsRight, Reached, LineSteps, OfLine, Takes
    <3>3. CASE t.do = "findPaid" /\ MarksOnly(u, t.of)
      <4>1. t.of = Lost
        BY <1>4, <3>3 DEF StepIsRight
      <4> QED
        BY <3>3, <4>1 DEF MarksOnly, StepIsRight, LineSteps, OfLine, Takes
    <3>4. CASE t.do = "readIntent" /\ FullCall(u)
      <4>1. Reached
        BY <1>4, <3>4 DEF StepIsRight
      <4>2. \A n \in 1..Len(u) : u[n].do \in {"refund", "setIntentRefunded", "refundAll"}
        <5>1. PICK v \in Seq(HandlerSteps) : v = u
          <6>1. todo' \in [Everyone -> Seq(HandlerSteps)]
            BY NextKeepsSafe DEF Safe, StateTyped, Next
          <6> QED
            BY <1>6, <6>1
        <5>2. v # <<>> /\ v[1].do = "refund" /\ Len(Tail(v)) = 2
              /\ Tail(v)[1].do = "setIntentRefunded" /\ Tail(v)[2].do = "refundAll"
          BY <3>4, <5>1 DEF FullCall, FullMarks
        <5>3. Len(v) = 3 /\ Tail(v)[1] = v[2] /\ Tail(v)[2] = v[3]
          <6>1. /\ Len(v) \in Nat /\ Len(Tail(v)) = Len(v) - 1
                /\ \A k \in 1..(Len(v) - 1) : Tail(v)[k] = v[k + 1]
            BY <5>2, HeadAndTail
          <6>2. Len(v) = 3
            BY <5>2, <6>1
          <6>3. 1 \in 1..(3 - 1) /\ 2 \in 1..(3 - 1) /\ 1 + 1 = 2 /\ 2 + 1 = 3
            OBVIOUS
          <6> QED
            BY <6>1, <6>2, <6>3
        <5>4. \A n \in 1..Len(v) : n = 1 \/ n = 2 \/ n = 3
          BY <5>3
        <5> QED
          BY <5>1, <5>2, <5>3, <5>4
      <4> QED
        BY <4>1, <4>2 DEF StepIsRight, LineSteps, OfLine, Takes
    <3>5. CASE u = Tail(s)
      BY <1>5, <3>5
    <3> QED
      <4>1. \/ t.do = "findFailed"
            \/ t.do = "findPaid" /\ Len(u) = 1 /\ u[1].do = "readIntent" /\ Total(t.of) >= Captured
            \/ t.do = "findPaid" /\ MarksOnly(u, t.of)
            \/ t.do = "readIntent" /\ FullCall(u)
            \/ u = Tail(s)
        <5>1. RefundGoesOn(s, u) /\ u # <<>>
          BY <1>7, <1>10
        <5>2. \/ Head(s).do = "findFailed"
              \/ /\ Head(s).do = "findPaid" /\ Len(u) = 1 /\ u[1].do = "readIntent"
                 /\ Total(Head(s).of) >= Captured
              \/ Head(s).do = "findPaid" /\ MarksOnly(u, Head(s).of)
              \/ Head(s).do = "readIntent" /\ FullCall(u)
              \/ u = Tail(s)
          BY <5>1, Zenon DEF RefundGoesOn, MarksOnly
        <5> QED
          BY <1>3, <5>2
      <4> QED
        BY <3>1, <3>2, <3>3, <3>4, <3>5, <4>1, Zenon
  <2> QED
    BY <1>6, <1>10, <2>1, QuietRows DEF PlanIsRight
<1>11. CASE t.do = "setRefunded" /\ u # <<>>
  <2>1. u = Tail(s) /\ Marking(s)
    <3>1. u = Tail(s)
      BY <1>3, <1>7, <1>11 DEF RefundGoesOn
    <3> QED
      BY <1>1, <1>3, <1>11, <3>1, HeadTells
  <2>2. \A i \in Items : items'[i].status = IF i = t.item THEN "REFUNDED" ELSE items[i].status
    BY <1>1, <1>3, <1>8, <1>11, RowsChange
  <2>3. ASSUME NEW n \in 1..Len(u) PROVE StepIsRight(u[n])'
    <3>1. n + 1 \in 1..Len(s) /\ 1 \in 1..((n + 1) - 1) /\ u[n] = s[n + 1]
      BY <1>2, <2>1
    <3>2. s[1].item # s[n + 1].item /\ s[n + 1].do = "setRefunded"
      BY <2>1, <3>1 DEF Marking
    <3>3. u[n].item # t.item /\ u[n].do = "setRefunded"
      BY <1>2, <1>3, <3>1, <3>2
    <3>4. u[n].item \in Lost
      BY <1>5, <2>1, <3>3 DEF StepIsRight
    <3>5. u[n].item \in Lost'
      BY <2>2, <3>3, <3>4 DEF Lost
    <3> QED
      BY <3>3, <3>5 DEF StepIsRight, LineSteps, OfLine, Takes
  <2> QED
    BY <1>6, <2>3 DEF PlanIsRight
<1>12. CASE t.do = "refundAll"
  BY <1>3, <1>7, <1>9, <1>12 DEF RefundGoesOn
<1>13. t.do \notin {"setRefunded", "refundAll"} => items' = items
  <2>1. t.do \notin {"start", "resetFailed"}
    BY <1>1, <1>3 DEF RefundKinds
  <2> QED
    BY <1>1, <1>3, <1>8, <2>1, RowsChange
<1> QED
  BY <1>9, <1>10, <1>11, <1>12, <1>13

\* Steps that lead in, or end.
LEMMA OthersAreRight ==
  ASSUME Safe, Planned, StepsAreRight, NEW p \in Everyone, Continue(p), todo[p] # <<>>,
         Cur(p).do \notin LineSteps, Cur(p).do \notin RefundKinds
  PROVE  PlanIsRight(p)'
<1>0. StateTyped
  BY DEF Safe
<1>1. PICK s \in Seq(HandlerSteps) : s = todo[p] /\ s # <<>> /\ Form(s) /\ Head(s) = Cur(p)
  BY DEF Safe, StateTyped, Planned, Formed, Cur
<1>2. PICK u : u = todo'[p]
  OBVIOUS
<1>3. ASSUME NEW t, t.do \notin LineSteps, t.do \notin RefundKinds PROVE StepIsRight(t)'
  BY <1>3 DEF StepIsRight, LineSteps, OfLine, Takes, RefundKinds
<1>4. Len(<<>>) = 0
  OBVIOUS
<1>5. CASE MarkPaid(p) \/ Start(p) \/ ResetFailed(p)
  <2>1. u = <<>> \/ LeadsIn(u)
    BY <1>0, <1>1, <1>2, <1>5, LeadGoes
  <2>2. u \in Seq(HandlerSteps)
    <3>1. u = <<>> \/ u = Tail(s)
      BY <1>0, <1>1, <1>2, <1>5, LeadGoes
    <3> QED
      BY <1>1, <3>1, HeadAndTail, NoStep
  <2>3. \A n \in 1..Len(u) : n = Len(u) \/ n \in 1..(Len(u) - 1)
    BY <2>2
  <2>4. \A n \in 1..Len(u) : u[n].do \in LeadKinds \cup {"findItems"}
    BY <1>4, <2>1, <2>3 DEF LeadsIn
  <2>5. \A n \in 1..Len(u) : u[n].do \notin LineSteps /\ u[n].do \notin RefundKinds
    BY <2>4 DEF LeadKinds, LineSteps, OfLine, RefundKinds
  <2> QED
    BY <1>2, <1>3, <2>5 DEF PlanIsRight
<1>6. CASE FindItems(p)
  <2>1. items' = items
    BY <1>6 DEF FindItems
  <2>2. /\ GoesThrough(u)
        /\ \A n \in 1..(Len(u) - 1) : u[n].do = "setReserving" /\ items[u[n].item].status \in {"PENDING", "RESERVING"}
    BY <1>0, <1>1, <1>2, <1>6, FindItemsGoes
  <2>3. u \in Seq(HandlerSteps)
    BY <1>2, NextKeepsSafe DEF Safe, StateTyped, Next
  <2>4. \A n \in 1..Len(u) : n = Len(u) \/ n \in 1..(Len(u) - 1)
    BY <2>3
  <2>5. ASSUME NEW n \in 1..Len(u) PROVE StepIsRight(u[n])'
    <3>1. CASE n \in 1..(Len(u) - 1)
      BY <2>1, <2>2, <3>1 DEF StepIsRight, OpenStatuses
    <3>2. CASE n = Len(u)
      BY <1>3, <2>2, <3>2 DEF GoesThrough, LineSteps, OfLine, RefundKinds
    <3> QED
      BY <2>4, <3>1, <3>2
  <2> QED
    BY <1>2, <2>5 DEF PlanIsRight
<1>7. CASE CheckItems(p) \/ CompleteSession(p)
  <2>1. Head(s).do \in {"checkItems", "completeSession"}
    BY <1>1, <1>7 DEF CheckItems, CompleteSession, At, Cur
  <2>2. PICK a \in HandlerSteps : a = Do("completeSession") /\ a.do = "completeSession"
    BY PlainStep DEF StepKinds
  <2>3. Replace(p, <<>>) \/ Replace(p, <<a>>)
    BY <1>7, <2>2 DEF CheckItems, CompleteSession, Done
  <2>4. <<>> \in Seq(HandlerSteps) /\ <<a>> \in Seq(HandlerSteps)
    OBVIOUS
  <2>5. u = <<>> \/ u = <<a>>
    BY <1>0, <1>1, <1>2, <2>1, <2>3, <2>4, AloneGoes DEF AloneKinds
  <2>6. Len(<<a>>) = 1 /\ <<a>>[1] = a
    OBVIOUS
  <2>7. \A n \in 1..Len(u) : u[n].do \notin LineSteps /\ u[n].do \notin RefundKinds
    BY <1>4, <2>2, <2>5, <2>6 DEF LineSteps, OfLine, RefundKinds
  <2> QED
    BY <1>2, <1>3, <2>7 DEF PlanIsRight
<1>8. \/ MarkPaid(p) \/ Start(p) \/ ResetFailed(p) \/ FindItems(p)
      \/ CheckItems(p) \/ CompleteSession(p)
  BY ZenonT(60) DEF Continue, SetReserving, Reserve, SetReserved,
     SetConfirmed, SetStatus, Confirm, ReadAttempts, SetRetry, SetFailed,
     FindFailed, FindPaid, ReadIntent, CallRefund,
     SetRefunded, SetIntentRefunded, RefundAll, At, Cur, LineSteps, OfLine, RefundKinds
<1> QED
  BY <1>5, <1>6, <1>7, <1>8

\* A handler that works on a line works on one of ours.
LEMMA LineIsOurs ==
  ASSUME Safe, Planned, NEW p \in Everyone, todo[p] # <<>>, Cur(p).do \in LineSteps
  PROVE  Cur(p).item \in Platform
<1>1. PICK s \in Seq(HandlerSteps) : s = todo[p] /\ s # <<>> /\ Form(s) /\ Head(s) = Cur(p)
  BY DEF Safe, StateTyped, Planned, Formed, Cur
<1>2. GoesThrough(s) /\ Len(s) \in Nat /\ Len(s) >= 1 /\ Head(s) = s[1]
  BY <1>1, HeadTells, HeadAndTail
<1>3. Len(s) # 1
  BY <1>1, <1>2 DEF GoesThrough, LineSteps, OfLine
<1>4. \A N \in Nat : N >= 1 /\ N # 1 => 1 \in 1..(N - 1)
  OBVIOUS
<1>5. 1 \in 1..(Len(s) - 1)
  BY <1>2, <1>3, <1>4, Zenon
<1> QED
  BY <1>1, <1>2, <1>5 DEF GoesThrough

\* Nobody works on the lines that are bought elsewhere: they only get refunded.
ExternalRests == \A i \in External : items[i].status \in {"none", "PENDING", "REFUNDED"}

InTurn == OneBusy /\ StepsAreRight /\ ExternalRests

\* In turn, every step finds the rows as they were when it was decided on.
LEMMA TurnsStayRight ==
  MaxOverlap = 1 /\ Safe /\ Planned /\ InTurn /\ [Next]_vars => InTurn'
<1> SUFFICES ASSUME MaxOverlap = 1, Safe, Planned, OneBusy, StepsAreRight, ExternalRests, [Next]_vars
             PROVE  StepsAreRight' /\ ExternalRests'
  BY TurnsStay DEF InTurn
<1>0. StateTyped /\ todo' \in [Everyone -> Seq(HandlerSteps)] /\ External \subseteq Items
  BY NextKeepsSafe, FulfillmentAssumption DEF Safe, StateTyped
<1>1. Len(<<>>) = 0
  OBVIOUS
<1>2. CASE \/ TakeJob \/ RunRetry \/ RunCompensate
           \/ \E p \in Admins : AdminRetries(p) \/ AdminRefunds(p)
  <2>1. PICK p \in Everyone, s \in Seq(HandlerSteps) : Begin(p, s) /\ Opening(p, s)
    BY <1>2, OpeningsAreForms
  <2>2. /\ todo'[p] = s /\ \A q \in Everyone : todo[q] = <<>>
        /\ \A q \in Everyone : q # p => todo'[q] = todo[q]
        /\ items' = items
    BY <1>0, <2>1, NoneIsBusy, Opens
  <2>3. ASSUME NEW n \in 1..Len(s) PROVE StepIsRight(s[n])'
    BY <2>1 DEF Opening, StepIsRight, LeadKinds, LineSteps, OfLine, Takes, Reached
  <2>4. StepsAreRight'
    BY <1>1, <2>2, <2>3 DEF StepsAreRight, PlanIsRight
  <2> QED
    BY <2>2, <2>4 DEF ExternalRests
<1>3. ASSUME items' = items, \A q \in Everyone : todo'[q] = todo[q] \/ todo'[q] = <<>>
      PROVE  StepsAreRight' /\ ExternalRests'
  <2>1. ASSUME NEW q \in Everyone PROVE PlanIsRight(q)'
    <3>1. PICK s : s = todo'[q]
      OBVIOUS
    <3>2. \A n \in 1..Len(s) : StepIsRight(s[n])
      BY <1>1, <1>3, <3>1 DEF StepsAreRight, PlanIsRight
    <3>3. ASSUME NEW n \in 1..Len(s) PROVE StepIsRight(s[n])'
      BY <1>3, <3>2, QuietRows
    <3> QED
      BY <3>1, <3>3 DEF PlanIsRight
  <2>2. ExternalRests'
    BY <1>3 DEF ExternalRests
  <2> QED
    BY <2>1, <2>2 DEF StepsAreRight
<1>4. CASE FinishJob \/ UNCHANGED vars
  BY <1>3, <1>4 DEF FinishJob, vars
<1>5. CASE Crash \/ \E p \in Everyone : Throw(p)
  BY <1>0, <1>3, <1>5, FaultsEnd
<1>6. ASSUME NEW p \in Everyone, Continue(p) PROVE StepsAreRight' /\ ExternalRests'
  <2>1. todo[p] # <<>> /\ \A q \in Everyone : q # p => todo'[q] = todo[q]
    BY <1>0, <1>6, NoFault, FormsFollow DEF Planned
  <2>2. PlanIsRight(p)'
    BY <1>6, <2>1, LinesAreRight, RefundsAreRight, OthersAreRight
  <2>3. StepsAreRight'
    BY <2>1, <2>2, RightAfter
  <2>4. CASE Cur(p).do \in LineSteps
    <3>1. Cur(p).item \in Platform
      BY <2>1, <2>4, LineIsOurs
    <3>2. \A i \in External : i # Cur(p).item /\ i \in Items
      BY <1>0, <3>1 DEF Platform
    <3>3. \A i \in External : items'[i] = items[i]
      BY <1>6, <2>4, <3>1, <3>2, LineTouches DEF Platform
    <3> QED
      BY <2>3, <3>3 DEF ExternalRests
  <2>5. CASE Cur(p).do \notin LineSteps
    <3>1. \A i \in Items : items'[i].status \in {items[i].status, "REFUNDED"}
             \/ items'[i].status = "PENDING"
      BY <1>6, <2>5, RowsChange
    <3> QED
      BY <1>0, <2>3, <3>1 DEF ExternalRests
  <2> QED
    BY <2>4, <2>5
<1> QED
  BY <1>2, <1>3, <1>4, <1>5, <1>6 DEF Next

\* When the payment has just succeeded.
LEMMA TurnsBegin == Init => InTurn
<1> SUFFICES ASSUME Init PROVE InTurn
  OBVIOUS
<1>1. \A p \in Everyone : todo[p] = <<>>
  BY DEF Init
<1>2. Len(<<>>) = 0
  OBVIOUS
<1>3. \A i \in External : items[i].status = "none"
  BY FulfillmentAssumption DEF Init, NoRow
<1> QED
  BY <1>1, <1>2, <1>3 DEF InTurn, OneBusy, StepsAreRight, PlanIsRight, ExternalRests

\* The outcomes of the platform's lines.
Outcomes == [i \in Platform |-> Outcome(items[i])]

\* Lines whose outcomes do not change.
LEMMA NothingSettles ==
  ASSUME \A i \in Platform : Outcome(items'[i]) = Outcome(items[i])
  PROVE  Outcomes' = Outcomes
BY DEF Outcomes, Outcome, Platform

\* One line is settled.
LEMMA OneSettles ==
  ASSUME NEW j \in Platform, Outcome(items[j]) = "open",
         Outcome(items'[j]) \in {"open", "delivered", "refunded"},
         \A i \in Platform : i # j => Outcome(items'[i]) = Outcome(items[i])
  PROVE  Outcomes' = Outcomes \/ AllLines!Settle(j)
<1>1. CASE Outcome(items'[j]) = "open"
  BY <1>1, NothingSettles
<1>2. CASE Outcome(items'[j]) # "open"
  <2>1. PICK o \in {"delivered", "refunded"} : o = Outcome(items'[j])
    BY <1>2
  <2>2. Outcomes' = [Outcomes EXCEPT ![j] = o]
    BY <2>1 DEF Outcomes, Outcome, Platform
  <2>3. Outcomes[j] = "open"
    BY DEF Outcomes
  <2> QED
    BY <2>1, <2>2, <2>3 DEF AllLines!Settle, Outcomes
<1> QED
  BY <1>1, <1>2

\* Only lines of ours are lost.
LEMMA LostIsOurs ==
  ASSUME ExternalRests
  PROVE  Lost \subseteq Platform
BY DEF ExternalRests, Lost, Platform

\* What a handler does to the rows settles no line a second time.
LEMMA LinesSettleInTurn ==
  ASSUME MaxOverlap = 1, "full" \notin AdminRoles, Discount = 0,
         Safe, Planned, InTurn, [Next]_vars
  PROVE  [AllLines!Next]_Outcomes
<1>0. StateTyped /\ Platform \in SUBSET Items
  BY DEF Safe, Platform
<1>1. CASE items' = items
  BY <1>1, NothingSettles
<1>2. ASSUME NEW p \in Everyone, Continue(p), items' # items
      PROVE  AllLines!Next \/ Outcomes' = Outcomes
  <2>1. todo[p] # <<>>
    BY <1>2, NoFault
  <2>2. PICK t : t = Cur(p)
    OBVIOUS
  <2>3. StepIsRight(t)
    <3>1. PICK s \in Seq(HandlerSteps) : s = todo[p] /\ s # <<>>
      BY <1>0, <2>1 DEF StateTyped
    <3>2. Head(s) = s[1] /\ 1 \in 1..Len(s)
      BY <3>1
    <3> QED
      BY <2>2, <3>1, <3>2 DEF InTurn, StepsAreRight, PlanIsRight, Cur
  <2>4. CASE t.do \in LineSteps
    <3>1. PICK i \in Platform : i = t.item
      BY <2>1, <2>2, <2>4, LineIsOurs
    <3>2. items[i].status \in OpenStatuses
      BY <2>3, <2>4, <3>1 DEF StepIsRight
    <3>3. /\ \A j \in Items : j # i => items'[j] = items[j]
          /\ items'[i].status \in {"RESERVING", "RESERVED", "CONFIRMED", "FAILED", items[i].status}
      BY <1>0, <1>2, <2>2, <2>4, <3>1, LineTouches DEF LineSteps, OfLine
    <3>4. Outcome(items[i]) = "open" /\ Outcome(items'[i]) \in {"open", "delivered", "refunded"}
      BY <3>2, <3>3 DEF Outcome, OpenStatuses
    <3>5. Outcomes' = Outcomes \/ AllLines!Settle(i)
      BY <1>0, <3>3, <3>4, OneSettles
    <3> QED
      BY <3>5 DEF AllLines!Next
  <2>5. CASE t.do = "start" \/ t.do = "resetFailed"
    <3>1. \/ \A i \in Items : items[i].status = "none" /\ items'[i].status = "PENDING"
          \/ \A i \in Items :
               items'[i].status = IF items[i].status = "FAILED" THEN "PENDING" ELSE items[i].status
      BY <1>2, <2>2, <2>5, RowsChange DEF LineSteps, OfLine
    <3>2. \A i \in Platform : Outcome(items'[i]) = Outcome(items[i])
      BY <1>0, <3>1 DEF Outcome
    <3> QED
      BY <3>2, NothingSettles
  <2>6. CASE t.do = "setRefunded"
    <3>1. \A i \in Items : items'[i].status = IF i = t.item THEN "REFUNDED" ELSE items[i].status
      BY <1>2, <2>2, <2>6, RowsChange DEF LineSteps, OfLine
    <3>2. PICK i \in Platform : i = t.item /\ items[i].status = "FAILED"
      BY <2>3, <2>6, LostIsOurs DEF StepIsRight, InTurn, Lost
    <3>3. /\ Outcome(items[i]) = "open" /\ Outcome(items'[i]) \in {"open", "delivered", "refunded"}
          /\ \A j \in Platform : j # i => Outcome(items'[j]) = Outcome(items[j])
      BY <1>0, <3>1, <3>2 DEF Outcome
    <3>4. Outcomes' = Outcomes \/ AllLines!Settle(i)
      BY <3>3, OneSettles
    <3> QED
      BY <3>4 DEF AllLines!Next
  <2>7. CASE t.do = "refundAll"
    <3>1. \A i \in Items : items'[i].status = IF items[i].status = "none" THEN "none" ELSE "REFUNDED"
      BY <1>2, <2>2, <2>7, RowsChange DEF LineSteps, OfLine
    <3>2. Captured <= Total(Lost)
      BY <2>3, <2>7 DEF StepIsRight, Reached
    <3>3. Captured = Total(Platform)
      <4>1. Total(Platform) \in Nat
        BY <1>0, TotalsAddUp
      <4> QED
        BY <4>1 DEF Captured
    <3>4. Lost = Platform
      BY <1>0, <3>2, <3>3, LostIsOurs, WorthAll DEF InTurn
    <3>5. \A i \in Platform : Outcome(items[i]) = "open" /\ Outcome(items'[i]) = "refunded"
      BY <1>0, <3>1, <3>4 DEF Lost, Outcome
    <3>6. /\ \A i \in Platform : Outcomes[i] = "open"
          /\ Outcomes' = [i \in Platform |-> IF i \in Platform THEN "refunded" ELSE Outcomes[i]]
      BY <3>5 DEF Outcomes, Outcome, Platform
    <3>7. AllLines!SettleMany
      BY <3>6 DEF AllLines!SettleMany, Outcomes
    <3> QED
      BY <3>7 DEF AllLines!Next
  <2>8. CASE t.do \notin LineSteps \cup {"start", "resetFailed", "setRefunded", "refundAll"}
    BY <1>2, <2>2, <2>8, RowsChange
  <2> QED
    BY <2>4, <2>5, <2>6, <2>7, <2>8
<1>3. (\E p \in Everyone : Continue(p)) \/ items' = items
  BY <1>0, FaultsEnd DEF Next, TakeJob, FinishJob, RunRetry, RunCompensate, AdminRetries,
     AdminRefunds, Begin, vars
<1> QED
  BY <1>1, <1>2, <1>3

\* Every line is open at first.
LEMMA LinesAreOpen == Init => AllLines!Init
BY DEF Init, AllLines!Init, NoRow, Outcome, Platform

(***************************************************************************)
(* The books in turn: the lines whose refund has been answered are those   *)
(* marked REFUNDED and those a handler is about to mark.                   *)
(***************************************************************************)
BeingMarked(p) ==
  {i \in Items : /\ todo[p] # <<>>
                 /\ \/ Cur(p).do = "setRefunded" /\ i \in Marked(todo[p])
                    \/ Cur(p).do \in {"setIntentRefunded", "refundAll"} /\ i \in Lost}
MarkedLines == {i \in Items : items[i].status = "REFUNDED"}
Given       == MarkedLines \cup {i \in Items : \E p \in Everyone : i \in BeingMarked(p)}

BooksInTurn == faults = 0 /\ "full" \notin AdminRoles => Refunded <= Total(Given)

\* Steps of a plan that finds rows as they were.
LEMMA PlanIs ==
  ASSUME Safe, Planned, InTurn, NEW p \in Everyone, todo[p] # <<>>
  PROVE  \E s \in Seq(HandlerSteps) :
           /\ s = todo[p] /\ s # <<>> /\ Form(s) /\ Head(s) = Cur(p) /\ Head(s) = s[1]
           /\ 1 \in 1..Len(s) /\ StepIsRight(Head(s))
           /\ Tail(s) \in Seq(HandlerSteps)
           /\ \A n \in 1..Len(Tail(s)) : Tail(s)[n] = s[n + 1] /\ StepIsRight(Tail(s)[n])
           /\ \A n \in 1..Len(s) : n = 1 \/ (n - 1 \in 1..Len(Tail(s)) /\ s[n] = Tail(s)[n - 1])
<1>1. PICK s \in Seq(HandlerSteps) : s = todo[p] /\ s # <<>> /\ Form(s) /\ Head(s) = Cur(p)
  BY DEF Safe, StateTyped, Planned, Formed, Cur
<1>2. /\ Len(s) \in Nat /\ Len(s) >= 1 /\ Head(s) = s[1]
      /\ Tail(s) \in Seq(HandlerSteps) /\ Len(Tail(s)) = Len(s) - 1
      /\ \A k \in 1..(Len(s) - 1) : Tail(s)[k] = s[k + 1]
  BY <1>1, HeadAndTail
<1>3. \A n \in 1..Len(s) : StepIsRight(s[n])
  BY <1>1 DEF InTurn, StepsAreRight, PlanIsRight
<1>4. 1 \in 1..Len(s)
  BY <1>2
<1>5. ASSUME NEW n \in 1..Len(Tail(s)) PROVE Tail(s)[n] = s[n + 1] /\ StepIsRight(Tail(s)[n])
  <2>1. n + 1 \in 1..Len(s) /\ Tail(s)[n] = s[n + 1]
    BY <1>2
  <2> QED
    BY <1>3, <2>1
<1>6. \A n \in 1..Len(s) : n = 1 \/ (n - 1 \in 1..Len(Tail(s)) /\ s[n] = Tail(s)[n - 1])
  BY <1>2
<1> QED
  BY <1>1, <1>2, <1>3, <1>4, <1>5, <1>6

\* In turn, nobody else marks.
LEMMA NobodyElse ==
  ASSUME OneBusy, NEW p \in Everyone, todo[p] # <<>>
  PROVE  Given = MarkedLines \cup BeingMarked(p)
<1>1. \A q \in Everyone : q # p => BeingMarked(q) = {}
  BY DEF OneBusy, BeingMarked
<1>2. BeingMarked(p) \subseteq Items
  BY DEF BeingMarked
<1> QED
  BY <1>1, <1>2 DEF Given

\* The lines a handler is about to mark are lost, so that what has been returned is for
\* lines that were lost.
LEMMA GivenWereLost ==
  ASSUME Safe, Planned, InTurn
  PROVE  Given \subseteq {i \in Items : items[i].status \in {"FAILED", "REFUNDED"}}
<1> SUFFICES ASSUME NEW p \in Everyone, NEW i \in BeingMarked(p) PROVE i \in Lost
  BY DEF Given, MarkedLines, Lost
<1>1. todo[p] # <<>>
  BY DEF BeingMarked
<1>2. PICK s \in Seq(HandlerSteps) :
        /\ s = todo[p] /\ s # <<>> /\ Form(s) /\ Head(s) = Cur(p)
  BY <1>1, PlanIs
<1>3. CASE Cur(p).do = "setRefunded" /\ i \in Marked(s)
  <2>1. Marking(s)
    BY <1>2, <1>3, HeadTells
  <2>2. PICK n \in 1..Len(s) : i = s[n].item
    BY <1>3 DEF Marked
  <2>3. StepIsRight(s[n])
    BY <1>2 DEF InTurn, StepsAreRight, PlanIsRight
  <2> QED
    BY <2>1, <2>2, <2>3 DEF Marking, StepIsRight
<1> QED
  BY <1>2, <1>3 DEF BeingMarked

\* What a handler that does not call YooKassa leaves of its plan.
LEMMA MarksGoOn ==
  ASSUME Safe, NEW p \in Everyone, Continue(p), NEW s \in Seq(HandlerSteps), s = todo[p], s # <<>>,
         \/ Head(s).do \in {"setRefunded", "setIntentRefunded", "refundAll"}
         \/ CallRefund(p) /\ refunds' # refunds
  PROVE  todo'[p] = Tail(s)
<1>1. Replace(p, <<>>)
  <2>1. CASE SetRefunded(p) \/ SetIntentRefunded(p) \/ RefundAll(p)
    BY <2>1 DEF SetRefunded, SetIntentRefunded, RefundAll, Done
  <2>2. CASE CallRefund(p) /\ refunds' # refunds
    BY <2>2 DEF CallRefund, Done
  <2>3. CASE Head(s).do \in {"setRefunded", "setIntentRefunded", "refundAll"}
    <3>1. SetRefunded(p) \/ SetIntentRefunded(p) \/ RefundAll(p)
      BY <2>3, ZenonT(60) DEF Continue, MarkPaid, Start, FindItems, SetReserving, Reserve, SetReserved,
         SetConfirmed, SetStatus, Confirm, ReadAttempts, SetRetry, SetFailed, CheckItems,
         CompleteSession, ResetFailed, FindFailed, FindPaid, ReadIntent, CallRefund, At
    <3> QED
      BY <2>1, <3>1
  <2> QED
    BY <2>2, <2>3
<1>2. todo'[p] = <<>> \o Tail(s) /\ Tail(s) \in Seq(HandlerSteps)
  BY <1>1, Replaced, HeadAndTail DEF Safe
<1> QED
  BY <1>2, NothingAdded

\* A line whose refund has been answered is marked, or about to be marked, from then on.
LEMMA GivenStay ==
  ASSUME MaxOverlap = 1, Safe, Planned, InTurn, [Next]_vars, faults' = faults
  PROVE  Given \subseteq Given'
<1>0. StateTyped /\ OneBusy /\ faults \in Nat /\ todo' \in [Everyone -> Seq(HandlerSteps)]
  BY NextKeepsSafe DEF Safe, StateTyped, InTurn
<1>1. ASSUME items' = items, \A q \in Everyone : todo[q] # <<>> => todo'[q] = todo[q]
      PROVE  Given \subseteq Given'
  BY <1>1 DEF Given, MarkedLines, BeingMarked, Cur, Marked, Lost
<1>2. CASE \/ TakeJob \/ RunRetry \/ RunCompensate
           \/ \E p \in Admins : AdminRetries(p) \/ AdminRefunds(p)
  <2>1. PICK p \in Everyone, s \in Seq(HandlerSteps) : Begin(p, s) /\ Opening(p, s)
    BY <1>2, OpeningsAreForms
  <2>2. todo[p] = <<>> /\ items' = items /\ \A q \in Everyone : q # p => todo'[q] = todo[q]
    BY <1>0, <2>1, Opens
  <2> QED
    BY <1>1, <2>2
<1>3. CASE FinishJob \/ UNCHANGED vars
  BY <1>1, <1>3 DEF FinishJob, vars
<1>4. CASE Crash \/ \E p \in Everyone : Throw(p)
  <2>1. faults' = faults + 1
    BY <1>0, <1>4, FaultsEnd
  <2> QED
    BY <1>0, <2>1
<1>5. ASSUME NEW p \in Everyone, Continue(p) PROVE Given \subseteq Given'
  <2>1. todo[p] # <<>>
    BY <1>5, NoFault
  <2>2. PICK s \in Seq(HandlerSteps) :
          /\ s = todo[p] /\ s # <<>> /\ Form(s) /\ Head(s) = Cur(p) /\ Head(s) = s[1]
          /\ StepIsRight(Head(s)) /\ Tail(s) \in Seq(HandlerSteps)
          /\ \A n \in 1..Len(s) : n = 1 \/ (n - 1 \in 1..Len(Tail(s)) /\ s[n] = Tail(s)[n - 1])
    BY <2>1, PlanIs
  <2>3. PICK t : t = Head(s)
    OBVIOUS
  <2>4. Given = MarkedLines \cup BeingMarked(p)
    BY <1>0, <2>1, NobodyElse
  <2>5. MarkedLines' \subseteq Given' /\ BeingMarked(p)' \subseteq Given'
    BY DEF Given, BeingMarked
  <2>6. MarkedLines \subseteq MarkedLines'
    <3>1. CASE t.do \in LineSteps
      <4>1. t.item \in Items /\ items[t.item].status \in OpenStatuses
        BY <2>1, <2>2, <2>3, <3>1, LineIsOurs DEF StepIsRight, Platform
      <4>2. \A j \in Items : j # t.item => items'[j] = items[j]
        BY <1>5, <2>2, <2>3, <3>1, <4>1, LineTouches
      <4> QED
        BY <4>1, <4>2 DEF MarkedLines, OpenStatuses
    <3>2. CASE t.do \notin LineSteps
      <4>1. \/ items' = items
            \/ \A i \in Items : items[i].status = "none" /\ items'[i].status = "PENDING"
            \/ \A i \in Items :
                 items'[i].status = IF items[i].status = "FAILED" THEN "PENDING" ELSE items[i].status
            \/ \A i \in Items : items'[i].status \in {items[i].status, "REFUNDED"}
        <5>1. CASE t.do = "setRefunded"
          BY <1>5, <2>2, <2>3, <3>2, <5>1, RowsChange
        <5>2. CASE t.do = "refundAll"
          BY <1>5, <2>2, <2>3, <3>2, <5>2, RowsChange
        <5>3. CASE t.do \notin {"setRefunded", "refundAll"}
          BY <1>5, <2>2, <2>3, <3>2, <5>3, RowsChange
        <5> QED
          BY <5>1, <5>2, <5>3
      <4> QED
        BY <4>1 DEF MarkedLines
    <3> QED
      BY <3>1, <3>2
  <2>7. CASE t.do \notin {"setRefunded", "setIntentRefunded", "refundAll"}
    <3>1. BeingMarked(p) = {}
      BY <2>2, <2>3, <2>7 DEF BeingMarked
    <3> QED
      BY <2>4, <2>5, <2>6, <3>1
  <2>8. ASSUME t.do \in {"setRefunded", "setIntentRefunded", "refundAll"}
        PROVE  todo'[p] = Tail(s)
    BY <1>5, <2>2, <2>3, <2>8, MarksGoOn
  <2>9. PICK u : u = Tail(s)
    OBVIOUS
  <2>10. CASE t.do = "setRefunded"
    <3>1. Marking(u) /\ u = todo'[p] /\ u \in Seq(HandlerSteps)
      BY <2>2, <2>3, <2>8, <2>9, <2>10, HeadTells
    <3>2. \A i \in Items : items'[i].status = IF i = t.item THEN "REFUNDED" ELSE items[i].status
      BY <1>5, <2>2, <2>3, <2>10, RowsChange DEF LineSteps, OfLine
    <3>3. ASSUME NEW i \in BeingMarked(p) PROVE i \in MarkedLines' \cup BeingMarked(p)'
      <4>1. i \in Items /\ i \in Marked(s)
        BY <2>2, <2>3, <2>10 DEF BeingMarked
      <4>2. PICK n \in 1..Len(s) : i = s[n].item
        BY <4>1 DEF Marked
      <4>3. CASE n = 1
        BY <2>2, <2>3, <3>2, <4>1, <4>2, <4>3 DEF MarkedLines
      <4>4. CASE n # 1
        <5>1. n - 1 \in 1..Len(u) /\ i = u[n - 1].item
          BY <2>2, <2>9, <4>2, <4>4
        <5>2. u # <<>> /\ Head(u) = u[1] /\ 1 \in 1..Len(u)
          BY <3>1, <5>1
        <5>3. Head(u).do = "setRefunded" /\ i \in Marked(u)
          BY <3>1, <5>1, <5>2 DEF Marking, Marked
        <5> QED
          BY <3>1, <4>1, <5>2, <5>3 DEF BeingMarked, Cur, Marked
      <4> QED
        BY <4>3, <4>4
    <3> QED
      BY <2>4, <2>5, <2>6, <3>3
  <2>11. CASE t.do = "setIntentRefunded"
    <3>1. u = todo'[p] /\ Len(u) = 1 /\ u[1].do = "refundAll" /\ u \in Seq(HandlerSteps)
      <4>1. Head(s).do = "setIntentRefunded"
        BY <2>3, <2>11
      <4>2. Form(s) /\ s # <<>>
        BY <2>2
      <4>3. Len(Tail(s)) = 1 /\ Tail(s)[1].do = "refundAll"
        BY <4>1, <4>2, HeadTells
      <4> QED
        BY <2>2, <2>8, <2>9, <2>11, <4>3
    <3>2. u # <<>> /\ Head(u) = u[1]
      BY <3>1
    <3>3. items' = items
      BY <1>5, <2>2, <2>3, <2>11, RowsChange DEF LineSteps, OfLine
    <3>4. BeingMarked(p) \subseteq BeingMarked(p)'
      BY <2>2, <2>3, <2>11, <3>1, <3>2, <3>3 DEF BeingMarked, Cur, Lost
    <3> QED
      BY <2>4, <2>5, <2>6, <3>4
  <2>12. CASE t.do = "refundAll"
    <3>1. \A i \in Items : items'[i].status = IF items[i].status = "none" THEN "none" ELSE "REFUNDED"
      BY <1>5, <2>2, <2>3, <2>12, RowsChange DEF LineSteps, OfLine
    <3>2. BeingMarked(p) \subseteq Lost
      BY <2>2, <2>3, <2>12 DEF BeingMarked
    <3>3. Lost \subseteq MarkedLines'
      BY <3>1 DEF Lost, MarkedLines
    <3> QED
      BY <2>4, <2>5, <2>6, <3>2, <3>3
  <2> QED
    BY <2>7, <2>10, <2>11, <2>12
<1> QED
  BY <1>2, <1>3, <1>4, <1>5 DEF Next

\* The sum of the refunds is an amount of money.
LEMMA RefundedIsNat ==
  ASSUME BooksTyped
  PROVE  Refunded \in Nat
<1>1. Refunded = SumOfAmounts(refunds)
  BY DEF Refunded, SumOfAmounts
<1>2. PICK f : f = [r \in refunds |-> r.amount]
  OBVIOUS
<1>3. \A r \in refunds : f[r] \in Nat
  BY <1>2 DEF BooksTyped
<1>4. SumOver(f, refunds) \in Nat
  BY <1>3, SumIsNat DEF BooksTyped
<1>5. SumOfAmounts(refunds) = SumOver(f, refunds)
  BY <1>2, RefundedIsSum DEF BooksTyped
<1> QED
  BY <1>1, <1>4, <1>5

\* What YooKassa books is what lines that are lost are worth.
LEMMA BooksStayInTurn ==
  ASSUME MaxOverlap = 1, "full" \notin AdminRoles, Safe, Planned, InTurn, BooksTyped, BooksInTurn,
         [Next]_vars
  PROVE  BooksInTurn'
<1> SUFFICES ASSUME faults' = 0 PROVE Refunded' <= Total(Given')
  BY DEF BooksInTurn
<1>0. /\ StateTyped /\ OneBusy /\ faults \in Nat /\ Given' \in SUBSET Items
      /\ Given \in SUBSET Items /\ Lost \in SUBSET Items /\ MarkedLines \in SUBSET Items
  BY DEF Safe, StateTyped, InTurn, Given, MarkedLines, Lost
<1>1. ~(Crash \/ \E p \in Everyone : Throw(p)) /\ faults' = faults
  <2>1. ~(Crash \/ \E p \in Everyone : Throw(p))
    BY <1>0, FaultsEnd
  <2>2. \A p \in Everyone : Continue(p) => faults' = faults
    BY NoFault
  <2> QED
    BY <2>1, <2>2 DEF Next, TakeJob, FinishJob, RunRetry, RunCompensate, AdminRetries,
       AdminRefunds, Begin, vars
<1>2. Refunded <= Total(Given)
  BY <1>1 DEF BooksInTurn
<1>3. Given \subseteq Given'
  BY <1>1, GivenStay
<1>4. /\ Total(Given) \in Nat /\ Total(Given') \in Nat /\ Total(Given) <= Total(Given')
      /\ \A T \in SUBSET Given' : Total(T) \in Nat /\ Total(T) <= Total(Given')
  BY <1>0, <1>3, TotalsAddUp
<1>5. Refunded \in Int
  BY RefundedIsNat
<1>6. CASE refunds' = refunds
  <2>1. Refunded' = Refunded
    BY <1>6 DEF Refunded, MapThenSumSet, MapThenFoldSet
  <2> QED
    BY <1>2, <1>4, <1>5, <2>1
<1>7. CASE refunds' # refunds
  <2>1. PICK p \in Everyone :
          /\ At(p, "refund") /\ Cur(p).of \in RefundKeys
          /\ ~Refusable(Cur(p).of) /\ ~Known(Cur(p).of)
          /\ refunds' = refunds \cup {RefundOf(Cur(p).of)} /\ CallRefund(p)
    BY <1>1, <1>7, RefundsFollow
  <2>2. PICK key \in RefundKeys : key = Cur(p).of
    BY <2>1
  <2>3. PICK a : a = RefundOf(key).amount
    OBVIOUS
  <2>4. Refunded' = Refunded + a
    BY <2>1, <2>2, <2>3, BooksGrow DEF Known
  <2>5. Refunded + a <= Captured /\ a \in Nat /\ Captured \in Int
    <3>1. RefundOf(key).amount \in Nat
      BY RefundsAreTyped
    <3>2. Captured \in Int
      <4>1. Platform \in SUBSET Items /\ Discount \in Nat
        BY FulfillmentAssumption DEF Platform
      <4>2. Total(Platform) \in Nat
        BY <4>1, TotalsAddUp
      <4> QED
        BY <4>1, <4>2 DEF Captured
    <3>3. ~(Refunded + a > Captured)
      BY <2>1, <2>2, <2>3 DEF Refusable
    <3> QED
      BY <1>5, <2>3, <3>1, <3>2, <3>3
  <2>6. Continue(p) /\ todo[p] # <<>> /\ items' = items
    BY <2>1 DEF Continue, At, CallRefund
  <2>7. PICK s \in Seq(HandlerSteps) :
          /\ s = todo[p] /\ s # <<>> /\ Form(s) /\ Head(s) = Cur(p) /\ Head(s) = s[1]
          /\ Tail(s) \in Seq(HandlerSteps)
          /\ \A n \in 1..Len(Tail(s)) : StepIsRight(Tail(s)[n])
    BY <2>6, PlanIs
  <2>8. PICK u \in Seq(HandlerSteps) : u = Tail(s)
    BY <2>7
  <2>9. todo'[p] = u
    BY <1>7, <2>1, <2>6, <2>7, <2>8, MarksGoOn
  <2>10. Head(s).do = "refund" /\ key = s[1].of
    BY <2>1, <2>2, <2>7 DEF At
  <2>11. (PartCall(s) /\ Marking(u)) \/ (FullCall(s) /\ FullMarks(u))
    BY <2>7, <2>8, <2>10, HeadTells
  <2>12. Given = MarkedLines
    <3>1. BeingMarked(p) = {}
      BY <2>7, <2>10 DEF BeingMarked
    <3>2. Given = MarkedLines \cup BeingMarked(p)
      BY <1>0, <2>6, NobodyElse
    <3> QED
      BY <3>1, <3>2
  <2>13. BeingMarked(p)' \subseteq Given' /\ MarkedLines \subseteq Given'
    <3>1. BeingMarked(p)' \subseteq Given'
      BY DEF Given, BeingMarked
    <3> QED
      BY <1>3, <2>12, <3>1
  <2>14. CASE PartCall(s) /\ Marking(u)
    <3>1. key = Marked(u)
      BY <2>8, <2>10, <2>14 DEF PartCall
    <3>2. Marked(u) \subseteq Lost
      <4>1. \A n \in 1..Len(u) : u[n].item \in Lost
        BY <2>7, <2>8, <2>14 DEF Marking, StepIsRight
      <4> QED
        BY <4>1 DEF Marked
    <3>3. a = Total(key)
      <4>1. key # FullKey
        BY <3>1, <3>2, FulfillmentAssumption DEF FullKey, Lost
      <4> QED
        BY <2>3, <4>1 DEF RefundOf
    <3>4. key \subseteq Given'
      <4>1. CASE u = <<>>
        <5>1. Len(<<>>) = 0
          OBVIOUS
        <5> QED
          BY <3>1, <4>1, <5>1 DEF Marked
      <4>2. CASE u # <<>>
        <5>1. Head(u) = u[1] /\ 1 \in 1..Len(u)
          BY <4>2
        <5>2. Head(u).do = "setRefunded"
          BY <2>14, <5>1 DEF Marking
        <5>3. Marked(u) \subseteq BeingMarked(p)'
          BY <2>9, <3>2, <4>2, <5>2 DEF BeingMarked, Cur, Marked, Lost
        <5> QED
          BY <2>13, <3>1, <5>3
      <4> QED
        BY <4>1, <4>2
    <3>5. MarkedLines \cap key = {} /\ key \in SUBSET Items
      BY <3>1, <3>2 DEF MarkedLines, Lost
    <3>6. Total(MarkedLines \cup key) = Total(MarkedLines) + Total(key)
      BY <1>0, <3>5, TotalsAddUp
    <3>7. Total(MarkedLines \cup key) <= Total(Given') /\ Total(MarkedLines) \in Nat
          /\ Total(MarkedLines \cup key) \in Nat
      BY <1>4, <2>13, <3>4
    <3>8. Refunded <= Total(MarkedLines)
      BY <1>2, <2>12
    <3>9. PICK x, y, z : /\ x = Total(MarkedLines) /\ y = Total(MarkedLines \cup key)
                         /\ z = Total(Given')
      OBVIOUS
    <3>10. Refunded + a <= z
      BY <1>4, <1>5, <2>5, <3>3, <3>6, <3>7, <3>8, <3>9
    <3> QED
      BY <2>4, <3>9, <3>10
  <2>15. CASE FullCall(s) /\ FullMarks(u)
    <3>1. 1 \in 1..Len(u) /\ u # <<>> /\ Head(u) = u[1] /\ u[1].do = "setIntentRefunded"
      BY <2>15 DEF FullMarks
    <3>2. Captured <= Total(Lost)
      BY <2>7, <2>8, <3>1 DEF StepIsRight, Reached
    <3>3. Lost \subseteq BeingMarked(p)'
      BY <2>6, <2>9, <3>1 DEF BeingMarked, Cur, Lost
    <3>4. Total(Lost) \in Nat /\ Total(Lost) <= Total(Given')
      BY <1>4, <2>13, <3>3
    <3>5. PICK x, y, z : x = Total(Lost) /\ y = Total(Given') /\ z = Captured
      OBVIOUS
    <3>6. Refunded + a <= y
      BY <1>4, <1>5, <2>5, <3>2, <3>4, <3>5
    <3> QED
      BY <2>4, <3>5, <3>6
  <2> QED
    BY <2>11, <2>14, <2>15
<1> QED
  BY <1>6, <1>7

\* Nothing has been returned yet.
LEMMA BooksBegin == Init => BooksInTurn
<1> SUFFICES ASSUME Init PROVE Refunded <= Total(Given)
  BY DEF BooksInTurn
<1>1. Refunded = 0
  <2>1. refunds = {} /\ IsFiniteSet({})
    BY FS_EmptySet DEF Init
  <2>2. SumOfAmounts({}) = SumOver([r \in {} |-> r.amount], {})
    BY <2>1, RefundedIsSum
  <2>3. Refunded = SumOfAmounts({})
    BY <2>1 DEF Refunded, SumOfAmounts
  <2> QED
    BY <2>2, <2>3, SumOfNone
<1>2. Total(Given) \in Nat
  <2>1. Given \in SUBSET Items
    BY DEF Given, MarkedLines
  <2> QED
    BY <2>1, TotalsAddUp
<1> QED
  BY <1>1, <1>2

(***************************************************************************)
(* The theorems.                                                           *)
(***************************************************************************)

\* Type correctness, the amounts of refunds included.  A job that still may run has
\* tries left, whatever failures and restarts there have been.
THEOREM TypeCorrect == Spec => []TypeOK
<1>1. Safe /\ BooksTyped => TypeOK
  BY DEF Safe, TypeOK, BooksTyped
<1> QED
  BY <1>1, InitIsSafe, NextKeepsSafe, NoBooks, BooksStayTyped, PTL DEF Spec

\* A TC line shown as CONFIRMED has been ordered from TC and confirmed by it, however
\* many handlers overlap and however often they fail: ConfirmedIsBooked.
THEOREM ConfirmedWasBooked == Spec => []ConfirmedIsBooked
<1>1. Safe => ConfirmedIsBooked
  BY DEF Safe, Outside
<1>2. QED
  BY <1>1, InitIsSafe, NextKeepsSafe, PTL DEF Spec

\* Before a line or an intent is marked REFUNDED, YooKassa has answered a refund that
\* covers it; the answer may be that it is canceled: RefundedIsAnswered.
THEOREM RefundedWasAnswered == Spec => []RefundedIsAnswered
<1>1. Safe => RefundedIsAnswered
  BY DEF Safe, Outside
<1>2. QED
  BY <1>1, InitIsSafe, NextKeepsSafe, PTL DEF Spec

\* A line whose order TC has reported is not ordered again, as long as only providers
\* fail and administrators do not have the fulfillment run beside the queue; orders
\* whose answer was lost are not counted: OneAnsweredOrder.
THEOREM OneOrder == ASSUME "retry" \notin AdminRoles PROVE Spec => []OneAnsweredOrder
<1>1. Safe /\ OrdersOnce => OneAnsweredOrder
  BY OrdersAreNumbers DEF Safe, OrdersOnce, OneAnsweredOrder
<1> QED
  BY <1>1, InitIsSafe, NextKeepsSafe, NoPlans, PlansStay, NoOrders, OrdersStayOnce, PTL DEF Spec

\* While handlers run in turn and only providers fail, what is returned is covered by
\* the lines that were lost: RefundsCoverLosses.
THEOREM LossesCoverRefunds ==
  ASSUME MaxOverlap = 1, "full" \notin AdminRoles
  PROVE  Spec => []RefundsCoverLosses
<1> DEFINE Turn == Safe /\ Planned /\ InTurn /\ BooksTyped
<1>1. Turn /\ BooksInTurn => RefundsCoverLosses
  <2> SUFFICES ASSUME Turn, BooksInTurn, faults = 0
               PROVE  Refunded <= Total({i \in Items : items[i].status \in {"FAILED", "REFUNDED"}})
    BY DEF RefundsCoverLosses
  <2>1. PICK S : S = {i \in Items : items[i].status \in {"FAILED", "REFUNDED"}}
    OBVIOUS
  <2>2. Given \in SUBSET S /\ S \in SUBSET Items
    BY <2>1, GivenWereLost
  <2>3. Total(S) \in Nat /\ Total(Given) <= Total(S) /\ Total(Given) \in Nat
    BY <2>2, TotalsAddUp
  <2>4. Refunded <= Total(Given)
    BY DEF BooksInTurn
  <2>5. Refunded \in Int
    BY RefundedIsNat
  <2> QED
    BY <2>1, <2>3, <2>4, <2>5
<1>2. Turn /\ BooksInTurn /\ [Next]_vars => BooksInTurn'
  BY BooksStayInTurn
<1>3. MaxOverlap = 1
  OBVIOUS
<1> QED
  BY <1>1, <1>2, <1>3, InitIsSafe, NextKeepsSafe, NoPlans, PlansStay, TurnsBegin, TurnsStayRight,
     NoBooks, BooksStayTyped, BooksBegin, PTL DEF Spec

\* While handlers run in turn, and nothing is taken off the total, no line is settled a
\* second time, whatever fails: LinesSettleOnce.
THEOREM SettlesOnce ==
  ASSUME MaxOverlap = 1, "full" \notin AdminRoles, Discount = 0
  PROVE  Spec => LinesSettleOnce
<1>1. Safe /\ Planned /\ InTurn /\ [Next]_vars => [AllLines!Next]_Outcomes
  BY LinesSettleInTurn
<1>2. Safe /\ Planned /\ InTurn /\ [Next]_vars => InTurn'
  BY TurnsStayRight
<1> QED
  BY <1>1, <1>2, InitIsSafe, NextKeepsSafe, NoPlans, PlansStay, TurnsBegin, LinesAreOpen, PTL
     DEF Spec, LinesSettleOnce, AllLines!SettledOnce, Outcomes
=============================================================================
