---------------------------- MODULE BillingProofs ----------------------------
(***************************************************************************)
(* Theorems about Billing, for any number of stays, invoices, hotels and   *)
(* overlapping requests, whatever the prices and amounts.                  *)
(***************************************************************************)
EXTENDS Billing, FiniteSetTheorems, TLAPS

-----------------------------------------------------------------------------
(***************************************************************************)
(* Sums.  SumFunctionOnSet() is a recursive function over the subsets of a *)
(* set; everything about it is proved by picking a least counterexample.   *)
(***************************************************************************)
(* What holds of a subset once it holds of the smaller ones holds of the   *)
(* whole: G is the set of the subsets it holds of.                         *)
LEMMA SubsetInduction ==
  ASSUME NEW S, IsFiniteSet(S), NEW G,
         \A T \in SUBSET S : (\A U \in (SUBSET T) \ {T} : U \in G) => T \in G
  PROVE  S \in G
<1> DEFINE R == StrictSubsetOrdering(S)
           B == {T \in SUBSET S : T \notin G}
<1>1. IsWellFoundedOn(R, SUBSET S)
  BY FS_StrictSubsetOrderingWellFounded, FS_FiniteSubsetsOfFinite
<1>2. SUFFICES ASSUME S \notin G PROVE FALSE
  OBVIOUS
<1>3. B # {} /\ B \subseteq SUBSET S
  BY <1>2
<1> HIDE DEF R, B
<1>4. PICK T \in B : \A U \in B : ~ (<<U, T>> \in R)
  BY <1>1, <1>3, WFMin
<1>5. T \in SUBSET S /\ T \notin G
  BY DEF B
<1>6. \A U \in (SUBSET T) \ {T} : U \in G
  <2> SUFFICES ASSUME NEW U \in (SUBSET T) \ {T}, U \notin G PROVE FALSE
    OBVIOUS
  <2>1. U \in B /\ U \subseteq T /\ U # T /\ U \in SUBSET S
    BY <1>5 DEF B
  <2>2. <<U, T>> \in R
    BY <1>5, <2>1 DEF R, StrictSubsetOrdering
  <2> QED
    BY <1>4, <2>1, <2>2
<1> QED
  BY <1>5, <1>6

(* g is the table that SumFunctionOnSet() makes on its way to the sum of f *)
(* over S: it takes the elements of each subset one by one.                *)
Pick(s) == CHOOSE x \in s : TRUE

Tabulates(g, f, S) ==
  g = [s \in SUBSET S |-> IF s = {} THEN 0 ELSE f[Pick(s)] + g[s \ {Pick(s)}]]

LEMMA SumIsTabulated ==
  ASSUME NEW f, NEW S
  PROVE  SumFunctionOnSet(f, S) = (CHOOSE g : Tabulates(g, f, S))[S]
BY DEF SumFunctionOnSet, FoldFunctionOnSet, MapThenFoldSet, Tabulates, Pick

LEMMA PickType == ASSUME NEW s, s # {} PROVE Pick(s) \in s
BY DEF Pick

LEMMA TableEntry ==
  ASSUME NEW g, NEW f, NEW S, Tabulates(g, f, S)
  PROVE  /\ g[{}] = 0
         /\ \A s \in SUBSET S : s # {} => g[s] = f[Pick(s)] + g[s \ {Pick(s)}]
BY DEF Tabulates

(* The table over a subset is part of the table.                           *)
LEMMA TableRestricts ==
  ASSUME NEW g, NEW f, NEW S, Tabulates(g, f, S), NEW T \in SUBSET S
  PROVE  Tabulates([s \in SUBSET T |-> g[s]], f, T)
<1> DEFINE h == [s \in SUBSET T |-> g[s]]
<1>e. /\ g[{}] = 0
      /\ \A s \in SUBSET S : s # {} => g[s] = f[Pick(s)] + g[s \ {Pick(s)}]
  BY TableEntry
<1>1. \A s \in SUBSET T : h[s] = IF s = {} THEN 0 ELSE f[Pick(s)] + g[s \ {Pick(s)}]
  <2> SUFFICES ASSUME NEW s \in SUBSET T
               PROVE  g[s] = IF s = {} THEN 0 ELSE f[Pick(s)] + g[s \ {Pick(s)}]
    OBVIOUS
  <2>1. s \in SUBSET S
    OBVIOUS
  <2> QED
    BY <1>e, <2>1
<1>2. \A s \in SUBSET T : g[s \ {Pick(s)}] = h[s \ {Pick(s)}]
  OBVIOUS
<1> QED
  BY <1>1, <1>2 DEF Tabulates

(* There is one table for each finite set ...                              *)
LEMMA TablesAgree ==
  ASSUME NEW f, NEW S, IsFiniteSet(S), NEW g, NEW h, Tabulates(g, f, S), Tabulates(h, f, S)
  PROVE  g[S] = h[S]
<1> DEFINE G == {s \in SUBSET S : g[s] = h[s]}
<1>e. /\ g[{}] = 0 /\ h[{}] = 0
      /\ \A s \in SUBSET S : s # {} => /\ g[s] = f[Pick(s)] + g[s \ {Pick(s)}]
                                       /\ h[s] = f[Pick(s)] + h[s \ {Pick(s)}]
  BY TableEntry
<1>1. ASSUME NEW T \in SUBSET S, \A U \in (SUBSET T) \ {T} : U \in G
      PROVE  T \in G
  <2>1. CASE T = {}
    BY <1>e, <2>1
  <2>2. CASE T # {}
    <3>1. T \ {Pick(T)} \in (SUBSET T) \ {T}
      BY <2>2, PickType
    <3>2. g[T \ {Pick(T)}] = h[T \ {Pick(T)}]
      BY <1>1, <3>1
    <3> QED
      BY <1>e, <2>2, <3>2
  <2> QED
    BY <2>1, <2>2
<1> HIDE DEF G
<1>2. S \in G
  BY <1>1, SubsetInduction
<1> QED
  BY <1>2 DEF G

(* ... and there is one at all.                                            *)
LEMMA TableExists ==
  ASSUME NEW f, NEW S, IsFiniteSet(S)
  PROVE  Tabulates(CHOOSE g : Tabulates(g, f, S), f, S)
<1> DEFINE T(s) == CHOOSE g : Tabulates(g, f, s)
           G == {s \in SUBSET S : Tabulates(T(s), f, s)}
<1>1. ASSUME NEW s \in SUBSET S, \A u \in (SUBSET s) \ {s} : u \in G
      PROVE  s \in G
  <2> DEFINE h == [u \in SUBSET s |-> IF u = {} THEN 0
                                      ELSE f[Pick(u)] + T(u \ {Pick(u)})[u \ {Pick(u)}]]
  <2>1. ASSUME NEW u \in (SUBSET s) \ {s} PROVE T(u)[u] = h[u]
    <3>1. Tabulates(T(u), f, u)
      BY <1>1
    <3>2. CASE u = {}
      BY <3>1, <3>2, TableEntry
    <3>3. CASE u # {}
      <4> DEFINE v == u \ {Pick(u)}
      <4>1. v \in (SUBSET s) \ {s} /\ v \in SUBSET u /\ IsFiniteSet(v)
        BY <3>3, FS_Subset
      <4>2. Tabulates(T(v), f, v)
        BY <1>1, <4>1
      <4>3. Tabulates([w \in SUBSET v |-> T(u)[w]], f, v)
        BY <3>1, <4>1, TableRestricts
      <4>4. T(v)[v] = T(u)[v]
        BY <4>1, <4>2, <4>3, TablesAgree
      <4>5. T(u)[u] = f[Pick(u)] + T(u)[v]
        BY <3>1, <3>3, TableEntry
      <4> QED
        BY <3>3, <4>4, <4>5
    <3> QED
      BY <3>2, <3>3
  <2>2. \A u \in SUBSET s : u # {} => u \ {Pick(u)} \in (SUBSET s) \ {s}
    BY PickType
  <2>3. Tabulates(h, f, s)
    <3>1. ASSUME NEW u \in SUBSET s, u # {}
          PROVE  T(u \ {Pick(u)})[u \ {Pick(u)}] = h[u \ {Pick(u)}]
      <4> HIDE DEF T, h
      <4> QED
        BY <2>1, <2>2, <3>1
    <3>2. h = [u \in SUBSET s |-> IF u = {} THEN 0 ELSE f[Pick(u)] + h[u \ {Pick(u)}]]
      <4> HIDE DEF T
      <4> QED
        BY <3>1
    <3> QED
      BY <3>2 DEF Tabulates
  <2>4. Tabulates(T(s), f, s)
    BY <2>3
  <2> QED
    BY <2>4
<1> HIDE DEF G
<1>2. S \in G
  BY <1>1, SubsetInduction
<1> QED
  BY <1>2 DEF G

(* What the sum is, element by element.                                    *)
LEMMA SumEmpty == ASSUME NEW f PROVE SumFunctionOnSet(f, {}) = 0
BY FS_EmptySet, TableExists, TableEntry, SumIsTabulated

LEMMA SumStep ==
  ASSUME NEW f, NEW S, IsFiniteSet(S), S # {}
  PROVE  SumFunctionOnSet(f, S) = f[Pick(S)] + SumFunctionOnSet(f, S \ {Pick(S)})
<1> DEFINE T == S \ {Pick(S)}
           g == CHOOSE g : Tabulates(g, f, S)
           h == CHOOSE h : Tabulates(h, f, T)
<1>1. IsFiniteSet(T) /\ T \in SUBSET S
  BY FS_Subset
<1>2. Tabulates(g, f, S) /\ Tabulates(h, f, T)
  BY <1>1, TableExists
<1>3. SumFunctionOnSet(f, S) = g[S] /\ SumFunctionOnSet(f, T) = h[T]
  BY SumIsTabulated
<1> HIDE DEF g, h
<1>4. Tabulates([s \in SUBSET T |-> g[s]], f, T)
  BY <1>1, <1>2, TableRestricts
<1>5. g[T] = h[T]
  BY <1>1, <1>2, <1>4, TablesAgree
<1>6. g[S] = f[Pick(S)] + g[T]
  BY <1>2, TableEntry
<1> QED
  BY <1>3, <1>5, <1>6

LEMMA SumType ==
  ASSUME NEW S, IsFiniteSet(S), NEW f, \A x \in S : f[x] \in Nat
  PROVE  SumFunctionOnSet(f, S) \in Nat
<1> DEFINE G == {s \in SUBSET S : SumFunctionOnSet(f, s) \in Nat}
<1>1. ASSUME NEW T \in SUBSET S, \A U \in (SUBSET T) \ {T} : U \in G
      PROVE  T \in G
  <2>1. CASE T = {}
    BY <2>1, SumEmpty
  <2>2. CASE T # {}
    <3>1. T \ {Pick(T)} \in (SUBSET T) \ {T} /\ Pick(T) \in S
      BY <2>2, PickType
    <3>2. IsFiniteSet(T)
      BY FS_Subset
    <3>3. SumFunctionOnSet(f, T) = f[Pick(T)] + SumFunctionOnSet(f, T \ {Pick(T)})
      BY <2>2, <3>2, SumStep
    <3>4. SumFunctionOnSet(f, T \ {Pick(T)}) \in Nat /\ f[Pick(T)] \in Nat
      BY <1>1, <3>1
    <3> QED
      BY <3>3, <3>4
  <2> QED
    BY <2>1, <2>2
<1> HIDE DEF G
<1>2. S \in G
  BY <1>1, SubsetInduction
<1> QED
  BY <1>2 DEF G

(* Any element may be taken first.                                         *)
LEMMA SumWithout ==
  ASSUME NEW S, IsFiniteSet(S), NEW f, \A x \in S : f[x] \in Nat, NEW y \in S
  PROVE  SumFunctionOnSet(f, S) = f[y] + SumFunctionOnSet(f, S \ {y})
<1> DEFINE Sum(s) == SumFunctionOnSet(f, s)
           G == {s \in SUBSET S : \A x \in s : Sum(s) = f[x] + Sum(s \ {x})}
<1>0. \A s \in SUBSET S : IsFiniteSet(s) /\ Sum(s) \in Nat
  BY FS_Subset, SumType
<1>1. ASSUME NEW T \in SUBSET S, \A U \in (SUBSET T) \ {T} : U \in G, NEW x \in T
      PROVE  Sum(T) = f[x] + Sum(T \ {x})
  <2> DEFINE p == Pick(T)
  <2>1. p \in T /\ Sum(T) = f[p] + Sum(T \ {p})
    BY <1>0, PickType, SumStep
  <2> HIDE DEF p
  <2>2. CASE x = p
    BY <2>1, <2>2
  <2>3. CASE x # p
    <3>1. T \ {p} \in G /\ T \ {x} \in G
      BY <1>1, <2>1
    <3>2. x \in T \ {p} /\ p \in T \ {x} /\ (T \ {p}) \ {x} = (T \ {x}) \ {p}
      BY <2>1, <2>3
    <3>3. /\ Sum(T \ {p}) = f[x] + Sum((T \ {p}) \ {x})
          /\ Sum(T \ {x}) = f[p] + Sum((T \ {p}) \ {x})
      BY <3>1, <3>2
    <3>4. Sum((T \ {p}) \ {x}) \in Nat /\ f[x] \in Nat /\ f[p] \in Nat
      BY <1>0, <2>1
    <3> HIDE DEF Sum
    <3> QED
      BY <2>1, <3>3, <3>4
  <2> QED
    BY <2>2, <2>3
<1>2. ASSUME NEW T \in SUBSET S, \A U \in (SUBSET T) \ {T} : U \in G PROVE T \in G
  BY <1>1, <1>2
<1> HIDE DEF G
<1>3. S \in G
  BY <1>2, SubsetInduction
<1> QED
  BY <1>3 DEF G

(* The sum depends on the values over the set only.                        *)
LEMMA SumSame ==
  ASSUME NEW S, IsFiniteSet(S), NEW f, NEW g, \A x \in S : f[x] = g[x]
  PROVE  SumFunctionOnSet(f, S) = SumFunctionOnSet(g, S)
<1> DEFINE G == {s \in SUBSET S : SumFunctionOnSet(f, s) = SumFunctionOnSet(g, s)}
<1>1. ASSUME NEW T \in SUBSET S, \A U \in (SUBSET T) \ {T} : U \in G
      PROVE  T \in G
  <2>1. CASE T = {}
    BY <2>1, SumEmpty
  <2>2. CASE T # {}
    <3>1. T \ {Pick(T)} \in (SUBSET T) \ {T} /\ Pick(T) \in S
      BY <2>2, PickType
    <3>2. IsFiniteSet(T)
      BY FS_Subset
    <3>3. /\ SumFunctionOnSet(f, T) = f[Pick(T)] + SumFunctionOnSet(f, T \ {Pick(T)})
          /\ SumFunctionOnSet(g, T) = g[Pick(T)] + SumFunctionOnSet(g, T \ {Pick(T)})
      BY <2>2, <3>2, SumStep
    <3>4. SumFunctionOnSet(f, T \ {Pick(T)}) = SumFunctionOnSet(g, T \ {Pick(T)})
      BY <1>1, <3>1
    <3> QED
      BY <3>1, <3>3, <3>4
  <2> QED
    BY <2>1, <2>2
<1> HIDE DEF G
<1>2. S \in G
  BY <1>1, SubsetInduction
<1> QED
  BY <1>2 DEF G

(* A sum of nothing but zeros.                                             *)
LEMMA SumZero ==
  ASSUME NEW S, IsFiniteSet(S), NEW f, \A x \in S : f[x] = 0
  PROVE  SumFunctionOnSet(f, S) = 0
<1> DEFINE G == {s \in SUBSET S : SumFunctionOnSet(f, s) = 0}
<1>1. ASSUME NEW T \in SUBSET S, \A U \in (SUBSET T) \ {T} : U \in G
      PROVE  T \in G
  <2>1. CASE T = {}
    BY <2>1, SumEmpty
  <2>2. CASE T # {}
    <3>1. T \ {Pick(T)} \in (SUBSET T) \ {T} /\ Pick(T) \in S
      BY <2>2, PickType
    <3>2. IsFiniteSet(T)
      BY FS_Subset
    <3>3. SumFunctionOnSet(f, T) = f[Pick(T)] + SumFunctionOnSet(f, T \ {Pick(T)})
      BY <2>2, <3>2, SumStep
    <3>4. SumFunctionOnSet(f, T \ {Pick(T)}) = 0 /\ f[Pick(T)] = 0
      BY <1>1, <3>1
    <3> QED
      BY <3>3, <3>4
  <2> QED
    BY <2>1, <2>2
<1> HIDE DEF G
<1>2. S \in G
  BY <1>1, SubsetInduction
<1> QED
  BY <1>2 DEF G

(* Two tables of values that differ at y only, y being in the second set   *)
(* and in the first or worth nothing.                                      *)
LEMMA SumChange ==
  ASSUME NEW S, IsFiniteSet(S), NEW f, \A x \in S : f[x] \in Nat,
         NEW g, NEW y \in S, g[y] \in Nat, \A x \in S \ {y} : g[x] = f[x]
  PROVE  SumFunctionOnSet(g, S) = SumFunctionOnSet(f, S) - f[y] + g[y]
<1> DEFINE R == S \ {y}
<1>1. IsFiniteSet(R) /\ \A x \in R : f[x] \in Nat
  BY FS_Subset
<1>2. SumFunctionOnSet(g, R) = SumFunctionOnSet(f, R)
  BY <1>1, SumSame
<1>3. SumFunctionOnSet(f, S) = f[y] + SumFunctionOnSet(f, R)
  BY SumWithout
<1>4. \A x \in S : g[x] \in Nat
  OBVIOUS
<1>5. SumFunctionOnSet(g, S) = g[y] + SumFunctionOnSet(g, R)
  BY <1>4, SumWithout
<1>6. SumFunctionOnSet(f, R) \in Nat /\ f[y] \in Nat
  BY <1>1, SumType
<1> QED
  BY <1>2, <1>3, <1>5, <1>6

(* A new element.                                                          *)
LEMMA SumWith ==
  ASSUME NEW S, IsFiniteSet(S), NEW f, \A x \in S : f[x] \in Nat,
         NEW g, NEW y, y \notin S, g[y] \in Nat, \A x \in S : g[x] = f[x]
  PROVE  SumFunctionOnSet(g, S \cup {y}) = SumFunctionOnSet(f, S) + g[y]
<1> DEFINE T == S \cup {y}
<1>1. IsFiniteSet(T) /\ \A x \in T : g[x] \in Nat
  BY FS_AddElement
<1>2. T \ {y} = S /\ y \in T
  OBVIOUS
<1>3. SumFunctionOnSet(g, T) = g[y] + SumFunctionOnSet(g, S)
  <2>1. SumFunctionOnSet(g, T) = g[y] + SumFunctionOnSet(g, T \ {y})
    BY <1>1, <1>2, SumWithout
  <2> QED
    BY <1>2, <2>1
<1>4. SumFunctionOnSet(g, S) = SumFunctionOnSet(f, S)
  BY SumSame
<1>5. SumFunctionOnSet(f, S) \in Nat
  BY SumType
<1> QED
  BY <1>3, <1>4, <1>5

(* One element is all there is, or one of several.                         *)
LEMMA SumOfOne ==
  ASSUME NEW S, IsFiniteSet(S), NEW f, \A x \in S : f[x] \in Nat, NEW y \in S
  PROVE  /\ f[y] <= SumFunctionOnSet(f, S)
         /\ S = {y} => SumFunctionOnSet(f, S) = f[y]
<1> DEFINE R == S \ {y}
<1>1. IsFiniteSet(R) /\ \A x \in R : f[x] \in Nat
  BY FS_Subset
<1>2. SumFunctionOnSet(f, R) \in Nat
  BY <1>1, SumType
<1>3. SumFunctionOnSet(f, S) = f[y] + SumFunctionOnSet(f, R)
  BY SumWithout
<1>4. S = {y} => R = {}
  OBVIOUS
<1>5. SumFunctionOnSet(f, {}) = 0
  BY SumEmpty
<1> QED
  BY <1>2, <1>3, <1>4, <1>5

(* Max() of a finite set of integers.                                      *)
LEMMA MaxIsGreatest ==
  ASSUME NEW S \in SUBSET Int, IsFiniteSet(S), S # {}
  PROVE  Max(S) \in S /\ \A x \in S : x <= Max(S)
<1> DEFINE G == {s \in SUBSET S : s # {} => \E m \in s : \A x \in s : m >= x}
<1>1. ASSUME NEW T \in SUBSET S, \A U \in (SUBSET T) \ {T} : U \in G
      PROVE  T \in G
  <2> SUFFICES ASSUME T # {} PROVE \E m \in T : \A x \in T : m >= x
    OBVIOUS
  <2> DEFINE R == T \ {Pick(T)}
  <2>1. Pick(T) \in T
    BY PickType
  <2>2. R \in G
    BY <1>1, <2>1
  <2>3. CASE R = {}
    <3>1. (\A x \in T : x = Pick(T)) /\ Pick(T) \in Int
      BY <2>1, <2>3
    <3> QED
      BY <2>1, <3>1
  <2>4. CASE R # {}
    <3>1. PICK m \in R : \A x \in R : m >= x
      BY <2>2, <2>4
    <3>2. m \in T /\ m \in Int /\ Pick(T) \in Int
      BY <2>1, <3>1
    <3>3. CASE m >= Pick(T)
      BY <3>1, <3>2, <3>3
    <3>4. CASE Pick(T) >= m
      <4>1. \A x \in T : Pick(T) >= x
        BY <3>1, <3>2, <3>4
      <4> QED
        BY <2>1, <4>1
    <3> QED
      BY <3>2, <3>3, <3>4
  <2> QED
    BY <2>3, <2>4
<1> HIDE DEF G
<1>2. S \in G
  BY <1>1, SubsetInduction
<1>3. \E m \in S : \A x \in S : m >= x
  BY <1>2 DEF G
<1> QED
  BY <1>3 DEF Max

-----------------------------------------------------------------------------
(***************************************************************************)
(* The invariant.  What a request relies on is what the rows say, up to    *)
(* the payments that others have committed meanwhile.                      *)
(***************************************************************************)
OpenTx(q) == q.at \notin {"idle", "entryNo", "entry"}
Holds(q)  == q.at \in {"sum", "commit"}

(* No invoice of the stay but the one at hand.                             *)
Only(q) == InvoicesOf(q.b) \subseteq {q.i}

ShapeOK(q) ==
  /\ q.at = "find" => q.op = "pay"
  /\ q.at \in {"number", "create"} => q.op \in {"pay", "financeInvoice"} /\ ~ q.fresh
  /\ q.at = "insert" => q.op = "pay"
  /\ q.at = "mark" => q.op \in {"pay", "financePay"}
  /\ Holds(q) => \/ q.op \in {"pay", "financePay"}
                 \/ q.op = "financeInvoice" /\ q.fresh
  /\ q.fresh => /\ q.op \in {"pay", "financeInvoice"}
                /\ q.at \in {"insert", "mark", "sum", "commit"}
  /\ OpenTx(q) /\ q.op # "financeInvoice" => q.amount > 0
  /\ OpenTx(q) /\ q.op = "financeInvoice" => q.amount <= q.total + Tolerance
  /\ OpenTx(q) /\ q.op = "pay" => q.seen + q.amount <= q.due

(* The invoice at hand is new, or one of the stay.                         *)
RefOK(q) ==
  q.at \in {"insert", "mark", "sum", "commit"} =>
    /\ q.i \in Invoices
    /\ IF q.fresh THEN q.i \notin Issued ELSE q.i \in Issued /\ invoice[q.i].b = q.b

SeenOK(q) == OpenTx(q) /\ q.op # "financeInvoice" => q.seen <= PaidOn(q.b)

(* The status computed is right if nobody has paid since, and never claims *)
(* too much.                                                               *)
MarkOK(q) ==
  q.at \in {"mark", "sum", "commit"} =>
    IF q.fresh
    THEN q.mark = Derive(q.total, q.amount)
    ELSE /\ q.mark = "PAID" => invoice[q.i].paid + q.amount >= invoice[q.i].total
         /\ q.seen = PaidOn(q.b) =>
              q.mark = Derive(invoice[q.i].total, invoice[q.i].paid + q.amount)

DueOK(q) ==
  /\ q.op = "pay" /\ OpenTx(q) /\ q.b \notin repriced => q.due = stay[q.b].price
  /\ q.op # "pay" /\ q.at = "commit" /\ Only(q) => q.due = TotalAsSeen(q)

(* The invoice is locked when the payments are added up.                   *)
SumOK(q) == q.at = "commit" /\ Only(q) => q.sum = PaidOn(q.b) + q.amount

LeftOK(q) ==
  q.op = "financePay" /\ OpenTx(q) /\ Only(q)
    => q.seen + q.amount <= invoice[q.i].total + Tolerance

ReqOK(q) ==
  ShapeOK(q) /\ RefOK(q) /\ SeenOK(q) /\ MarkOK(q) /\ DueOK(q) /\ SumOK(q) /\ LeftOK(q)

(* Two requests make different invoices, and lock different ones.          *)
Differ(q, r) ==
  /\ q.fresh /\ r.fresh => q.i # r.i
  /\ Holds(q) /\ Holds(r) => q.i # r.i

Apart == \A d, e \in Desks : d # e => Differ(req[d], req[e])

Bounded == \E n \in Nat : \A e \in entries : e.no <= n

(* What request q, committed, still has to post for stay b.                *)
Owed(q, src, b) ==
  IF q.b # b \/ ~ Committed(q) THEN 0
  ELSE CASE src = "PAYMENT" -> IF q.src = "FOLIO" THEN 0 ELSE q.amount
         [] src = "INVOICE" -> IF q.src = "INVOICE" THEN q.total ELSE 0
         [] src = "FOLIO"   -> IF q.src = "FOLIO" THEN q.amount ELSE 0

AllOwed(src, b) == SumFunctionOnSet([d \in Desks |-> Owed(req[d], src, b)], Desks)

DailyOf(b) == {i \in InvoicesOf(b) : invoice[i].series = Daily}

Booked(src, b) ==
  CASE src = "PAYMENT" -> PaidOn(b)
    [] src = "INVOICE" -> SumFunctionOnSet(Totals, DailyOf(b))
    [] src = "FOLIO"   -> stay[b].charges

(* The books are right but for what committed requests still have to post. *)
BooksBalance ==
  \A src \in Sources, b \in Bookings \ cut :
    posted[src][b] + AllOwed(src, b) = Booked(src, b)

Basis == TypeOK /\ Bounded /\ Apart /\ \A d \in Desks : ReqOK(req[d])

-----------------------------------------------------------------------------
(***************************************************************************)
(* Types.                                                                  *)
(***************************************************************************)
LEMMA NoInvoiceType ==
  NoInvoice \in InvoiceRows /\ NoInvoice.status = "NONE" /\ NoInvoice.b \in Bookings
<1>1. (CHOOSE b \in Bookings : TRUE) \in Bookings
  BY BillingAssumption
<1> QED
  BY <1>1 DEF NoInvoice, InvoiceRows

LEMMA IdleType ==
  /\ Idle \in Request
  /\ Idle.op = "pay" /\ Idle.at = "idle" /\ ~ Idle.fresh
<1>1. NoInvoice.b \in Bookings
  BY NoInvoiceType
<1> QED
  BY <1>1 DEF Idle, Request, AllOps, Stages, PaymentStatus, Sources

LEMMA IdleOK == ReqOK(Idle) /\ \A src, b : Owed(Idle, src, b) = 0
BY IdleType DEF ReqOK, ShapeOK, RefOK, SeenOK, MarkOK, DueOK, SumOK, LeftOK, OpenTx, Holds,
                Owed, Committed

LEMMA DeriveType == ASSUME NEW t, NEW p PROVE Derive(t, p) \in PaymentStatus
BY DEF Derive, PaymentStatus

LEMMA InvoicesFinite ==
  /\ IsFiniteSet(Invoices)
  /\ \A S \in SUBSET Invoices : IsFiniteSet(S)
<1>1. MaxInvoices \in Nat
  BY BillingAssumption
<1>2. IsFiniteSet(Invoices)
  BY <1>1, FS_Interval DEF Invoices
<1> QED
  BY <1>2, FS_Subset

LEMMA OfTypes ==
  ASSUME NEW b
  PROVE  InvoicesOf(b) \in SUBSET Invoices /\ DailyOf(b) \in SUBSET Invoices
BY DEF InvoicesOf, DailyOf, Issued

LEMMA SumTypes ==
  ASSUME TypeOK, NEW b
  PROVE  /\ PaidOn(b) \in Nat /\ Invoiced(b) \in Nat
         /\ SumFunctionOnSet(Totals, DailyOf(b)) \in Nat
<1>1. \A i \in Invoices : Paids[i] \in Nat /\ Totals[i] \in Nat
  BY DEF TypeOK, InvoiceRows, Paids, Totals
<1>2. ASSUME NEW S \in SUBSET Invoices
      PROVE  SumFunctionOnSet(Paids, S) \in Nat /\ SumFunctionOnSet(Totals, S) \in Nat
  BY <1>1, InvoicesFinite, SumType
<1> QED
  BY <1>2, OfTypes DEF PaidOn, Invoiced

(* Only the rows and the requests decide what ReqOK says.                  *)
LEMMA SameRows ==
  ASSUME UNCHANGED <<stay, invoice, repriced>>, NEW q, ReqOK(q)
  PROVE  ReqOK(q)'
BY DEF ReqOK, ShapeOK, RefOK, SeenOK, MarkOK, DueOK, SumOK, LeftOK, OpenTx, Holds, Only,
       PaidOn, Paids, InvoicesOf, Issued, TotalAsSeen

-----------------------------------------------------------------------------
(***************************************************************************)
(* What a step does.  Most change the request only (Quiet) ...             *)
(***************************************************************************)
Turns(d, r) == req' = [req EXCEPT ![d] = r]

Fits(d, r) ==
  /\ r \in Request /\ ReqOK(r)
  /\ \A e \in Desks \ {d} : Differ(r, req[e])

SameOwed(q, r) == \A src \in Sources, b \in Bookings : Owed(q, src, b) = Owed(r, src, b)

Quiet(d) ==
  /\ \E r : Turns(d, r) /\ Fits(d, r) /\ SameOwed(req[d], r)
  /\ UNCHANGED <<entries, posted, stay, invoice, stale, repriced, cut>>

LEMMA InvoiceFields ==
  ASSUME TypeOK, NEW i \in Invoices
  PROVE  /\ invoice[i].b \in Bookings /\ invoice[i].total \in Nat /\ invoice[i].paid \in Nat
         /\ invoice[i].status \in PaymentStatus \cup {"NONE"}
BY DEF TypeOK, InvoiceRows

LEMMA StayFields ==
  ASSUME TypeOK, NEW b \in Bookings
  PROVE  /\ stay[b].price \in Nat \ {0} /\ stay[b].price \in Prices /\ stay[b].paid \in Nat
         /\ stay[b].charges \in Nat
BY BillingAssumption DEF TypeOK, StayRow

(* A request that has not come to its invoice, and posts nothing.          *)
LEMMA NotYet ==
  ASSUME NEW d \in Desks, NEW r, ~ r.fresh, r.at \in {"find", "number", "create", "insert", "mark"}
  PROVE  /\ \A e \in Desks \ {d} : Differ(r, req[e])
         /\ \A src \in Sources, b \in Bookings : Owed(r, src, b) = 0
BY DEF Differ, Holds, Owed, Committed

LEMMA FreeOwesNothing ==
  ASSUME NEW q, ~ Committed(q)
  PROVE  \A src \in Sources, b \in Bookings : Owed(q, src, b) = 0
BY DEF Owed

LEMMA BeginPayQuiet ==
  ASSUME Basis, NEW d \in Desks, NEW b \in Bookings, NEW a \in Amounts, BeginPay(d, b, a)
  PROVE  Quiet(d)
<1> USE DEF Basis
<1> DEFINE r == [Idle EXCEPT !.op = "pay", !.at = "find", !.b = b, !.amount = a,
                             !.seen = PaidOn(b), !.due = stay[b].price,
                             !.total = stay[b].price]
<1>1. Turns(d, r) /\ Free(d) /\ a <= stay[b].price - PaidOn(b)
      /\ UNCHANGED <<entries, posted, stay, invoice, stale, repriced, cut>>
  BY DEF BeginPay, Turns
<1>2. a \in Nat \ {0} /\ PaidOn(b) \in Nat /\ stay[b].price \in Nat
  BY BillingAssumption, SumTypes, StayFields
<1>3. r \in Request
  BY <1>2, IdleType DEF Request, AllOps, Stages
<1>4. /\ r.op = "pay" /\ r.at = "find" /\ r.b = b /\ r.amount = a /\ r.seen = PaidOn(b)
      /\ r.due = stay[b].price /\ ~ r.fresh
  BY <1>3, IdleType DEF Request
<1> HIDE DEF r
<1>5. ReqOK(r)
  BY <1>1, <1>2, <1>4
     DEF ReqOK, ShapeOK, RefOK, SeenOK, MarkOK, DueOK, SumOK, LeftOK, OpenTx, Holds
<1>6. \A e \in Desks \ {d} : Differ(r, req[e])
  BY <1>4, NotYet
<1>7. SameOwed(req[d], r)
  BY <1>1, <1>4, FreeOwesNothing, NotYet DEF SameOwed, Free, Committed
<1> QED
  BY <1>1, <1>3, <1>5, <1>6, <1>7 DEF Quiet, Fits

LEMMA BeginFinancePayQuiet ==
  ASSUME Basis, NEW d \in Desks, NEW i \in Invoices, NEW a \in Amounts, BeginFinancePay(d, i, a)
  PROVE  Quiet(d)
<1> USE DEF Basis
<1> DEFINE b == invoice[i].b
           r == [Idle EXCEPT !.op = "financePay", !.at = "mark", !.b = b,
                             !.amount = a, !.i = i, !.seen = PaidOn(b),
                             !.mark = Derive(invoice[i].total, invoice[i].paid + a)]
<1>1. Turns(d, r) /\ Free(d) /\ i \in Issued
      /\ a <= invoice[i].total - invoice[i].paid + Tolerance
      /\ UNCHANGED <<entries, posted, stay, invoice, stale, repriced, cut>>
  BY DEF BeginFinancePay, Turns
<1>2. /\ a \in Nat \ {0} /\ PaidOn(b) \in Nat /\ b \in Bookings
      /\ invoice[i].total \in Nat /\ invoice[i].paid \in Nat /\ Tolerance \in Nat
  BY BillingAssumption, SumTypes, InvoiceFields
<1>3. r \in Request
  BY <1>2, IdleType, DeriveType DEF Request, AllOps, Stages
<1>4. /\ r.op = "financePay" /\ r.at = "mark" /\ r.b = b /\ r.amount = a
      /\ r.seen = PaidOn(b) /\ r.i = i /\ ~ r.fresh
      /\ r.mark = Derive(invoice[i].total, invoice[i].paid + a)
  BY <1>3, IdleType DEF Request
<1>5. InvoicesOf(b) \subseteq {i} => PaidOn(b) = invoice[i].paid
  <2>1. i \in InvoicesOf(b) /\ Paids[i] = invoice[i].paid
    BY <1>1 DEF InvoicesOf, Paids
  <2>2. \A j \in InvoicesOf(b) : Paids[j] \in Nat
    BY OfTypes, InvoiceFields DEF Paids
  <2> QED
    BY <2>1, <2>2, OfTypes, InvoicesFinite, SumOfOne DEF PaidOn
<1> HIDE DEF r
<1>6. MarkOK(r)
  BY <1>2, <1>4 DEF MarkOK, Derive
<1>7. ReqOK(r)
  BY <1>1, <1>2, <1>4, <1>5, <1>6
     DEF ReqOK, ShapeOK, RefOK, SeenOK, DueOK, SumOK, LeftOK, OpenTx, Holds, Only
<1>8. \A e \in Desks \ {d} : Differ(r, req[e])
  BY <1>4, NotYet
<1>9. SameOwed(req[d], r)
  BY <1>1, <1>4, FreeOwesNothing, NotYet DEF SameOwed, Free, Committed
<1> QED
  BY <1>1, <1>3, <1>7, <1>8, <1>9 DEF Quiet, Fits

LEMMA BeginFinanceInvoiceQuiet ==
  ASSUME Basis, NEW d \in Desks, NEW b \in Bookings, NEW t \in Prices,
         NEW a \in Amounts \cup {0}, BeginFinanceInvoice(d, b, t, a)
  PROVE  Quiet(d)
<1> USE DEF Basis
<1> DEFINE r == [Idle EXCEPT !.op = "financeInvoice", !.at = "number", !.b = b,
                             !.amount = a, !.total = t, !.seen = PaidOn(b)]
<1>1. Turns(d, r) /\ Free(d) /\ a <= t + Tolerance
      /\ UNCHANGED <<entries, posted, stay, invoice, stale, repriced, cut>>
  BY DEF BeginFinanceInvoice, Turns
<1>2. a \in Nat /\ t \in Nat /\ PaidOn(b) \in Nat /\ Tolerance \in Nat
  BY BillingAssumption, SumTypes
<1>3. r \in Request
  BY <1>2, IdleType DEF Request, AllOps, Stages
<1>4. /\ r.op = "financeInvoice" /\ r.at = "number" /\ r.b = b /\ r.amount = a
      /\ r.total = t /\ ~ r.fresh
  BY <1>3, IdleType DEF Request
<1> HIDE DEF r
<1>5. ReqOK(r)
  BY <1>1, <1>2, <1>4
     DEF ReqOK, ShapeOK, RefOK, SeenOK, MarkOK, DueOK, SumOK, LeftOK, OpenTx, Holds
<1>6. \A e \in Desks \ {d} : Differ(r, req[e])
  BY <1>4, NotYet
<1>7. SameOwed(req[d], r)
  BY <1>1, <1>4, FreeOwesNothing, NotYet DEF SameOwed, Free, Committed
<1> QED
  BY <1>1, <1>3, <1>5, <1>6, <1>7 DEF Quiet, Fits

LEMMA FindInvoiceQuiet ==
  ASSUME Basis, NEW d \in Desks, FindInvoice(d)
  PROVE  Quiet(d)
<1> USE DEF Basis
<1>q. req[d] \in Request /\ ReqOK(req[d]) /\ req[d].at = "find"
  BY DEF TypeOK, FindInvoice
<1>u. UNCHANGED <<entries, posted, stay, invoice, stale, repriced, cut>>
  BY DEF FindInvoice
<1>f. req[d].op = "pay" /\ ~ req[d].fresh
  BY <1>q DEF ReqOK, ShapeOK
<1>1. CASE InvoicesOf(req[d].b) = {}
  <2> DEFINE r == [req[d] EXCEPT !.at = "number"]
  <2>1. req' = [req EXCEPT ![d].at = "number"]
    BY <1>1 DEF FindInvoice
  <2>2. Turns(d, r)
    BY <2>1 DEF Turns, TypeOK
  <2>3. r \in Request
    BY <1>q DEF Request, Stages
  <2>4. /\ r.op = "pay" /\ r.at = "number" /\ r.b = req[d].b /\ r.amount = req[d].amount
        /\ r.seen = req[d].seen /\ r.due = req[d].due /\ ~ r.fresh
    BY <1>q, <1>f DEF Request
  <2> HIDE DEF r
  <2>5. ReqOK(r)
    BY <1>q, <1>f, <2>4
       DEF ReqOK, ShapeOK, RefOK, SeenOK, MarkOK, DueOK, SumOK, LeftOK, OpenTx, Holds
  <2>6. \A e \in Desks \ {d} : Differ(r, req[e])
    BY <2>4, NotYet
  <2>7. SameOwed(req[d], r)
    BY <1>q, <2>4, FreeOwesNothing DEF SameOwed, Committed
  <2> QED
    BY <1>u, <2>2, <2>3, <2>5, <2>6, <2>7 DEF Quiet, Fits
<1>2. CASE InvoicesOf(req[d].b) # {}
  <2> DEFINE i == Max(InvoicesOf(req[d].b))
             r == [req[d] EXCEPT !.at = "insert", !.i = i]
  <2>1. req' = [req EXCEPT ![d].at = "insert", ![d].i = Max(InvoicesOf(req[d].b))]
    BY <1>2 DEF FindInvoice
  <2>2. Turns(d, r)
    BY <2>1 DEF Turns, TypeOK
  <2>i. i \in InvoicesOf(req[d].b)
    <3>1. InvoicesOf(req[d].b) \in SUBSET Int
      BY OfTypes DEF Invoices
    <3>2. IsFiniteSet(InvoicesOf(req[d].b))
      BY OfTypes, InvoicesFinite
    <3> QED
      BY <1>2, <3>1, <3>2, MaxIsGreatest
  <2>j. i \in Invoices /\ i \in Issued /\ invoice[i].b = req[d].b
    BY <2>i DEF InvoicesOf, Issued
  <2> HIDE DEF i
  <2>3. r \in Request
    BY <1>q, <2>j DEF Request, Stages
  <2>4. /\ r.op = "pay" /\ r.at = "insert" /\ r.b = req[d].b /\ r.amount = req[d].amount
        /\ r.seen = req[d].seen /\ r.due = req[d].due /\ ~ r.fresh /\ r.i = i
    BY <1>q, <1>f DEF Request
  <2> HIDE DEF r
  <2>5. ReqOK(r)
    BY <1>q, <1>f, <2>4, <2>j
       DEF ReqOK, ShapeOK, RefOK, SeenOK, MarkOK, DueOK, SumOK, LeftOK, OpenTx, Holds
  <2>6. \A e \in Desks \ {d} : Differ(r, req[e])
    BY <2>4, NotYet
  <2>7. SameOwed(req[d], r)
    BY <1>q, <2>4, FreeOwesNothing DEF SameOwed, Committed
  <2> QED
    BY <1>u, <2>2, <2>3, <2>5, <2>6, <2>7 DEF Quiet, Fits
<1> QED
  BY <1>1, <1>2

LEMMA PickInvoiceNoQuiet ==
  ASSUME Basis, NEW d \in Desks, PickInvoiceNo(d)
  PROVE  Quiet(d)
<1> USE DEF Basis
<1>q. req[d] \in Request /\ ReqOK(req[d]) /\ req[d].at = "number"
  BY DEF TypeOK, PickInvoiceNo
<1>u. UNCHANGED <<entries, posted, stay, invoice, stale, repriced, cut>>
  BY DEF PickInvoiceNo
<1>f. req[d].op \in {"pay", "financeInvoice"} /\ ~ req[d].fresh
  BY <1>q DEF ReqOK, ShapeOK
<1>1. PICK k \in 1 .. MaxInvoices + 1 : req' = [req EXCEPT ![d].at = "create", ![d].k = k]
  BY DEF PickInvoiceNo
<1>k. k \in Nat
  BY BillingAssumption
<1> DEFINE r == [req[d] EXCEPT !.at = "create", !.k = k]
<1>2. Turns(d, r)
  BY <1>1 DEF Turns, TypeOK
<1>3. r \in Request
  BY <1>q, <1>k DEF Request, Stages
<1>4. /\ r.op = req[d].op /\ r.at = "create" /\ r.b = req[d].b /\ r.amount = req[d].amount
      /\ r.total = req[d].total /\ r.seen = req[d].seen /\ r.due = req[d].due /\ ~ r.fresh
  BY <1>q, <1>f DEF Request
<1> HIDE DEF r
<1>5. ReqOK(r)
  BY <1>q, <1>f, <1>4
     DEF ReqOK, ShapeOK, RefOK, SeenOK, MarkOK, DueOK, SumOK, LeftOK, OpenTx, Holds
<1>6. \A e \in Desks \ {d} : Differ(r, req[e])
  BY <1>4, NotYet
<1>7. SameOwed(req[d], r)
  BY <1>q, <1>4, FreeOwesNothing DEF SameOwed, Committed
<1> QED
  BY <1>u, <1>2, <1>3, <1>5, <1>6, <1>7 DEF Quiet, Fits

LEMMA InsertPaymentQuiet ==
  ASSUME Basis, NEW d \in Desks, InsertPayment(d)
  PROVE  Quiet(d)
<1> USE DEF Basis
<1>q. req[d] \in Request /\ ReqOK(req[d]) /\ req[d].at = "insert"
  BY DEF TypeOK, InsertPayment
<1>u. UNCHANGED <<entries, posted, stay, invoice, stale, repriced, cut>>
  BY DEF InsertPayment
<1>f. req[d].op = "pay" /\ req[d].i \in Invoices
  BY <1>q DEF ReqOK, ShapeOK, RefOK
<1> DEFINE m == Derive(TotalAsSeen(req[d]), PaidAsSeen(req[d]) + req[d].amount)
           r == [req[d] EXCEPT !.at = "mark", !.mark = m]
<1>1. req' = [req EXCEPT ![d].at = "mark", ![d].mark = m]
  BY DEF InsertPayment
<1>m. m \in PaymentStatus
  BY DeriveType
<1>2. Turns(d, r)
  BY <1>1 DEF Turns, TypeOK
<1>3. r \in Request
  <2> HIDE DEF m
  <2> QED
    BY <1>q, <1>m DEF Request, Stages
<1>4. /\ r.op = "pay" /\ r.at = "mark" /\ r.b = req[d].b /\ r.amount = req[d].amount
      /\ r.total = req[d].total /\ r.seen = req[d].seen /\ r.due = req[d].due
      /\ r.fresh = req[d].fresh /\ r.i = req[d].i /\ r.mark = m
  BY <1>q, <1>f DEF Request
<1>n. /\ req[d].amount \in Nat /\ invoice[req[d].i].paid \in Nat
      /\ invoice[req[d].i].total \in Nat /\ req[d].total \in Nat /\ req[d].fresh \in BOOLEAN
  BY <1>q, <1>f, InvoiceFields DEF Request
<1> HIDE DEF r
<1>5. MarkOK(r)
  BY <1>4, <1>n DEF MarkOK, TotalAsSeen, PaidAsSeen, Derive
<1> HIDE DEF m
<1>6. ReqOK(r)
  BY <1>q, <1>f, <1>4, <1>5
     DEF ReqOK, ShapeOK, RefOK, SeenOK, DueOK, SumOK, LeftOK, OpenTx, Holds
<1>7. \A e \in Desks \ {d} : Differ(r, req[e])
  BY <1>4 DEF Apart, Differ, Holds
<1>8. SameOwed(req[d], r)
  BY <1>q, <1>4, FreeOwesNothing DEF SameOwed, Committed
<1> QED
  BY <1>u, <1>2, <1>3, <1>6, <1>7, <1>8 DEF Quiet, Fits

(* The update waits for whoever has locked the invoice.                    *)
LEMMA MarkInvoiceQuiet ==
  ASSUME Basis, NEW d \in Desks, MarkInvoice(d)
  PROVE  Quiet(d)
<1> USE DEF Basis
<1>q. req[d] \in Request /\ ReqOK(req[d]) /\ req[d].at = "mark"
  BY DEF TypeOK, MarkInvoice
<1>u. UNCHANGED <<entries, posted, stay, invoice, stale, repriced, cut>>
  BY DEF MarkInvoice
<1>f. req[d].op \in {"pay", "financePay"} /\ req[d].i \in Invoices
  BY <1>q DEF ReqOK, ShapeOK, RefOK
<1> DEFINE r == [req[d] EXCEPT !.at = "sum"]
<1>1. req' = [req EXCEPT ![d].at = "sum"]
  BY DEF MarkInvoice, Goto
<1>2. Turns(d, r)
  BY <1>1 DEF Turns, TypeOK
<1>3. r \in Request
  BY <1>q DEF Request, Stages
<1>4. /\ r.op = req[d].op /\ r.at = "sum" /\ r.b = req[d].b /\ r.amount = req[d].amount
      /\ r.total = req[d].total /\ r.seen = req[d].seen /\ r.due = req[d].due
      /\ r.fresh = req[d].fresh /\ r.i = req[d].i /\ r.mark = req[d].mark
  BY <1>q, <1>f DEF Request
<1> HIDE DEF r
<1>5. MarkOK(r)
  BY <1>q, <1>4 DEF ReqOK, MarkOK
<1>6. ReqOK(r)
  BY <1>q, <1>f, <1>4, <1>5
     DEF ReqOK, ShapeOK, RefOK, SeenOK, DueOK, SumOK, LeftOK, OpenTx, Holds, Only
<1>7. \A e \in Desks \ {d} : Differ(r, req[e])
  BY <1>4 DEF Apart, Differ, Holds, MarkInvoice, HoldsInvoice
<1>8. SameOwed(req[d], r)
  BY <1>q, <1>4, FreeOwesNothing DEF SameOwed, Committed
<1> QED
  BY <1>u, <1>2, <1>3, <1>6, <1>7, <1>8 DEF Quiet, Fits

LEMMA SumUpQuiet ==
  ASSUME Basis, NEW d \in Desks, SumUp(d)
  PROVE  Quiet(d)
<1> USE DEF Basis
<1>q. req[d] \in Request /\ ReqOK(req[d]) /\ req[d].at = "sum"
  BY DEF TypeOK, SumUp
<1>u. UNCHANGED <<entries, posted, stay, invoice, stale, repriced, cut>>
  BY DEF SumUp
<1> DEFINE b == req[d].b
           i == req[d].i
           paid == PaidOn(b) + req[d].amount
           due == IF req[d].op = "pay" THEN req[d].due
                  ELSE Invoiced(b) + (IF req[d].fresh THEN req[d].total ELSE 0)
           r == [req[d] EXCEPT !.at = "commit", !.sum = paid, !.due = due]
<1>f. /\ i \in Invoices /\ Holds(req[d])
      /\ IF req[d].fresh THEN i \notin Issued ELSE i \in Issued /\ invoice[i].b = b
      /\ req[d].op \in {"pay", "financePay"} \/ (req[d].op = "financeInvoice" /\ req[d].fresh)
  BY <1>q DEF ReqOK, ShapeOK, RefOK, Holds
<1>1. req' = [req EXCEPT ![d].at = "commit", ![d].sum = paid, ![d].due = due]
  BY DEF SumUp
<1>n. /\ req[d].amount \in Nat /\ PaidOn(b) \in Nat /\ Invoiced(b) \in Nat
      /\ req[d].total \in Nat /\ req[d].due \in Nat /\ req[d].fresh \in BOOLEAN
  BY <1>q, SumTypes DEF Request
<1>m. paid \in Nat /\ due \in Nat
  BY <1>n
<1>2. Turns(d, r)
  BY <1>1 DEF Turns, TypeOK
<1>3. r \in Request
  <2> HIDE DEF paid, due
  <2> QED
    BY <1>q, <1>m DEF Request, Stages
<1>4. /\ r.op = req[d].op /\ r.at = "commit" /\ r.b = b /\ r.amount = req[d].amount
      /\ r.total = req[d].total /\ r.seen = req[d].seen /\ r.due = due /\ r.sum = paid
      /\ r.fresh = req[d].fresh /\ r.i = i /\ r.mark = req[d].mark
  BY <1>q DEF Request
<1> HIDE DEF r
<1>5. MarkOK(r)
  BY <1>q, <1>4 DEF ReqOK, MarkOK
<1>6. ASSUME InvoicesOf(b) \subseteq {i}
      PROVE  Invoiced(b) = IF req[d].fresh THEN 0 ELSE invoice[i].total
  <2>1. CASE req[d].fresh
    <3>1. InvoicesOf(b) = {}
      BY <1>6, <1>f, <2>1 DEF InvoicesOf
    <3> QED
      BY <2>1, <3>1, SumEmpty DEF Invoiced
  <2>2. CASE ~ req[d].fresh
    <3>1. InvoicesOf(b) = {i} /\ Totals[i] = invoice[i].total
      BY <1>6, <1>f, <2>2 DEF InvoicesOf, Totals
    <3>2. \A j \in InvoicesOf(b) : Totals[j] \in Nat
      BY OfTypes, InvoiceFields DEF Totals
    <3> QED
      BY <2>2, <3>1, <3>2, OfTypes, InvoicesFinite, SumOfOne DEF Invoiced
  <2> QED
    BY <2>1, <2>2
<1>7. DueOK(r)
  <2>1. req[d].op = "pay" /\ b \notin repriced => due = stay[b].price
    BY <1>q DEF ReqOK, DueOK, OpenTx
  <2>2. req[d].op # "pay" /\ InvoicesOf(b) \subseteq {i} => due = TotalAsSeen(req[d])
    BY <1>6, <1>n, InvoiceFields, <1>f DEF TotalAsSeen
  <2> HIDE DEF due
  <2> QED
    BY <1>4, <2>1, <2>2 DEF DueOK, TotalAsSeen, Only, OpenTx
<1>8. SumOK(r)
  BY <1>4 DEF SumOK
<1>9. req[d].op = "pay" => due = req[d].due
  OBVIOUS
<1> HIDE DEF paid, due
<1>a. ReqOK(r)
  BY <1>q, <1>f, <1>4, <1>5, <1>7, <1>8, <1>9
     DEF ReqOK, ShapeOK, RefOK, SeenOK, LeftOK, OpenTx, Holds, Only
<1>b. \A e \in Desks \ {d} : Differ(r, req[e])
  BY <1>f, <1>4 DEF Apart, Differ, Holds
<1>c. SameOwed(req[d], r)
  BY <1>q, <1>4, FreeOwesNothing DEF SameOwed, Committed
<1> QED
  BY <1>u, <1>2, <1>3, <1>a, <1>b, <1>c DEF Quiet, Fits

(* The next number is a number.                                            *)
LEMMA NextEntryNoType ==
  ASSUME TypeOK, Bounded, NEW h
  PROVE  NextEntryNo(h) \in Nat
<1> DEFINE S == EntryNosOf(h) \cup {0}
<1>1. PICK n \in Nat : \A e \in entries : e.no <= n
  BY DEF Bounded
<1>2. S \in SUBSET (0 .. n)
  BY <1>1 DEF TypeOK, EntryNosOf
<1>3. IsFiniteSet(S)
  <2>1. IsFiniteSet(0 .. n)
    BY FS_Interval
  <2> QED
    BY <1>2, <2>1, FS_Subset
<1>4. Max(S) \in S
  <2>1. S \in SUBSET Int /\ S # {}
    BY <1>2
  <2> HIDE DEF S
  <2> QED
    BY <1>3, <2>1, MaxIsGreatest
<1>5. Max(S) \in Nat /\ PadMax \in Nat
  BY <1>2, <1>4, JournalAssumption
<1> QED
  BY <1>5 DEF NextEntryNo, LastEntryNo

LEMMA PickEntryNoQuiet ==
  ASSUME Basis, NEW d \in Desks, PickEntryNo(d)
  PROVE  Quiet(d)
<1> USE DEF Basis
<1>q. req[d] \in Request /\ ReqOK(req[d]) /\ req[d].at = "entryNo"
  BY DEF TypeOK, PickEntryNo
<1>u. UNCHANGED <<entries, posted, stay, invoice, stale, repriced, cut>>
  BY DEF PickEntryNo
<1> DEFINE n == NextEntryNo(HotelOf[req[d].b])
           r == [req[d] EXCEPT !.at = "entry", !.no = n]
<1>1. req' = [req EXCEPT ![d].at = "entry", ![d].no = n]
  BY DEF PickEntryNo
<1>n. n \in Nat
  BY NextEntryNoType
<1> HIDE DEF n
<1>2. Turns(d, r)
  BY <1>1 DEF Turns, TypeOK
<1>3. r \in Request
  BY <1>q, <1>n DEF Request, Stages
<1>4. /\ r.op = req[d].op /\ r.at = "entry" /\ r.b = req[d].b /\ r.amount = req[d].amount
      /\ r.total = req[d].total /\ r.fresh = req[d].fresh /\ r.src = req[d].src
  BY <1>q DEF Request
<1> HIDE DEF r
<1>5. ~ r.fresh
  BY <1>q, <1>4 DEF ReqOK, ShapeOK
<1>6. ReqOK(r)
  BY <1>4, <1>5
     DEF ReqOK, ShapeOK, RefOK, SeenOK, MarkOK, DueOK, SumOK, LeftOK, OpenTx, Holds
<1>7. \A e \in Desks \ {d} : Differ(r, req[e])
  BY <1>4, <1>5 DEF Differ, Holds
<1>8. SameOwed(req[d], r)
  <2>1. Committed(req[d]) /\ Committed(r)
    BY <1>q, <1>4 DEF Committed
  <2> QED
    BY <1>4, <2>1 DEF SameOwed, Owed
<1> QED
  BY <1>u, <1>2, <1>3, <1>6, <1>7, <1>8 DEF Quiet, Fits

LEMMA NewIsNew ==
  ASSUME TypeOK
  PROVE  /\ NewInvoice \notin Issued
         /\ \A e \in Desks : req[e].fresh => req[e].i # NewInvoice
<1> DEFINE S == {0} \cup Issued \cup {req[d].i : d \in {e \in Desks : req[e].fresh}}
<1>1. MaxInvoices \in Nat
  BY BillingAssumption
<1>2. \A e \in Desks : req[e].i \in 0 .. MaxInvoices
  <2> SUFFICES ASSUME NEW e \in Desks PROVE req[e].i \in 0 .. MaxInvoices
    OBVIOUS
  <2>1. req[e].i \in Invoices \cup {0}
    BY DEF TypeOK, Request
  <2> QED
    BY <1>1, <2>1 DEF Invoices
<1>3. S \in SUBSET (0 .. MaxInvoices)
  BY <1>1, <1>2 DEF Issued, Invoices
<1>4. IsFiniteSet(S) /\ S \in SUBSET Int /\ S # {}
  <2>1. IsFiniteSet(0 .. MaxInvoices)
    BY <1>1, FS_Interval
  <2>2. IsFiniteSet(S)
    BY <1>3, <2>1, FS_Subset
  <2> QED
    BY <1>3, <2>2
<1>5. NewInvoice = 1 + Max(S)
  BY DEF NewInvoice
<1> HIDE DEF S
<1>6. Max(S) \in S /\ \A x \in S : x <= Max(S)
  BY <1>4, MaxIsGreatest
<1>7. NewInvoice \notin S
  <2>1. Max(S) \in Int
    BY <1>4, <1>6
  <2> QED
    BY <1>5, <1>6, <2>1
<1> QED
  BY <1>7 DEF S

(* ... a handler that throws leaves what is committed, ...                 *)
Thrown(d) ==
  /\ Turns(d, Idle)
  /\ cut' = IF Committed(req[d]) THEN cut \cup {req[d].b} ELSE cut
  /\ UNCHANGED <<entries, posted, stay, invoice, stale, repriced>>

LEMMA ThrowThrows ==
  ASSUME NEW d \in Desks, CreateInvoice(d) \/ EntryRefused(d) \/ Abort(d), Throw(d)
  PROVE  Thrown(d)
BY DEF CreateInvoice, EntryRefused, Abort, Throw, Finish, Thrown, Turns

LEMMA CreateInvoiceQuiet ==
  ASSUME Basis, NEW d \in Desks, CreateInvoice(d), ~ Throw(d)
  PROVE  Quiet(d)
<1> USE DEF Basis
<1>q. req[d] \in Request /\ ReqOK(req[d]) /\ req[d].at = "create"
  BY DEF TypeOK, CreateInvoice
<1>u. UNCHANGED <<entries, posted, stay, invoice, stale, repriced, cut>>
  BY DEF CreateInvoice
<1>f. req[d].op \in {"pay", "financeInvoice"} /\ ~ req[d].fresh /\ OpenTx(req[d])
  BY <1>q DEF ReqOK, ShapeOK, OpenTx
<1> DEFINE m == Derive(req[d].total, req[d].amount)
           at == IF req[d].op = "pay" THEN "insert" ELSE "sum"
           r == [req[d] EXCEPT !.i = NewInvoice, !.fresh = TRUE, !.mark = m, !.at = at]
<1>1. /\ req' = [req EXCEPT ![d].i = NewInvoice, ![d].fresh = TRUE, ![d].mark = m, ![d].at = at]
      /\ NewInvoice \in Invoices
  BY DEF CreateInvoice
<1>m. m \in PaymentStatus /\ at \in Stages
  BY DeriveType DEF Stages
<1>2. Turns(d, r)
  BY <1>1 DEF Turns, TypeOK
<1>3. r \in Request
  <2> HIDE DEF m, at
  <2> QED
    BY <1>q, <1>1, <1>m DEF Request
<1>4. /\ r.op = req[d].op /\ r.at = at /\ r.b = req[d].b /\ r.amount = req[d].amount
      /\ r.total = req[d].total /\ r.seen = req[d].seen /\ r.due = req[d].due
      /\ r.fresh /\ r.i = NewInvoice /\ r.mark = m
  BY <1>q DEF Request
<1> HIDE DEF r
<1>n. NewInvoice \notin Issued /\ \A e \in Desks : req[e].fresh => req[e].i # NewInvoice
  BY NewIsNew
<1>5. MarkOK(r)
  BY <1>4 DEF MarkOK
<1>6. ReqOK(r)
  BY <1>q, <1>f, <1>1, <1>4, <1>5, <1>n
     DEF ReqOK, ShapeOK, RefOK, SeenOK, DueOK, SumOK, LeftOK, OpenTx, Holds
<1>7. ASSUME NEW e \in Desks \ {d} PROVE Differ(r, req[e])
  <2>1. Holds(req[e]) => req[e].fresh \/ req[e].i \in Issued
    BY DEF ReqOK, RefOK, Holds
  <2> QED
    BY <1>4, <1>n, <2>1 DEF Differ
<1>8. SameOwed(req[d], r)
  <2>1. ~ Committed(req[d]) /\ ~ Committed(r)
    BY <1>q, <1>4 DEF Committed
  <2> QED
    BY <2>1, FreeOwesNothing DEF SameOwed
<1> QED
  BY <1>u, <1>2, <1>3, <1>6, <1>7, <1>8 DEF Quiet, Fits

(* ... and the others are taken one by one.                                *)
Others(d) ==
  Commit(d) \/ PostEntry(d) \/ \E b \in Bookings, a \in Amounts : BeginCharge(d, b, a)

LEMMA WhatHappens ==
  ASSUME Basis, [Next]_vars
  PROVE  \/ UNCHANGED vars
         \/ \E d \in Desks : Quiet(d) \/ Thrown(d) \/ Others(d)
         \/ \E b \in Bookings, p \in Prices : Reprice(b, p)
<1>1. ASSUME NEW d \in Desks, Begin(d)
      PROVE  Quiet(d) \/ Others(d)
  BY <1>1, BeginPayQuiet, BeginFinancePayQuiet, BeginFinanceInvoiceQuiet DEF Begin, Others
<1>2. ASSUME NEW d \in Desks, Proceed(d) \/ Abort(d)
      PROVE  Quiet(d) \/ Thrown(d) \/ Others(d)
  <2>1. CASE EntryRefused(d) \/ Abort(d)
    BY <2>1, ThrowThrows DEF EntryRefused, Abort
  <2>2. CASE CreateInvoice(d)
    BY <2>2, ThrowThrows, CreateInvoiceQuiet
  <2> QED
    BY <1>2, <2>1, <2>2, FindInvoiceQuiet, PickInvoiceNoQuiet, InsertPaymentQuiet,
       MarkInvoiceQuiet, SumUpQuiet, PickEntryNoQuiet DEF Proceed, Others
<1> QED
  BY <1>1, <1>2 DEF Next

-----------------------------------------------------------------------------
(***************************************************************************)
(* The commit of request q: its invoice gets what is paid, or comes into   *)
(* being with it; no other invoice changes.                                *)
(***************************************************************************)
LEMMA CommitRows ==
  ASSUME Basis, NEW d \in Desks, NEW q, q = req[d], Commit(d)
  PROVE  /\ q \in Request /\ ReqOK(q) /\ q.at = "commit" /\ q.i \in Invoices
         /\ IF q.fresh THEN q.i \notin Issued ELSE q.i \in Issued /\ invoice[q.i].b = q.b
         /\ invoice' \in [Invoices -> InvoiceRows]
         /\ invoice'[q.i].b = q.b /\ invoice'[q.i].total = TotalAsSeen(q)
         /\ invoice'[q.i].paid = PaidAsSeen(q) + q.amount /\ invoice'[q.i].status = q.mark
         /\ invoice'[q.i].series = IF q.fresh THEN Series(q) ELSE invoice[q.i].series
         /\ \A j \in Invoices \ {q.i} : invoice'[j] = invoice[j]
<1> USE DEF Basis
<1>1. q \in Request /\ ReqOK(q) /\ q.at = "commit"
  BY DEF TypeOK, Commit
<1>2. /\ q.i \in Invoices
      /\ IF q.fresh THEN q.i \notin Issued ELSE q.i \in Issued /\ invoice[q.i].b = q.b
  BY <1>1 DEF ReqOK, RefOK
<1>3. invoice' = [invoice EXCEPT ![q.i] = InvoiceRow(q)]
  BY DEF Commit
<1>4. /\ q.b \in Bookings /\ q.k \in Nat /\ q.total \in Nat /\ q.amount \in Nat
      /\ q.mark \in PaymentStatus /\ q.fresh \in BOOLEAN
  BY <1>1 DEF Request
<1>5. invoice[q.i] \in InvoiceRows
  BY <1>2 DEF TypeOK
<1>6. Series(q) \in Bookings \cup {Daily}
  BY <1>4 DEF Series
<1>7. CASE q.fresh
  <2>1. InvoiceRow(q) = [b |-> q.b, series |-> Series(q), k |-> q.k, total |-> q.total,
                         paid |-> q.amount, status |-> q.mark]
    BY <1>7 DEF InvoiceRow
  <2>2. InvoiceRow(q) \in InvoiceRows
    BY <1>4, <1>6, <2>1 DEF InvoiceRows
  <2>3. invoice'[q.i] = InvoiceRow(q) /\ invoice' \in [Invoices -> InvoiceRows]
        /\ \A j \in Invoices \ {q.i} : invoice'[j] = invoice[j]
    BY <1>2, <1>3, <2>2 DEF TypeOK
  <2>4. PaidAsSeen(q) + q.amount = q.amount /\ TotalAsSeen(q) = q.total
    BY <1>4, <1>7 DEF PaidAsSeen, TotalAsSeen
  <2> QED
    BY <1>1, <1>2, <1>7, <2>1, <2>3, <2>4
<1>8. CASE ~ q.fresh
  <2>1. InvoiceRow(q) = [invoice[q.i] EXCEPT !.paid = @ + q.amount, !.status = q.mark]
    BY <1>8 DEF InvoiceRow
  <2>0. invoice[q.i].paid + q.amount \in Nat /\ q.mark \in PaymentStatus \cup {"NONE"}
    BY <1>4, <1>5 DEF InvoiceRows
  <2>2. InvoiceRow(q) \in InvoiceRows
    <3> DEFINE p == invoice[q.i].paid + q.amount
    <3>1. InvoiceRow(q) = [invoice[q.i] EXCEPT !.paid = p, !.status = q.mark]
      BY <2>1
    <3>2. p \in Nat
      BY <2>0
    <3> HIDE DEF p
    <3> QED
      BY <1>5, <2>0, <3>1, <3>2 DEF InvoiceRows
  <2>3. /\ InvoiceRow(q).b = invoice[q.i].b /\ InvoiceRow(q).total = invoice[q.i].total
        /\ InvoiceRow(q).paid = invoice[q.i].paid + q.amount /\ InvoiceRow(q).status = q.mark
        /\ InvoiceRow(q).series = invoice[q.i].series
    BY <1>5, <2>1 DEF InvoiceRows
  <2>4. invoice'[q.i] = InvoiceRow(q) /\ invoice' \in [Invoices -> InvoiceRows]
        /\ \A j \in Invoices \ {q.i} : invoice'[j] = invoice[j]
    BY <1>2, <1>3, <2>2 DEF TypeOK
  <2>5. PaidAsSeen(q) = invoice[q.i].paid /\ TotalAsSeen(q) = invoice[q.i].total
    BY <1>8 DEF PaidAsSeen, TotalAsSeen
  <2> QED
    BY <1>1, <1>2, <1>8, <2>3, <2>4, <2>5
<1> QED
  BY <1>4, <1>7, <1>8

LEMMA CommitSets ==
  ASSUME Basis, NEW d \in Desks, NEW q, q = req[d], Commit(d)
  PROVE  /\ Issued' = Issued \cup {q.i}
         /\ InvoicesOf(q.b)' = InvoicesOf(q.b) \cup {q.i}
         /\ \A b : b # q.b => InvoicesOf(b)' = InvoicesOf(b)
<1>1. /\ q.i \in Invoices /\ q.mark # "NONE"
      /\ invoice'[q.i].b = q.b /\ invoice'[q.i].status = q.mark
      /\ \A j \in Invoices \ {q.i} : invoice'[j] = invoice[j]
      /\ IF q.fresh THEN q.i \notin Issued ELSE q.i \in Issued /\ invoice[q.i].b = q.b
  BY CommitRows DEF Request, PaymentStatus
<1>2. Issued' = Issued \cup {q.i}
  BY <1>1 DEF Issued
<1>3. \A j \in Issued : j # q.i => invoice'[j].b = invoice[j].b
  BY <1>1 DEF Issued
<1>4. q.i \in Issued => invoice[q.i].b = q.b
  BY <1>1
<1>5. InvoicesOf(q.b)' = InvoicesOf(q.b) \cup {q.i}
  BY <1>1, <1>2, <1>3 DEF InvoicesOf
<1>6. ASSUME NEW b, b # q.b PROVE InvoicesOf(b)' = InvoicesOf(b)
  BY <1>1, <1>2, <1>3, <1>4, <1>6 DEF InvoicesOf
<1> QED
  BY <1>2, <1>5, <1>6

(* What a table of the invoices adds up to, if it changes at i only.       *)
LEMMA RowSum ==
  ASSUME NEW f, \A j \in Invoices : f[j] \in Nat,
         NEW g, NEW i \in Invoices, g[i] \in Nat, \A j \in Invoices \ {i} : g[j] = f[j],
         NEW S \in SUBSET Invoices
  PROVE  /\ i \notin S => /\ SumFunctionOnSet(g, S) = SumFunctionOnSet(f, S)
                          /\ SumFunctionOnSet(g, S \cup {i}) = SumFunctionOnSet(f, S) + g[i]
         /\ i \in S => SumFunctionOnSet(g, S \cup {i}) = SumFunctionOnSet(f, S) - f[i] + g[i]
<1>1. IsFiniteSet(S)
  BY InvoicesFinite
<1>2. \A x \in S : f[x] \in Nat
  OBVIOUS
<1>3. ASSUME i \notin S
      PROVE  /\ SumFunctionOnSet(g, S) = SumFunctionOnSet(f, S)
             /\ SumFunctionOnSet(g, S \cup {i}) = SumFunctionOnSet(f, S) + g[i]
  <2>1. \A x \in S : g[x] = f[x]
    BY <1>3
  <2>2. SumFunctionOnSet(g, S) = SumFunctionOnSet(f, S)
    BY <1>1, <2>1, SumSame
  <2>3. SumFunctionOnSet(g, S \cup {i}) = SumFunctionOnSet(f, S) + g[i]
    BY <1>1, <1>2, <1>3, <2>1, SumWith
  <2> QED
    BY <2>2, <2>3
<1>4. ASSUME i \in S
      PROVE  SumFunctionOnSet(g, S \cup {i}) = SumFunctionOnSet(f, S) - f[i] + g[i]
  <2>1. \A x \in S \ {i} : g[x] = f[x]
    OBVIOUS
  <2>2. SumFunctionOnSet(g, S) = SumFunctionOnSet(f, S) - f[i] + g[i]
    BY <1>1, <1>2, <1>4, <2>1, SumChange
  <2>3. S \cup {i} = S
    BY <1>4
  <2> QED
    BY <2>2, <2>3
<1> QED
  BY <1>3, <1>4

LEMMA CommitPaid ==
  ASSUME Basis, NEW d \in Desks, NEW q, q = req[d], Commit(d)
  PROVE  /\ PaidOn(q.b)' = PaidOn(q.b) + q.amount
         /\ \A b : b # q.b => PaidOn(b)' = PaidOn(b)
<1> USE DEF Basis
<1> DEFINE f == Paids
           g == Paids'
<1>1. /\ q.i \in Invoices /\ q.amount \in Nat
      /\ invoice'[q.i].paid = PaidAsSeen(q) + q.amount
      /\ \A j \in Invoices \ {q.i} : invoice'[j] = invoice[j]
      /\ IF q.fresh THEN q.i \notin Issued ELSE q.i \in Issued /\ invoice[q.i].b = q.b
  BY CommitRows DEF Request
<1>2. PaidAsSeen(q) = (IF q.fresh THEN 0 ELSE invoice[q.i].paid) /\ PaidAsSeen(q) \in Nat
  BY <1>1, InvoiceFields DEF PaidAsSeen
<1>3. \A i \in Invoices : f[i] \in Nat /\ f[i] = invoice[i].paid /\ g[i] = invoice'[i].paid
  BY InvoiceFields DEF Paids
<1>4. g[q.i] \in Nat /\ g[q.i] = PaidAsSeen(q) + q.amount
      /\ \A i \in Invoices \ {q.i} : g[i] = f[i]
  BY <1>1, <1>2, <1>3
<1>5. q.i \in InvoicesOf(q.b) <=> ~ q.fresh
  BY <1>1 DEF InvoicesOf
<1>s. \A b : InvoicesOf(b) \in SUBSET Invoices /\ SumFunctionOnSet(f, InvoicesOf(b)) \in Nat
  BY OfTypes, SumTypes DEF PaidOn
<1> HIDE DEF f, g
<1>6. SumFunctionOnSet(g, InvoicesOf(q.b) \cup {q.i})
        = SumFunctionOnSet(f, InvoicesOf(q.b)) + q.amount
  <2> DEFINE S == InvoicesOf(q.b)
  <2>1. S \in SUBSET Invoices /\ SumFunctionOnSet(f, S) \in Nat
    BY <1>s
  <2> HIDE DEF S
  <2>2. \A i \in Invoices : f[i] \in Nat
    BY <1>3
  <2>3. /\ q.i \notin S => SumFunctionOnSet(g, S \cup {q.i}) = SumFunctionOnSet(f, S) + g[q.i]
        /\ q.i \in S => SumFunctionOnSet(g, S \cup {q.i})
                          = SumFunctionOnSet(f, S) - f[q.i] + g[q.i]
    BY <1>1, <1>4, <2>1, <2>2, RowSum
  <2>4. q.i \in S <=> ~ q.fresh
    BY <1>5 DEF S
  <2>5. f[q.i] \in Nat /\ f[q.i] = invoice[q.i].paid
    BY <1>1, <1>3
  <2>6. SumFunctionOnSet(g, S \cup {q.i}) = SumFunctionOnSet(f, S) + q.amount
    BY <1>1, <1>2, <1>4, <2>1, <2>3, <2>4, <2>5
  <2> QED
    BY <2>6 DEF S
<1>7. PaidOn(q.b)' = PaidOn(q.b) + q.amount
  BY <1>6, CommitSets DEF PaidOn, f, g
<1>8. ASSUME NEW b, b # q.b PROVE PaidOn(b)' = PaidOn(b)
  <2> DEFINE S == InvoicesOf(b)
  <2>1. q.i \notin S
    BY <1>1, <1>8 DEF InvoicesOf
  <2>2. S \in SUBSET Invoices
    BY <1>s
  <2> HIDE DEF S
  <2>3. IsFiniteSet(S) /\ \A x \in S : g[x] = f[x]
    BY <1>4, <2>1, <2>2, InvoicesFinite
  <2>4. SumFunctionOnSet(g, S) = SumFunctionOnSet(f, S)
    BY <2>3, SumSame
  <2> QED
    BY <1>8, <2>4, CommitSets DEF PaidOn, f, g, S
<1> QED
  BY <1>7, <1>8

(* Finance invoices are those of the daily series, and keep their totals.  *)
LEMMA CommitDaily ==
  ASSUME Basis, NEW d \in Desks, NEW q, q = req[d], Commit(d), NEW b
  PROVE  SumFunctionOnSet(Totals, DailyOf(b))'
           = SumFunctionOnSet(Totals, DailyOf(b))
             + (IF q.b = b /\ q.op = "financeInvoice" THEN q.total ELSE 0)
<1> USE DEF Basis
<1> DEFINE f == Totals
           g == Totals'
           S == DailyOf(b)
<1>1. /\ q.i \in Invoices /\ q.total \in Nat /\ q.b \in Bookings
      /\ q.op \in {"pay", "financePay"} \/ (q.op = "financeInvoice" /\ q.fresh)
      /\ invoice'[q.i].total = TotalAsSeen(q)
      /\ invoice'[q.i].series = IF q.fresh THEN Series(q) ELSE invoice[q.i].series
      /\ \A j \in Invoices \ {q.i} : invoice'[j] = invoice[j]
      /\ IF q.fresh THEN q.i \notin Issued ELSE q.i \in Issued /\ invoice[q.i].b = q.b
      /\ q.fresh => q.op \in {"pay", "financeInvoice"}
  <2>1. q \in Request /\ ReqOK(q) /\ q.at = "commit"
    BY CommitRows
  <2> QED
    BY <2>1, CommitRows DEF Request, ReqOK, ShapeOK, Holds
<1>2. \A i \in Invoices : f[i] \in Nat /\ f[i] = invoice[i].total /\ g[i] = invoice'[i].total
  BY InvoiceFields DEF Totals
<1>3. S \in SUBSET Invoices /\ IsFiniteSet(S) /\ SumFunctionOnSet(f, S) \in Nat
  BY OfTypes, InvoicesFinite, SumTypes
<1>4. \A i \in Invoices \ {q.i} : g[i] = f[i]
  BY <1>1, <1>2
<1>5. /\ InvoicesOf(q.b)' = InvoicesOf(q.b) \cup {q.i}
      /\ b # q.b => InvoicesOf(b)' = InvoicesOf(b)
  BY CommitSets
<1>6. \A j \in Invoices \ {q.i} : invoice'[j].series = invoice[j].series
  BY <1>1
<1>7. Daily \notin Bookings
  BY BillingAssumption
<1>8. InvoicesOf(b) \in SUBSET Invoices
  BY OfTypes
<1>9. S' = {i \in InvoicesOf(b)' : invoice'[i].series = Daily}
  BY DEF DailyOf
<1>a. CASE q.b = b /\ q.op = "financeInvoice"
  <2>1. q.fresh /\ q.i \notin S /\ invoice'[q.i].series = Daily /\ g[q.i] = q.total
    BY <1>1, <1>2, <1>a DEF Series, DailyOf, InvoicesOf, TotalAsSeen
  <2>2. S' = S \cup {q.i}
    BY <1>5, <1>6, <1>8, <1>9, <1>a, <2>1 DEF DailyOf
  <2> HIDE DEF f, g, S
  <2>4. SumFunctionOnSet(g, S \cup {q.i}) = SumFunctionOnSet(f, S) + g[q.i]
    <3>1. g[q.i] \in Nat /\ q.i \in Invoices /\ S \in SUBSET Invoices
      BY <1>1, <1>3, <2>1
    <3>2. \A i \in Invoices : f[i] \in Nat
      BY <1>2
    <3>3. /\ q.i \notin S => SumFunctionOnSet(g, S \cup {q.i}) = SumFunctionOnSet(f, S) + g[q.i]
          /\ q.i \in S => SumFunctionOnSet(g, S \cup {q.i})
                            = SumFunctionOnSet(f, S) - f[q.i] + g[q.i]
      BY <1>4, <3>1, <3>2, RowSum
    <3> QED
      BY <2>1, <3>3
  <2> QED
    BY <1>a, <2>1, <2>2, <2>4 DEF f, g, S
<1>b. CASE ~ (q.b = b /\ q.op = "financeInvoice")
  <2>1. S' = S
    <3>1. CASE q.b # b
      <4>1. q.i \notin InvoicesOf(b)
        BY <1>1, <3>1 DEF InvoicesOf
      <4> QED
        BY <1>5, <1>6, <1>8, <1>9, <3>1, <4>1 DEF DailyOf
    <3>2. CASE q.b = b /\ q.fresh
      <4>1. q.op = "pay" /\ q.i \notin InvoicesOf(b)
        BY <1>1, <1>b, <3>2 DEF InvoicesOf
      <4>2. invoice'[q.i].series # Daily
        BY <1>1, <1>7, <3>2, <4>1 DEF Series
      <4> QED
        BY <1>5, <1>6, <1>8, <1>9, <3>2, <4>1, <4>2 DEF DailyOf
    <3>3. CASE q.b = b /\ ~ q.fresh
      <4>1. q.i \in InvoicesOf(b) /\ invoice'[q.i].series = invoice[q.i].series
        BY <1>1, <3>3 DEF InvoicesOf
      <4> QED
        BY <1>5, <1>6, <1>8, <1>9, <3>3, <4>1 DEF DailyOf
    <3> QED
      BY <3>1, <3>2, <3>3
  <2>2. \A x \in S : g[x] = f[x]
    <3>1. q.i \in S => ~ q.fresh
      BY <1>1 DEF DailyOf, InvoicesOf
    <3>2. ~ q.fresh => g[q.i] = f[q.i]
      BY <1>1, <1>2 DEF TotalAsSeen
    <3> QED
      BY <1>3, <1>4, <3>1, <3>2
  <2> HIDE DEF f, g, S
  <2>3. SumFunctionOnSet(g, S) = SumFunctionOnSet(f, S)
    BY <1>3, <2>2, SumSame
  <2>4. SumFunctionOnSet(f, S) + 0 = SumFunctionOnSet(f, S)
    BY <1>3
  <2> QED
    BY <1>b, <2>1, <2>3, <2>4 DEF f, g, S
<1> QED
  BY <1>a, <1>b

(* The other requests of the stay know less than they did, and nothing     *)
(* that is wrong: whoever has locked the invoice is alone with it.         *)
LEMMA CommitOthers ==
  ASSUME Basis, NEW d \in Desks, NEW q, q = req[d], Commit(d),
         NEW r \in Request, ReqOK(r), Differ(q, r)
  PROVE  ReqOK(r)'
<1> USE DEF Basis
<1>1. /\ q \in Request /\ ReqOK(q) /\ q.at = "commit" /\ q.i \in Invoices /\ Holds(q)
      /\ IF q.fresh THEN q.i \notin Issued ELSE q.i \in Issued /\ invoice[q.i].b = q.b
  BY CommitRows DEF Holds
<1>2. /\ \A j \in Invoices \ {q.i} : invoice'[j] = invoice[j]
      /\ invoice'[q.i].b = q.b /\ invoice'[q.i].total = TotalAsSeen(q)
      /\ invoice'[q.i].paid = PaidAsSeen(q) + q.amount
  BY CommitRows
<1>3. /\ Issued' = Issued \cup {q.i}
      /\ InvoicesOf(q.b)' = InvoicesOf(q.b) \cup {q.i}
      /\ \A b : b # q.b => InvoicesOf(b)' = InvoicesOf(b)
  BY CommitSets
<1>4. /\ PaidOn(q.b)' = PaidOn(q.b) + q.amount
      /\ \A b : b # q.b => PaidOn(b)' = PaidOn(b)
  BY CommitPaid
<1>5. PaidOn(r.b) \in Nat /\ PaidOn(q.b) \in Nat /\ q.amount \in Nat /\ r.seen \in Nat
      /\ r.amount \in Nat /\ r.b \in Bookings /\ q.b \in Bookings
  BY <1>1, SumTypes DEF Request
<1>6. /\ PaidOn(r.b)' = PaidOn(r.b) + (IF r.b = q.b THEN q.amount ELSE 0)
      /\ InvoicesOf(r.b) \subseteq InvoicesOf(r.b)'
  <2>1. CASE r.b = q.b
    BY <1>3, <1>4, <2>1
  <2>2. CASE r.b # q.b
    <3>1. PaidOn(r.b)' = PaidOn(r.b) /\ InvoicesOf(r.b)' = InvoicesOf(r.b)
      BY <1>3, <1>4, <2>2
    <3> QED
      BY <1>5, <2>2, <3>1
  <2> QED
    BY <2>1, <2>2
<1>7. stay[r.b].price' = stay[r.b].price /\ repriced' = repriced
  <2>1. /\ stay' = [stay EXCEPT ![q.b].paid = q.sum, ![q.b].status = Derive(q.due, q.sum)]
        /\ repriced' = repriced
    BY DEF Commit
  <2>2. stay[q.b] \in StayRow /\ stay \in [Bookings -> StayRow]
    BY <1>5 DEF TypeOK
  <2> QED
    BY <1>5, <2>1, <2>2 DEF StayRow
<1>8. ShapeOK(r)'
  BY DEF ReqOK, ShapeOK, Holds, OpenTx
<1>9. RefOK(r) /\ RefOK(r)'
  BY <1>1, <1>2, <1>3 DEF ReqOK, RefOK, Differ, Issued
<1>a. SeenOK(r)'
  <2>1. SeenOK(r)
    BY DEF ReqOK
  <2>2. PaidOn(r.b) <= PaidOn(r.b)'
    BY <1>5, <1>6
  <2>3. PaidOn(r.b)' \in Nat
    BY <1>5, <1>6
  <2> QED
    BY <1>5, <2>1, <2>2, <2>3 DEF SeenOK, OpenTx
(* Its own invoice keeps its total, and its payments are not fewer.        *)
<1>b. ASSUME r.at \in {"mark", "sum", "commit"}, ~ r.fresh
      PROVE  /\ r.i \in Invoices /\ invoice'[r.i].total = invoice[r.i].total
             /\ invoice'[r.i].paid = invoice[r.i].paid + (IF r.i = q.i THEN q.amount ELSE 0)
             /\ r.i = q.i => r.b = q.b
             /\ invoice[r.i].total \in Nat /\ invoice[r.i].paid \in Nat
  <2>1. r.i \in Issued /\ r.i \in Invoices /\ invoice[r.i].b = r.b
    BY <1>9, <1>b DEF RefOK
  <2>2. invoice[r.i].total \in Nat /\ invoice[r.i].paid \in Nat
    BY <2>1, InvoiceFields
  <2>3. CASE r.i = q.i
    BY <1>1, <1>2, <2>1, <2>2, <2>3 DEF TotalAsSeen, PaidAsSeen
  <2>4. CASE r.i # q.i
    BY <1>2, <2>1, <2>2, <2>4
  <2> QED
    BY <2>3, <2>4
<1>c. MarkOK(r)'
  <2>1. MarkOK(r) /\ SeenOK(r) /\ ShapeOK(r)
    BY DEF ReqOK
  <2> SUFFICES ASSUME r.at \in {"mark", "sum", "commit"} PROVE MarkOK(r)'
    BY DEF MarkOK
  <2>2. CASE r.fresh
    BY <2>1, <2>2 DEF MarkOK
  <2>3. CASE ~ r.fresh
    <3> DEFINE p == invoice[r.i].paid
               t == invoice[r.i].total
               p1 == invoice'[r.i].paid
    <3>1. /\ p \in Nat /\ t \in Nat /\ invoice'[r.i].total = t
          /\ p1 = p + (IF r.i = q.i THEN q.amount ELSE 0)
          /\ r.i = q.i => r.b = q.b
      BY <1>b, <2>3
    <3>2. /\ r.mark = "PAID" => p + r.amount >= t
          /\ r.seen = PaidOn(r.b) => r.mark = Derive(t, p + r.amount)
      BY <2>1, <2>3 DEF MarkOK
    <3>3. r.seen <= PaidOn(r.b)
      BY <2>1, <2>3 DEF SeenOK, ShapeOK, OpenTx, Holds
    <3> HIDE DEF p, t
    <3>4. r.mark = "PAID" => p1 + r.amount >= t
      BY <1>5, <3>1, <3>2
    <3>5. r.seen = PaidOn(r.b)' => p1 = p /\ r.seen = PaidOn(r.b)
      BY <1>5, <1>6, <3>1, <3>3
    <3> QED
      BY <2>3, <3>1, <3>2, <3>4, <3>5 DEF MarkOK
  <2> QED
    BY <2>2, <2>3
<1>d. Only(r)' => Only(r)
  BY <1>6 DEF Only
<1>e. DueOK(r)'
  <2>1. DueOK(r)
    BY DEF ReqOK
  <2>2. r.op = "pay" /\ OpenTx(r) /\ r.b \notin repriced' => r.due = stay'[r.b].price
    BY <1>7, <2>1 DEF DueOK
  <2>3. r.at = "commit" => TotalAsSeen(r)' = TotalAsSeen(r)
    BY <1>b DEF TotalAsSeen
  <2> QED
    BY <1>d, <2>1, <2>2, <2>3 DEF DueOK, OpenTx
<1>f. SumOK(r)'
  <2> SUFFICES ASSUME r.at = "commit", Only(r)' PROVE r.sum = PaidOn(r.b)' + r.amount
    BY DEF SumOK
  <2>1. r.sum = PaidOn(r.b) + r.amount
    BY <1>d DEF ReqOK, SumOK
  <2>2. r.b # q.b
    <3>1. q.i # r.i
      BY <1>1 DEF Differ, Holds
    <3> QED
      BY <1>3, <3>1 DEF Only
  <2> QED
    BY <1>4, <2>1, <2>2
<1>g. LeftOK(r)'
  <2>1. LeftOK(r) /\ ShapeOK(r)
    BY DEF ReqOK
  <2>2. r.op = "financePay" /\ OpenTx(r) => r.at \in {"mark", "sum", "commit"} /\ ~ r.fresh
    BY <2>1 DEF ShapeOK, OpenTx, Request, Stages
  <2> QED
    BY <1>b, <1>d, <2>1, <2>2 DEF LeftOK, OpenTx
<1> QED
  BY <1>8, <1>9, <1>a, <1>c, <1>e, <1>f, <1>g DEF ReqOK

-----------------------------------------------------------------------------
(***************************************************************************)
(* Basis is inductive.                                                     *)
(***************************************************************************)
LEMMA Turned ==
  ASSUME Basis, NEW d \in Desks, NEW r \in Request, Turns(d, r),
         \A e \in Desks \ {d} : Differ(r, req[e]),
         \A q \in {r} \cup {req[e] : e \in Desks \ {d}} : ReqOK(q)'
  PROVE  /\ req' \in [Desks -> Request]
         /\ Apart' /\ \A e \in Desks : ReqOK(req[e])'
<1>1. req \in [Desks -> Request] /\ Apart
  BY DEF Basis, TypeOK
<1>2. /\ req' \in [Desks -> Request]
      /\ req'[d] = r /\ \A e \in Desks \ {d} : req'[e] = req[e]
  BY <1>1 DEF Turns
<1>3. Apart'
  <2> SUFFICES ASSUME NEW a \in Desks, NEW b \in Desks, a # b
               PROVE  Differ(req'[a], req'[b])
    BY DEF Apart, Differ, Holds
  <2>1. CASE a = d
    BY <1>2, <2>1
  <2>2. CASE b = d
    <3>1. Differ(r, req[a])
      BY <2>2
    <3> QED
      BY <1>2, <2>2, <3>1 DEF Differ
  <2>3. CASE a # d /\ b # d
    BY <1>1, <1>2, <2>3 DEF Apart
  <2> QED
    BY <2>1, <2>2, <2>3
<1>4. ASSUME NEW e \in Desks PROVE ReqOK(req[e])'
  <2>1. PICK q : q = req'[e]
    OBVIOUS
  <2>2. q \in {r} \cup {req[a] : a \in Desks \ {d}}
    BY <1>2, <2>1
  <2>3. ReqOK(q)'
    BY <2>2
  <2> QED
    BY <2>1, <2>3 DEF ReqOK, ShapeOK, RefOK, SeenOK, MarkOK, DueOK, SumOK, LeftOK, OpenTx,
                      Holds, Only, TotalAsSeen
<1> QED
  BY <1>2, <1>3, <1>4

(* A step that leaves the rows leaves what is said of the requests.        *)
LEMMA TurnedOnSameRows ==
  ASSUME Basis, NEW d \in Desks, NEW r, Turns(d, r), Fits(d, r),
         UNCHANGED <<stay, invoice, repriced>>
  PROVE  /\ req' \in [Desks -> Request]
         /\ Apart' /\ \A e \in Desks : ReqOK(req[e])'
<1>1. r \in Request /\ ReqOK(r) /\ \A e \in Desks \ {d} : Differ(r, req[e])
  BY DEF Fits
<1>2. ASSUME NEW q \in {r} \cup {req[e] : e \in Desks \ {d}} PROVE ReqOK(q)'
  <2>1. ReqOK(q)
    BY <1>1 DEF Basis
  <2> QED
    BY <2>1, SameRows
<1> QED
  BY <1>1, <1>2, Turned

LEMMA IdleFits == ASSUME NEW d PROVE Fits(d, Idle)
BY IdleType, IdleOK DEF Fits, Differ, Holds

LEMMA BasisQuiet ==
  ASSUME Basis, NEW d \in Desks, Quiet(d) PROVE Basis'
<1>1. PICK r : Turns(d, r) /\ Fits(d, r)
  BY DEF Quiet
<1>2. UNCHANGED <<entries, posted, stay, invoice, stale, repriced, cut>>
  BY DEF Quiet
<1>3. req' \in [Desks -> Request] /\ Apart' /\ \A e \in Desks : ReqOK(req[e])'
  BY <1>1, <1>2, TurnedOnSameRows
<1>4. TypeOK'
  BY <1>2, <1>3 DEF Basis, TypeOK, Invoices, StayRow, InvoiceRows
<1>5. Bounded'
  BY <1>2 DEF Basis, Bounded
<1> QED
  BY <1>3, <1>4, <1>5 DEF Basis

LEMMA BasisThrown ==
  ASSUME Basis, NEW d \in Desks, Thrown(d) PROVE Basis'
<1>1. Turns(d, Idle) /\ Fits(d, Idle)
  BY IdleFits DEF Thrown
<1>2. UNCHANGED <<entries, posted, stay, invoice, stale, repriced>>
  BY DEF Thrown
<1>3. req' \in [Desks -> Request] /\ Apart' /\ \A e \in Desks : ReqOK(req[e])'
  BY <1>1, <1>2, TurnedOnSameRows
<1>4. cut' \subseteq Bookings
  <2>1. req[d].b \in Bookings
    BY DEF Basis, TypeOK, Request
  <2> QED
    BY <2>1 DEF Basis, TypeOK, Thrown
<1>5. TypeOK'
  BY <1>2, <1>3, <1>4 DEF Basis, TypeOK, Invoices, StayRow, InvoiceRows
<1>6. Bounded'
  BY <1>2 DEF Basis, Bounded
<1> QED
  BY <1>3, <1>5, <1>6 DEF Basis

LEMMA ToPostOK ==
  ASSUME NEW q \in Request
  PROVE  /\ ToPost(q) \in Request /\ ReqOK(ToPost(q))' /\ Committed(ToPost(q))
         /\ ToPost(q).b = q.b /\ ToPost(q).amount = q.amount
         /\ ToPost(q).total = IF q.op = "financeInvoice" THEN q.total ELSE 0
         /\ ToPost(q).src = IF q.op = "financeInvoice" THEN "INVOICE" ELSE "PAYMENT"
         /\ \A e : Differ(ToPost(q), req[e])
<1> DEFINE t == IF q.op = "financeInvoice" THEN q.total ELSE 0
           s == IF q.op = "financeInvoice" THEN "INVOICE" ELSE "PAYMENT"
           r == ToPost(q)
<1>1. r = [Idle EXCEPT !.op = q.op, !.at = "entryNo", !.b = q.b, !.amount = q.amount,
                       !.total = t, !.src = s]
  BY DEF ToPost
<1>2. t \in Nat /\ s \in Sources
  BY DEF Request, Sources
<1> HIDE DEF t, s, r
<1>3. r \in Request
  BY <1>1, <1>2, IdleType DEF Request, Stages
<1>4. /\ r.at = "entryNo" /\ r.b = q.b /\ r.amount = q.amount /\ r.total = t /\ r.src = s
      /\ ~ r.fresh
  BY <1>1, IdleType DEF Request
<1>5. ReqOK(r)'
  BY <1>4 DEF ReqOK, ShapeOK, RefOK, SeenOK, MarkOK, DueOK, SumOK, LeftOK, OpenTx, Holds
<1>6. \A e : Differ(r, req[e])
  BY <1>4 DEF Differ, Holds
<1>7. Committed(r)
  BY <1>4 DEF Committed
<1> QED
  BY <1>3, <1>4, <1>5, <1>6, <1>7 DEF t, s, r

LEMMA BasisCommit ==
  ASSUME Basis, NEW d \in Desks, Commit(d) PROVE Basis'
<1> USE DEF Basis
<1>q. PICK q : q = req[d]
  OBVIOUS
<1>1. /\ q \in Request /\ ReqOK(q) /\ q.at = "commit" /\ q.i \in Invoices
      /\ invoice' \in [Invoices -> InvoiceRows]
  BY <1>q, CommitRows
<1> DEFINE r == ToPost(q)
<1>2. Turns(d, r)
  BY <1>q DEF Commit, Turns
<1>3. r \in Request /\ ReqOK(r)' /\ \A e \in Desks \ {d} : Differ(r, req[e])
  BY <1>1, ToPostOK
<1> HIDE DEF r
<1>4. ASSUME NEW p \in {r} \cup {req[e] : e \in Desks \ {d}} PROVE ReqOK(p)'
  <2>1. CASE p = r
    BY <1>3, <2>1 DEF ReqOK, ShapeOK, RefOK, SeenOK, MarkOK, DueOK, SumOK, LeftOK, OpenTx,
                      Holds, Only, TotalAsSeen
  <2>2. CASE \E e \in Desks \ {d} : p = req[e]
    <3>1. PICK e \in Desks \ {d} : p = req[e]
      BY <2>2
    <3>2. p \in Request /\ ReqOK(p) /\ Differ(q, p)
      BY <1>q, <3>1 DEF TypeOK, Apart
    <3> QED
      BY <1>q, <3>2, CommitOthers
  <2> QED
    BY <2>1, <2>2
<1>5. req' \in [Desks -> Request] /\ Apart' /\ \A e \in Desks : ReqOK(req[e])'
  BY <1>2, <1>3, <1>4, Turned
<1>6. stay' \in [Bookings -> StayRow] /\ stale' \subseteq Bookings
  <2>1. /\ stay' = [stay EXCEPT ![q.b].paid = q.sum, ![q.b].status = Derive(q.due, q.sum)]
        /\ stale' = IF Outdated(q) THEN stale \cup {q.b} ELSE stale
    BY <1>q DEF Commit
  <2>2. q.b \in Bookings /\ q.sum \in Nat /\ Derive(q.due, q.sum) \in PaymentStatus
    BY <1>1, DeriveType DEF Request
  <2> QED
    BY <2>1, <2>2 DEF TypeOK, StayRow
<1>7. UNCHANGED <<entries, posted, repriced, cut>>
  BY DEF Commit
<1>8. TypeOK'
  BY <1>1, <1>5, <1>6, <1>7 DEF TypeOK
<1>9. Bounded'
  BY <1>7 DEF Bounded
<1> QED
  BY <1>5, <1>8, <1>9

(* Of the reservation rows, only prices matter, and of stays whose price   *)
(* never changed.                                                          *)
LEMMA SamePrices ==
  ASSUME UNCHANGED invoice, repriced \subseteq repriced', NEW q, ReqOK(q),
         q.b \notin repriced' => stay'[q.b].price = stay[q.b].price
  PROVE  ReqOK(q)'
<1>1. DueOK(q)'
  BY DEF ReqOK, DueOK, OpenTx, Only, InvoicesOf, Issued, TotalAsSeen
<1> QED
  BY <1>1 DEF ReqOK, ShapeOK, RefOK, SeenOK, MarkOK, SumOK, LeftOK, OpenTx, Holds, Only,
              PaidOn, Paids, InvoicesOf, Issued

LEMMA ChargeFits ==
  ASSUME NEW d, NEW b \in Bookings, NEW a \in Nat,
         NEW r, r = [Idle EXCEPT !.op = "charge", !.at = "entryNo", !.b = b,
                                 !.amount = a, !.src = "FOLIO"]
  PROVE  Fits(d, r)
<1>1. r \in Request
  BY IdleType DEF Request, Stages, AllOps, Sources
<1>2. r.at = "entryNo" /\ r.b = b /\ r.amount = a /\ r.src = "FOLIO" /\ ~ r.fresh
  BY IdleType DEF Request
<1>3. ReqOK(r)
  BY <1>2 DEF ReqOK, ShapeOK, RefOK, SeenOK, MarkOK, DueOK, SumOK, LeftOK, OpenTx, Holds
<1> QED
  BY <1>1, <1>2, <1>3 DEF Fits, Differ, Holds, Committed

LEMMA BasisCharge ==
  ASSUME Basis, NEW d \in Desks, NEW b \in Bookings, NEW a \in Amounts, BeginCharge(d, b, a)
  PROVE  Basis'
<1> USE DEF Basis
<1>1. PICK r : r = [Idle EXCEPT !.op = "charge", !.at = "entryNo", !.b = b,
                                !.amount = a, !.src = "FOLIO"]
  OBVIOUS
<1>2. Turns(d, r)
  BY <1>1 DEF BeginCharge, Turns
<1>3. a \in Nat
  BY BillingAssumption
<1>f. Fits(d, r)
  BY <1>1, <1>3, ChargeFits
<1>4. r \in Request /\ ReqOK(r) /\ \A e \in Desks \ {d} : Differ(r, req[e])
  BY <1>f DEF Fits
<1>5. stay' = [stay EXCEPT ![b].charges = @ + a]
  BY DEF BeginCharge
<1>6. /\ stay' \in [Bookings -> StayRow]
      /\ \A c \in Bookings : stay'[c].price = stay[c].price
  <2>1. stay[b] \in StayRow /\ stay[b].charges + a \in Nat
    BY <1>3, StayFields DEF TypeOK
  <2> DEFINE n == stay[b].charges + a
  <2>2. stay' = [stay EXCEPT ![b] = [stay[b] EXCEPT !.charges = n]]
    BY <1>5 DEF TypeOK
  <2> HIDE DEF n
  <2>3. [stay[b] EXCEPT !.charges = n] \in StayRow
        /\ [stay[b] EXCEPT !.charges = n].price = stay[b].price
    <3>1. n \in Nat
      BY <2>1 DEF n
    <3> QED
      BY <2>1, <3>1 DEF StayRow
  <2> QED
    BY <2>2, <2>3 DEF TypeOK
<1>7. UNCHANGED <<entries, posted, invoice, stale, repriced, cut>>
  BY DEF BeginCharge
<1>8. ASSUME NEW q \in {r} \cup {req[e] : e \in Desks \ {d}} PROVE ReqOK(q)'
  <2>1. q \in Request /\ ReqOK(q)
    BY <1>4 DEF TypeOK
  <2>2. q.b \in Bookings
    BY <2>1 DEF Request
  <2>3. stay'[q.b].price = stay[q.b].price /\ repriced \subseteq repriced'
    BY <1>6, <1>7, <2>2
  <2> QED
    BY <1>7, <2>1, <2>3, SamePrices
<1>9. req' \in [Desks -> Request] /\ Apart' /\ \A e \in Desks : ReqOK(req[e])'
  BY <1>2, <1>4, <1>8, Turned
<1>a. TypeOK'
  BY <1>6, <1>7, <1>9 DEF TypeOK, Invoices, InvoiceRows
<1>b. Bounded'
  BY <1>7 DEF Bounded
<1> QED
  BY <1>9, <1>a, <1>b

LEMMA BasisReprice ==
  ASSUME Basis, NEW b \in Bookings, NEW p \in Prices, Reprice(b, p)
  PROVE  Basis'
<1> USE DEF Basis
<1>1. /\ stay' = [stay EXCEPT ![b].price = p] /\ repriced' = repriced \cup {b}
      /\ UNCHANGED <<entries, posted, invoice, req, stale, cut>>
  BY DEF Reprice
<1>2. /\ stay' \in [Bookings -> StayRow]
      /\ \A c \in Bookings \ {b} : stay'[c].price = stay[c].price
  BY <1>1 DEF TypeOK, StayRow
<1>3. ASSUME NEW e \in Desks PROVE ReqOK(req[e])'
  <2>1. PICK q : q = req[e]
    OBVIOUS
  <2>2. q \in Request /\ ReqOK(q)
    BY <2>1 DEF TypeOK
  <2>3. q.b \in Bookings
    BY <2>2 DEF Request
  <2>4. ReqOK(q)'
    BY <1>1, <1>2, <2>2, <2>3, SamePrices
  <2>5. q = req'[e]
    BY <1>1, <2>1
  <2> QED
    BY <2>4, <2>5 DEF ReqOK, ShapeOK, RefOK, SeenOK, MarkOK, DueOK, SumOK, LeftOK, OpenTx,
                      Holds, Only, TotalAsSeen
<1>4. TypeOK'
  BY <1>1, <1>2 DEF TypeOK, Invoices, InvoiceRows
<1>5. Apart' /\ Bounded'
  BY <1>1 DEF Apart, Differ, Holds, Bounded
<1> QED
  BY <1>3, <1>4, <1>5

(* What is left to post after the entry of request q.                      *)
AfterEntry(q) ==
  IF q.src = "INVOICE" /\ q.amount > 0
  THEN [q EXCEPT !.at = "entryNo", !.no = 0, !.src = "PAYMENT"]
  ELSE Idle

EntryAmount(q) == IF q.src = "INVOICE" THEN q.total ELSE q.amount

LEMMA EntryRows ==
  ASSUME Basis, NEW d \in Desks, NEW q, q = req[d], PostEntry(d)
  PROVE  /\ q \in Request /\ Committed(q)
         /\ Turns(d, AfterEntry(q)) /\ Fits(d, AfterEntry(q))
         /\ posted' = [posted EXCEPT ![q.src][q.b] = @ + EntryAmount(q)]
         /\ entries' = entries \cup {[hotel |-> HotelOf[q.b], no |-> q.no]}
         /\ UNCHANGED <<stay, invoice, stale, repriced, cut>>
<1> DEFINE r == AfterEntry(q)
<1>1. q \in Request /\ ReqOK(q) /\ q.at = "entry"
  BY DEF Basis, TypeOK, PostEntry
<1>2. /\ req' = [req EXCEPT ![d] = r]
      /\ UNCHANGED <<stay, invoice, stale, repriced, cut>>
      /\ CreateEntry(HotelOf[q.b], q.no, q.src, q.b, EntryAmount(q))
  BY DEF PostEntry, AfterEntry, EntryAmount
<1>3. /\ posted' = [posted EXCEPT ![q.src][q.b] = @ + EntryAmount(q)]
      /\ entries' = entries \cup {[hotel |-> HotelOf[q.b], no |-> q.no]}
  BY <1>2 DEF CreateEntry
<1>4. CASE q.src = "INVOICE" /\ q.amount > 0
  <2>1. r = [q EXCEPT !.at = "entryNo", !.no = 0, !.src = "PAYMENT"]
    BY <1>4 DEF AfterEntry
  <2> HIDE DEF r
  <2>2. r \in Request
    BY <1>1, <2>1 DEF Request, Stages, Sources
  <2>3. r.at = "entryNo" /\ r.fresh = q.fresh
    BY <1>1, <2>1 DEF Request
  <2>4. ~ r.fresh
    BY <1>1, <2>3 DEF ReqOK, ShapeOK
  <2>5. ReqOK(r)
    BY <2>3, <2>4 DEF ReqOK, ShapeOK, RefOK, SeenOK, MarkOK, DueOK, SumOK, LeftOK, OpenTx, Holds
  <2>6. Fits(d, r)
    BY <2>2, <2>3, <2>4, <2>5 DEF Fits, Differ, Holds
  <2> QED
    BY <1>1, <1>2, <1>3, <2>6 DEF Turns, Committed, r
<1>5. CASE ~ (q.src = "INVOICE" /\ q.amount > 0)
  <2>1. r = Idle
    BY <1>5 DEF AfterEntry
  <2> HIDE DEF r
  <2>2. Fits(d, r)
    BY <2>1, IdleFits
  <2> QED
    BY <1>1, <1>2, <1>3, <2>2 DEF Turns, Committed, r
<1> QED
  BY <1>4, <1>5

LEMMA BasisEntry ==
  ASSUME Basis, NEW d \in Desks, PostEntry(d) PROVE Basis'
<1> USE DEF Basis
<1>q. PICK q : q = req[d]
  OBVIOUS
<1>1. /\ q \in Request
      /\ Turns(d, AfterEntry(q)) /\ Fits(d, AfterEntry(q))
      /\ posted' = [posted EXCEPT ![q.src][q.b] = @ + EntryAmount(q)]
      /\ entries' = entries \cup {[hotel |-> HotelOf[q.b], no |-> q.no]}
      /\ UNCHANGED <<stay, invoice, stale, repriced, cut>>
  BY <1>q, EntryRows
<1>2. req' \in [Desks -> Request] /\ Apart' /\ \A e \in Desks : ReqOK(req[e])'
  BY <1>1, TurnedOnSameRows
<1>3. /\ q.src \in Sources /\ q.b \in Bookings /\ EntryAmount(q) \in Nat /\ q.no \in Nat
      /\ HotelOf[q.b] \in Hotels
  BY <1>1, BillingAssumption DEF Request, EntryAmount
<1>4. posted' \in [Sources -> [Bookings -> Nat]]
  <2> DEFINE n == posted[q.src][q.b] + EntryAmount(q)
  <2>1. n \in Nat
    BY <1>3 DEF TypeOK
  <2>2. posted' = [posted EXCEPT ![q.src] = [posted[q.src] EXCEPT ![q.b] = n]]
    BY <1>1, <1>3 DEF TypeOK
  <2> HIDE DEF n
  <2>3. [posted[q.src] EXCEPT ![q.b] = n] \in [Bookings -> Nat]
    BY <1>3, <2>1 DEF TypeOK
  <2> QED
    BY <2>2, <2>3 DEF TypeOK
<1>5. \A e \in entries' : e \in [hotel : Hotels, no : Nat]
  BY <1>1, <1>3 DEF TypeOK
<1>6. TypeOK'
  BY <1>1, <1>2, <1>4, <1>5 DEF TypeOK, Invoices, StayRow, InvoiceRows
<1>7. Bounded'
  <2>1. PICK n \in Nat : \A e \in entries : e.no <= n
    BY DEF Bounded
  <2>2. \A e \in entries' : e \in entries \/ e.no = q.no
    BY <1>1
  <2>3. \A e \in entries : e.no \in Nat
    BY DEF TypeOK
  <2>4. CASE q.no <= n
    <3>1. \A e \in entries' : e.no <= n
      BY <2>1, <2>2, <2>4
    <3> QED
      BY <3>1 DEF Bounded
  <2>5. CASE n <= q.no
    <3>1. \A e \in entries' : e.no <= q.no
      BY <1>3, <2>1, <2>2, <2>3, <2>5
    <3> QED
      BY <1>3, <3>1 DEF Bounded
  <2> QED
    BY <1>3, <2>4, <2>5
<1> QED
  BY <1>2, <1>6, <1>7

LEMMA NoneAtFirst ==
  ASSUME Init, NEW b
  PROVE  InvoicesOf(b) = {} /\ DailyOf(b) = {}
BY NoInvoiceType DEF Init, InvoicesOf, Issued, DailyOf

LEMMA BasisInit == Init => Basis
<1> SUFFICES ASSUME Init PROVE Basis
  OBVIOUS
<1>1. TypeOK
  <2>1. /\ posted = [src \in Sources |-> [b \in Bookings |-> 0]]
        /\ posted \in [Sources -> [Bookings -> Nat]]
    BY DEF Init
  <2>2. stay \in [Bookings -> StayRow]
    BY DEF Init, StayRow, PaymentStatus
  <2> QED
    BY <2>1, <2>2, NoInvoiceType, IdleType DEF Init, TypeOK
<1>2. Bounded
  BY DEF Init, Bounded
<1>3. \A d \in Desks : req[d] = Idle
  BY DEF Init
<1>4. Apart
  BY <1>3, IdleType DEF Apart, Differ, Holds
<1>5. \A d \in Desks : ReqOK(req[d])
  BY <1>3, IdleOK
<1> QED
  BY <1>1, <1>2, <1>4, <1>5 DEF Basis

LEMMA BasisStep == Basis /\ [Next]_vars => Basis'
<1> SUFFICES ASSUME Basis, [Next]_vars PROVE Basis'
  OBVIOUS
<1>1. CASE UNCHANGED vars
  <2>1. /\ UNCHANGED <<entries, posted, stay, invoice, stale, repriced, cut>>
        /\ UNCHANGED <<req>>
    BY <1>1 DEF vars
  <2>2. TypeOK'
    BY <2>1 DEF Basis, TypeOK, Invoices, StayRow, InvoiceRows
  <2>3. Bounded' /\ Apart'
    BY <2>1 DEF Basis, Bounded, Apart, Differ, Holds
  <2>4. ASSUME NEW d \in Desks PROVE ReqOK(req[d])'
    <3>1. PICK q : q = req[d]
      OBVIOUS
    <3>2. ReqOK(q)'
      BY <2>1, <3>1, SameRows DEF Basis
    <3>3. q = req'[d]
      BY <2>1, <3>1
    <3> QED
      BY <3>2, <3>3 DEF ReqOK, ShapeOK, RefOK, SeenOK, MarkOK, DueOK, SumOK, LeftOK, OpenTx,
                        Holds, Only, TotalAsSeen
  <2> QED
    BY <2>2, <2>3, <2>4 DEF Basis
<1>2. ASSUME NEW d \in Desks, Quiet(d) \/ Thrown(d) \/ Others(d) PROVE Basis'
  BY <1>2, BasisQuiet, BasisThrown, BasisCommit, BasisEntry, BasisCharge DEF Others
<1> QED
  BY <1>1, <1>2, BasisReprice, WhatHappens

LEMMA BasisAlways == Spec => []Basis
BY BasisInit, BasisStep, PTL DEF Spec

(* The rows and the requests keep their types, whatever the handlers do.   *)
THEOREM Types == Spec => []TypeOK
<1>1. Basis => TypeOK
  BY DEF Basis
<1> QED
  BY <1>1, BasisAlways, PTL

-----------------------------------------------------------------------------
(***************************************************************************)
(* The books.                                                              *)
(***************************************************************************)
LEMMA OwedType ==
  ASSUME NEW q \in Request, NEW src \in Sources, NEW b
  PROVE  Owed(q, src, b) \in Nat
BY DEF Owed, Request, Sources

LEMMA BooksTypes ==
  ASSUME TypeOK, NEW src \in Sources, NEW b \in Bookings
  PROVE  posted[src][b] \in Nat /\ AllOwed(src, b) \in Nat /\ Booked(src, b) \in Nat
<1>1. IsFiniteSet(Desks)
  BY BillingAssumption
<1> DEFINE f == [d \in Desks |-> Owed(req[d], src, b)]
<1>2. \A d \in Desks : f[d] \in Nat
  BY OwedType DEF TypeOK
<1> HIDE DEF f
<1>3. SumFunctionOnSet(f, Desks) \in Nat
  BY <1>1, <1>2, SumType
<1>4. AllOwed(src, b) \in Nat
  BY <1>3 DEF AllOwed, f
<1>5. Booked(src, b) \in Nat
  BY SumTypes, StayFields DEF Booked, Sources
<1> QED
  BY <1>4, <1>5 DEF TypeOK

(* When one request turns, what is owed changes by what it owes.           *)
LEMMA Owing ==
  ASSUME TypeOK, NEW d \in Desks, NEW r \in Request, Turns(d, r),
         NEW src \in Sources, NEW b \in Bookings
  PROVE  AllOwed(src, b)' = AllOwed(src, b) - Owed(req[d], src, b) + Owed(r, src, b)
<1>1. IsFiniteSet(Desks)
  BY BillingAssumption
<1> DEFINE f == [e \in Desks |-> Owed(req[e], src, b)]
           g == [e \in Desks |-> Owed(req'[e], src, b)]
<1>2. \A e \in Desks : f[e] \in Nat
  BY OwedType DEF TypeOK
<1>3. req'[d] = r /\ \A e \in Desks \ {d} : req'[e] = req[e]
  BY DEF TypeOK, Turns
<1>4. g[d] = Owed(r, src, b) /\ f[d] = Owed(req[d], src, b) /\ g[d] \in Nat
  BY <1>3, OwedType
<1>5. \A e \in Desks \ {d} : g[e] = f[e]
  BY <1>3
<1>6. AllOwed(src, b) = SumFunctionOnSet(f, Desks)
  BY DEF AllOwed
<1>7. AllOwed(src, b)' = SumFunctionOnSet(g, Desks)
  BY DEF AllOwed, Owed, Committed
<1> HIDE DEF f, g
<1>8. SumFunctionOnSet(g, Desks) = SumFunctionOnSet(f, Desks) - f[d] + g[d]
  <2>1. g[d] \in Nat
    BY <1>4
  <2> QED
    BY <1>1, <1>2, <1>5, <2>1, SumChange
<1> QED
  BY <1>4, <1>6, <1>7, <1>8

LEMMA SameBooked ==
  ASSUME UNCHANGED <<stay, invoice>>, NEW src \in Sources, NEW b
  PROVE  Booked(src, b)' = Booked(src, b)
BY DEF Booked, PaidOn, Paids, Totals, DailyOf, InvoicesOf, Issued

LEMMA BalanceInit == Init => BooksBalance
<1> SUFFICES ASSUME Init, NEW src \in Sources, NEW b \in Bookings
             PROVE  posted[src][b] + AllOwed(src, b) = Booked(src, b)
  BY DEF BooksBalance
<1>1. posted[src][b] = 0
  BY DEF Init
<1>2. AllOwed(src, b) = 0
  <2> DEFINE f == [d \in Desks |-> Owed(req[d], src, b)]
  <2>1. \A d \in Desks : f[d] = 0
    BY IdleOK DEF Init
  <2>2. AllOwed(src, b) = SumFunctionOnSet(f, Desks)
    BY DEF AllOwed
  <2> HIDE DEF f
  <2> QED
    BY <2>1, <2>2, SumZero, BillingAssumption
<1>3. Booked(src, b) = 0
  <2>1. PaidOn(b) = 0 /\ SumFunctionOnSet(Totals, DailyOf(b)) = 0
    BY NoneAtFirst, SumEmpty DEF PaidOn
  <2>2. stay[b].charges = 0
    BY DEF Init
  <2> QED
    BY <2>1, <2>2 DEF Booked, Sources
<1> QED
  BY <1>1, <1>2, <1>3

LEMMA BalanceQuiet ==
  ASSUME Basis, BooksBalance, NEW d \in Desks, Quiet(d) PROVE BooksBalance'
<1> SUFFICES ASSUME NEW src \in Sources, NEW b \in Bookings \ cut'
             PROVE  posted'[src][b] + AllOwed(src, b)' = Booked(src, b)'
  BY DEF BooksBalance, Booked
<1>1. /\ TypeOK /\ b \notin cut /\ posted' = posted
      /\ UNCHANGED <<stay, invoice>>
  BY DEF Quiet, Basis
<1>2. PICK r \in Request : Turns(d, r) /\ SameOwed(req[d], r)
  BY DEF Quiet, Fits
<1>3. Owed(req[d], src, b) = Owed(r, src, b) /\ Owed(r, src, b) \in Nat
  BY <1>2, OwedType DEF SameOwed
<1>4. AllOwed(src, b)' = AllOwed(src, b) - Owed(req[d], src, b) + Owed(r, src, b)
  BY <1>1, <1>2, Owing
<1>5. posted[src][b] + AllOwed(src, b) = Booked(src, b) /\ AllOwed(src, b) \in Nat
  BY <1>1, BooksTypes DEF BooksBalance
<1>6. Booked(src, b)' = Booked(src, b)
  BY <1>1, SameBooked
<1> QED
  BY <1>1, <1>3, <1>4, <1>5, <1>6

LEMMA BalanceThrown ==
  ASSUME Basis, BooksBalance, NEW d \in Desks, Thrown(d) PROVE BooksBalance'
<1> SUFFICES ASSUME NEW src \in Sources, NEW b \in Bookings \ cut'
             PROVE  posted'[src][b] + AllOwed(src, b)' = Booked(src, b)'
  BY DEF BooksBalance, Booked
<1>1. /\ TypeOK /\ b \notin cut /\ posted' = posted
      /\ UNCHANGED <<stay, invoice>> /\ Turns(d, Idle)
      /\ Committed(req[d]) => req[d].b # b
  BY DEF Thrown, Basis
<1>2. Owed(req[d], src, b) = 0 /\ Owed(Idle, src, b) = 0
  BY <1>1, IdleOK DEF Owed
<1>4. AllOwed(src, b)' = AllOwed(src, b) - Owed(req[d], src, b) + Owed(Idle, src, b)
  BY <1>1, IdleType, Owing
<1>5. posted[src][b] + AllOwed(src, b) = Booked(src, b) /\ AllOwed(src, b) \in Nat
  BY <1>1, BooksTypes DEF BooksBalance
<1>6. Booked(src, b)' = Booked(src, b)
  BY <1>1, SameBooked
<1> QED
  BY <1>1, <1>2, <1>4, <1>5, <1>6

(* The commit books a payment, and an invoice if it makes one of the daily *)
(* series; the request owes the books exactly that.                        *)
LEMMA BalanceCommit ==
  ASSUME Basis, BooksBalance, NEW d \in Desks, Commit(d) PROVE BooksBalance'
<1> SUFFICES ASSUME NEW src \in Sources, NEW b \in Bookings \ cut'
             PROVE  posted'[src][b] + AllOwed(src, b)' = Booked(src, b)'
  BY DEF BooksBalance, Booked
<1>q. PICK q : q = req[d]
  OBVIOUS
<1>1. /\ TypeOK /\ b \notin cut /\ b \in Bookings /\ posted' = posted
      /\ stay' = [stay EXCEPT ![q.b].paid = q.sum, ![q.b].status = Derive(q.due, q.sum)]
  BY <1>q DEF Commit, Basis
<1>2. q \in Request /\ q.at = "commit"
  BY <1>q, CommitRows
<1> DEFINE r == ToPost(q)
<1>3. /\ r \in Request /\ Committed(r) /\ r.b = q.b /\ r.amount = q.amount
      /\ r.total = IF q.op = "financeInvoice" THEN q.total ELSE 0
      /\ r.src = IF q.op = "financeInvoice" THEN "INVOICE" ELSE "PAYMENT"
  BY <1>2, ToPostOK
<1>4. Turns(d, r)
  BY <1>q DEF Commit, Turns
<1> HIDE DEF r
<1>5. AllOwed(src, b)' = AllOwed(src, b) - Owed(q, src, b) + Owed(r, src, b)
  BY <1>q, <1>1, <1>3, <1>4, Owing
<1>6. Owed(q, src, b) = 0
  BY <1>2 DEF Owed, Committed
<1>7. Owed(r, src, b) \in Nat
  BY <1>3, OwedType
<1>8. /\ posted[src][b] + AllOwed(src, b) = Booked(src, b)
      /\ AllOwed(src, b) \in Nat /\ Booked(src, b) \in Nat /\ posted[src][b] \in Nat
  BY <1>1, BooksTypes DEF BooksBalance
<1>9. Booked(src, b)' = Booked(src, b) + Owed(r, src, b)
  <2>n. PaidOn(b) \in Nat /\ q.amount \in Nat
    BY <1>1, <1>2, SumTypes DEF Request
  <2>1. CASE src = "PAYMENT"
    <3>1. PaidOn(b)' = PaidOn(b) + (IF q.b = b THEN q.amount ELSE 0)
      <4>1. CASE q.b = b
        BY <1>q, <4>1, CommitPaid
      <4>2. CASE q.b # b
        <5>1. PaidOn(b)' = PaidOn(b)
          BY <1>q, <4>2, CommitPaid
        <5> QED
          BY <2>n, <4>2, <5>1
      <4> QED
        BY <4>1, <4>2
    <3>2. Owed(r, src, b) = IF q.b = b THEN q.amount ELSE 0
      BY <1>3, <2>1 DEF Owed
    <3> QED
      BY <2>1, <3>1, <3>2 DEF Booked
  <2>2. CASE src = "INVOICE"
    <3>1. SumFunctionOnSet(Totals, DailyOf(b))'
            = SumFunctionOnSet(Totals, DailyOf(b))
              + (IF q.b = b /\ q.op = "financeInvoice" THEN q.total ELSE 0)
      BY <1>q, CommitDaily
    <3>2. Owed(r, src, b) = IF q.b = b /\ q.op = "financeInvoice" THEN q.total ELSE 0
      BY <1>3, <2>2 DEF Owed
    <3> QED
      BY <2>2, <3>1, <3>2 DEF Booked
  <2>3. CASE src = "FOLIO"
    <3>1. stay'[b].charges = stay[b].charges
      BY <1>1 DEF TypeOK, StayRow
    <3>2. Owed(r, src, b) = 0
      BY <1>3, <2>3 DEF Owed
    <3>3. stay[b].charges \in Nat
      BY <1>1, StayFields
    <3> QED
      BY <2>3, <3>1, <3>2, <3>3 DEF Booked
  <2> QED
    BY <2>1, <2>2, <2>3 DEF Sources
<1> QED
  BY <1>1, <1>5, <1>6, <1>7, <1>8, <1>9

LEMMA BalanceEntry ==
  ASSUME Basis, BooksBalance, NEW d \in Desks, PostEntry(d) PROVE BooksBalance'
<1> SUFFICES ASSUME NEW src \in Sources, NEW b \in Bookings \ cut'
             PROVE  posted'[src][b] + AllOwed(src, b)' = Booked(src, b)'
  BY DEF BooksBalance, Booked
<1>q. PICK q : q = req[d]
  OBVIOUS
<1> DEFINE r == AfterEntry(q)
<1>1. /\ q \in Request /\ Committed(q)
      /\ Turns(d, r) /\ Fits(d, r)
      /\ posted' = [posted EXCEPT ![q.src][q.b] = @ + EntryAmount(q)]
      /\ UNCHANGED <<stay, invoice, cut>>
  BY <1>q, EntryRows
<1>2. TypeOK /\ b \notin cut /\ b \in Bookings /\ r \in Request
  BY <1>1 DEF Basis, Fits
<1>3. AllOwed(src, b)' = AllOwed(src, b) - Owed(q, src, b) + Owed(r, src, b)
  BY <1>q, <1>1, <1>2, Owing
<1>4. /\ posted[src][b] + AllOwed(src, b) = Booked(src, b)
      /\ AllOwed(src, b) \in Nat /\ posted[src][b] \in Nat
  BY <1>2, BooksTypes DEF BooksBalance
<1>5. Booked(src, b)' = Booked(src, b)
  BY <1>1, SameBooked
<1>6. /\ q.src \in Sources /\ q.b \in Bookings /\ q.amount \in Nat /\ q.total \in Nat
      /\ EntryAmount(q) \in Nat
  BY <1>1 DEF Request, EntryAmount
<1> DEFINE n == IF src = q.src /\ b = q.b THEN EntryAmount(q) ELSE 0
<1>7. posted'[src][b] = posted[src][b] + n
  <2>1. CASE src = q.src /\ b = q.b
    BY <1>1, <1>2, <1>6, <2>1 DEF TypeOK
  <2>2. CASE src = q.src /\ b # q.b
    BY <1>1, <1>2, <1>4, <1>6, <2>2 DEF TypeOK
  <2>3. CASE src # q.src
    BY <1>1, <1>2, <1>4, <1>6, <2>3 DEF TypeOK
  <2> QED
    BY <2>1, <2>2, <2>3
<1>8. Owed(q, src, b) = n + Owed(r, src, b)
  <2>1. CASE b # q.b
    <3>1. r.b = q.b \/ r = Idle
      BY <1>1 DEF AfterEntry, Request
    <3>2. Owed(r, src, b) = 0 /\ Owed(q, src, b) = 0
      BY <2>1, <3>1, IdleOK DEF Owed
    <3> QED
      BY <2>1, <3>2
  <2>2. CASE b = q.b /\ q.src = "INVOICE" /\ q.amount > 0
    <3>1. r = [q EXCEPT !.at = "entryNo", !.no = 0, !.src = "PAYMENT"]
      BY <2>2 DEF AfterEntry
    <3>2. r.at = "entryNo" /\ r.b = q.b /\ r.amount = q.amount /\ r.src = "PAYMENT"
      BY <1>1, <3>1 DEF Request
    <3>3. /\ Owed(q, src, b) = CASE src = "PAYMENT" -> q.amount [] src = "INVOICE" -> q.total
                                 [] src = "FOLIO" -> 0
          /\ Owed(r, src, b) = CASE src = "PAYMENT" -> q.amount [] src = "INVOICE" -> 0
                                 [] src = "FOLIO" -> 0
      <4> HIDE DEF r
      <4> QED
        BY <1>1, <2>2, <3>2 DEF Owed, Committed, Sources
    <3> QED
      BY <1>6, <2>2, <3>3 DEF EntryAmount, Sources
  <2>3. CASE b = q.b /\ ~ (q.src = "INVOICE" /\ q.amount > 0)
    <3>1. Owed(r, src, b) = 0
      BY <2>3, IdleOK DEF AfterEntry
    <3>2. Owed(q, src, b) = n
      BY <1>1, <1>6, <2>3 DEF Owed, EntryAmount, Sources
    <3>3. n \in Nat
      BY <1>6
    <3> QED
      BY <3>1, <3>2, <3>3
  <2> QED
    BY <2>1, <2>2, <2>3
<1>9. n \in Nat /\ Owed(r, src, b) \in Nat
  BY <1>2, <1>6, OwedType
<1> HIDE DEF n, r
<1> QED
  BY <1>3, <1>4, <1>5, <1>7, <1>8, <1>9

LEMMA BalanceCharge ==
  ASSUME Basis, BooksBalance, NEW d \in Desks, NEW c \in Bookings, NEW a \in Amounts,
         BeginCharge(d, c, a)
  PROVE  BooksBalance'
<1> SUFFICES ASSUME NEW src \in Sources, NEW b \in Bookings \ cut'
             PROVE  posted'[src][b] + AllOwed(src, b)' = Booked(src, b)'
  BY DEF BooksBalance, Booked
<1>1. PICK r : r = [Idle EXCEPT !.op = "charge", !.at = "entryNo", !.b = c,
                                !.amount = a, !.src = "FOLIO"]
  OBVIOUS
<1>2. /\ TypeOK /\ b \notin cut /\ b \in Bookings /\ posted' = posted /\ invoice' = invoice
      /\ stay' = [stay EXCEPT ![c].charges = @ + a] /\ Turns(d, r) /\ Free(d)
  BY <1>1 DEF BeginCharge, Turns, Basis
<1>3. a \in Nat
  BY BillingAssumption
<1>4. Committed(r) /\ r.b = c /\ r.src = "FOLIO" /\ r.amount = a
  BY <1>1, IdleType DEF Request, Committed
<1>f. Fits(d, r)
  BY <1>1, <1>3, ChargeFits
<1>5. r \in Request
  BY <1>f DEF Fits
<1>6. AllOwed(src, b)' = AllOwed(src, b) - Owed(req[d], src, b) + Owed(r, src, b)
  BY <1>2, <1>5, Owing
<1>7. /\ posted[src][b] + AllOwed(src, b) = Booked(src, b)
      /\ AllOwed(src, b) \in Nat /\ Booked(src, b) \in Nat /\ posted[src][b] \in Nat
  BY <1>2, BooksTypes DEF BooksBalance
<1>8. Owed(req[d], src, b) = 0
  BY <1>2 DEF Owed, Committed, Free
<1>9. Owed(r, src, b) = (IF src = "FOLIO" /\ b = c THEN a ELSE 0)
  BY <1>4 DEF Owed, Sources
<1>a. Booked(src, b)' = Booked(src, b) + (IF src = "FOLIO" /\ b = c THEN a ELSE 0)
  <2>1. CASE src = "FOLIO"
    <3>1. stay'[b].charges = stay[b].charges + (IF b = c THEN a ELSE 0)
      <4>1. CASE b = c
        BY <1>2, <4>1 DEF TypeOK, StayRow
      <4>2. CASE b # c
        <5>1. stay'[b] = stay[b]
          BY <1>2, <4>2 DEF TypeOK
        <5>2. stay[b].charges \in Nat
          BY <1>2, StayFields
        <5> QED
          BY <4>2, <5>1, <5>2
      <4> QED
        BY <4>1, <4>2
    <3> QED
      BY <2>1, <3>1 DEF Booked
  <2>2. CASE src # "FOLIO"
    <3>1. Booked(src, b)' = Booked(src, b)
      BY <1>2, <2>2 DEF Booked, Sources, PaidOn, Paids, Totals, DailyOf, InvoicesOf, Issued
    <3> QED
      BY <1>7, <2>2, <3>1
  <2> QED
    BY <2>1, <2>2
<1> QED
  BY <1>2, <1>3, <1>6, <1>7, <1>8, <1>9, <1>a

LEMMA BalanceReprice ==
  ASSUME Basis, BooksBalance, NEW c \in Bookings, NEW p \in Prices, Reprice(c, p)
  PROVE  BooksBalance'
<1> SUFFICES ASSUME NEW src \in Sources, NEW b \in Bookings \ cut'
             PROVE  posted'[src][b] + AllOwed(src, b)' = Booked(src, b)'
  BY DEF BooksBalance, Booked
<1>1. /\ TypeOK /\ b \notin cut /\ b \in Bookings /\ UNCHANGED <<posted, invoice, req>>
      /\ stay' = [stay EXCEPT ![c].price = p]
  BY DEF Reprice, Basis
<1>2. posted[src][b] + AllOwed(src, b) = Booked(src, b)
  BY <1>1 DEF BooksBalance
<1>3. AllOwed(src, b)' = AllOwed(src, b)
  BY <1>1 DEF AllOwed, Owed, Committed
<1>4. Booked(src, b)' = Booked(src, b)
  <2>1. stay'[b].charges = stay[b].charges
    BY <1>1 DEF TypeOK, StayRow
  <2> QED
    BY <1>1, <2>1 DEF Booked, PaidOn, Paids, Totals, DailyOf, InvoicesOf, Issued
<1> QED
  BY <1>1, <1>2, <1>3, <1>4

LEMMA BalanceStep == Basis /\ BooksBalance /\ [Next]_vars => BooksBalance'
<1> SUFFICES ASSUME Basis, BooksBalance, [Next]_vars PROVE BooksBalance'
  OBVIOUS
<1>1. CASE UNCHANGED vars
  <2>1. UNCHANGED <<posted, stay, invoice, req, cut>>
    BY <1>1 DEF vars
  <2> SUFFICES ASSUME NEW src \in Sources, NEW b \in Bookings \ cut'
               PROVE  posted'[src][b] + AllOwed(src, b)' = Booked(src, b)'
    BY DEF BooksBalance, Booked
  <2>2. AllOwed(src, b)' = AllOwed(src, b)
    BY <2>1 DEF AllOwed, Owed, Committed
  <2>3. Booked(src, b)' = Booked(src, b)
    BY <2>1, SameBooked
  <2> QED
    BY <2>1, <2>2, <2>3 DEF BooksBalance
<1>2. ASSUME NEW d \in Desks, Quiet(d) \/ Thrown(d) \/ Others(d) PROVE BooksBalance'
  BY <1>2, BalanceQuiet, BalanceThrown, BalanceCommit, BalanceEntry, BalanceCharge DEF Others
<1> QED
  BY <1>1, <1>2, BalanceReprice, WhatHappens

(* Nothing paid, invoiced or charged is missing from the books of a stay   *)
(* whose requests are answered, or is there twice, unless an entry failed  *)
(* after the commit: BooksMatch, because at any time the books and what    *)
(* the requests in flight still have to post add up to the rows.           *)
THEOREM BooksAreOfTheRows == Spec => []BooksMatch
<1>1. Spec => []BooksBalance
  BY BasisAlways, BasisInit, BalanceInit, BalanceStep, PTL DEF Spec
<1>2. TypeOK /\ BooksBalance => BooksMatch
  <2> SUFFICES ASSUME TypeOK, BooksBalance, NEW b \in Bookings \ cut,
                      \A d \in Desks : ~ Free(d) => req[d].b # b
               PROVE  /\ posted["PAYMENT"][b] = PaidOn(b)
                      /\ posted["FOLIO"][b] = stay[b].charges
                      /\ posted["INVOICE"][b] = SumFunctionOnSet(Totals, DailyOf(b))
    BY DEF BooksMatch, DailyOf
  <2>1. ASSUME NEW src \in Sources PROVE posted[src][b] = Booked(src, b)
    <3> DEFINE f == [d \in Desks |-> Owed(req[d], src, b)]
    <3>1. \A d \in Desks : f[d] = 0
      BY DEF Owed, Free, Committed
    <3>2. AllOwed(src, b) = SumFunctionOnSet(f, Desks)
      BY DEF AllOwed
    <3> HIDE DEF f
    <3>3. AllOwed(src, b) = 0
      BY <3>1, <3>2, SumZero, BillingAssumption
    <3>4. posted[src][b] \in Nat /\ posted[src][b] + AllOwed(src, b) = Booked(src, b)
      BY BooksTypes DEF BooksBalance
    <3> QED
      BY <3>3, <3>4
  <2> QED
    BY <2>1 DEF Booked, Sources
<1> QED
  BY <1>1, <1>2, Types, PTL

-----------------------------------------------------------------------------
(***************************************************************************)
(* What is paid, what is due and what the rows show.                       *)
(***************************************************************************)
(* The step leaves the invoices of stay b, and what is paid on it, alone.  *)
Untouched(b) ==
  /\ InvoicesOf(b)' = InvoicesOf(b) /\ PaidOn(b)' = PaidOn(b)
  /\ \A i \in InvoicesOf(b) : invoice'[i] = invoice[i]
  /\ stay'[b].paid = stay[b].paid /\ stay'[b].status = stay[b].status
  /\ repriced \subseteq repriced'
  /\ b \notin repriced' => stay'[b].price = stay[b].price

LEMMA WhoIsPaid ==
  ASSUME Basis, [Next]_vars
  PROVE  /\ stale \subseteq stale'
         /\ (\E d \in Desks : Commit(d)) \/ UNCHANGED <<invoice, stale>>
         /\ \A b \in Bookings : Untouched(b) \/ \E d \in Desks : Commit(d) /\ req[d].b = b
<1>t. stay \in [Bookings -> StayRow]
  BY DEF Basis, TypeOK
<1>r. ASSUME UNCHANGED invoice, NEW b
      PROVE  /\ InvoicesOf(b)' = InvoicesOf(b) /\ PaidOn(b)' = PaidOn(b)
             /\ \A i \in InvoicesOf(b) : invoice'[i] = invoice[i]
  BY <1>r DEF InvoicesOf, Issued, PaidOn, Paids
<1>1. ASSUME UNCHANGED <<stay, invoice, stale, repriced>>
      PROVE  /\ UNCHANGED <<invoice, stale>> /\ \A b \in Bookings : Untouched(b)
  BY <1>1, <1>r DEF Untouched
<1>2. CASE UNCHANGED vars
  BY <1>1, <1>2 DEF vars
<1>3. ASSUME NEW d \in Desks, Quiet(d) \/ Thrown(d) \/ PostEntry(d)
      PROVE  UNCHANGED <<invoice, stale>> /\ \A b \in Bookings : Untouched(b)
  BY <1>1, <1>3 DEF Quiet, Thrown, PostEntry
<1>4. ASSUME NEW d \in Desks, NEW c \in Bookings, NEW a \in Amounts, BeginCharge(d, c, a)
      PROVE  UNCHANGED <<invoice, stale>> /\ \A b \in Bookings : Untouched(b)
  <2>1. UNCHANGED <<invoice, stale, repriced>> /\ stay' = [stay EXCEPT ![c].charges = @ + a]
    BY <1>4 DEF BeginCharge
  <2>2. ASSUME NEW b \in Bookings
        PROVE  /\ stay'[b].paid = stay[b].paid /\ stay'[b].status = stay[b].status
               /\ stay'[b].price = stay[b].price
    BY <1>t, <2>1 DEF StayRow
  <2> QED
    BY <1>r, <2>1, <2>2 DEF Untouched
<1>5. ASSUME NEW c \in Bookings, NEW p \in Prices, Reprice(c, p)
      PROVE  UNCHANGED <<invoice, stale>> /\ \A b \in Bookings : Untouched(b)
  <2>1. /\ UNCHANGED <<invoice, stale>> /\ stay' = [stay EXCEPT ![c].price = p]
        /\ repriced' = repriced \cup {c}
    BY <1>5 DEF Reprice
  <2>2. ASSUME NEW b \in Bookings
        PROVE  /\ stay'[b].paid = stay[b].paid /\ stay'[b].status = stay[b].status
               /\ b # c => stay'[b].price = stay[b].price
    BY <1>t, <2>1 DEF StayRow
  <2> QED
    BY <1>r, <2>1, <2>2 DEF Untouched
<1>6. ASSUME NEW d \in Desks, Commit(d)
      PROVE  stale \subseteq stale' /\ \A b \in Bookings : Untouched(b) \/ req[d].b = b
  <2>q. PICK q : q = req[d]
    OBVIOUS
  <2>1. /\ stay' = [stay EXCEPT ![q.b].paid = q.sum, ![q.b].status = Derive(q.due, q.sum)]
        /\ stale' = (IF Outdated(q) THEN stale \cup {q.b} ELSE stale)
        /\ repriced' = repriced
    BY <1>6, <2>q DEF Commit
  <2>2. ASSUME NEW b \in Bookings, b # q.b PROVE Untouched(b)
    <3>1. stay'[b] = stay[b]
      BY <1>t, <2>1, <2>2
    <3>2. InvoicesOf(b)' = InvoicesOf(b) /\ PaidOn(b)' = PaidOn(b)
      BY <1>6, <2>q, <2>2, CommitSets, CommitPaid
    <3>3. /\ \A j \in Invoices \ {q.i} : invoice'[j] = invoice[j]
          /\ q.i \in Issued => invoice[q.i].b = q.b
      BY <1>6, <2>q, CommitRows
    <3>4. \A i \in InvoicesOf(b) : invoice'[i] = invoice[i]
      BY <2>2, <3>3 DEF InvoicesOf, Issued
    <3> QED
      BY <2>1, <3>1, <3>2, <3>4 DEF Untouched
  <2> QED
    BY <2>q, <2>1, <2>2
<1>7. CASE \E d \in Desks : Commit(d)
  BY <1>6, <1>7
<1>8. CASE ~ \E d \in Desks : Commit(d)
  <2>1. UNCHANGED <<invoice, stale>> /\ \A b \in Bookings : Untouched(b)
    BY <1>2, <1>3, <1>4, <1>5, <1>8, <1>1, WhatHappens DEF Others, vars
  <2> QED
    BY <2>1
<1> QED
  BY <1>7, <1>8

(* The status of an invoice is that of its payments.                       *)
LEMMA StatusAtCommit ==
  ASSUME Basis, NEW d \in Desks, NEW q, q = req[d], Commit(d)
  PROVE  /\ q.b \notin stale' =>
              invoice'[q.i].status = Derive(invoice'[q.i].total, invoice'[q.i].paid)
         /\ invoice'[q.i].status = "PAID" => invoice'[q.i].paid >= invoice'[q.i].total
         /\ invoice'[q.i].status = "PARTIAL" => invoice'[q.i].paid > 0
<1>1. /\ q \in Request /\ ReqOK(q) /\ q.at = "commit" /\ q.i \in Invoices
      /\ invoice'[q.i].total = TotalAsSeen(q) /\ invoice'[q.i].status = q.mark
      /\ invoice'[q.i].paid = PaidAsSeen(q) + q.amount
  BY CommitRows
<1>2. q.amount \in Nat /\ q.total \in Nat /\ q.fresh \in BOOLEAN
      /\ invoice[q.i].paid \in Nat /\ invoice[q.i].total \in Nat
  BY <1>1, InvoiceFields DEF Request, Basis
<1>3. CASE q.fresh
  <2>1. q.mark = Derive(q.total, q.amount)
    BY <1>1, <1>3 DEF ReqOK, MarkOK
  <2>2. invoice'[q.i].total = q.total /\ invoice'[q.i].paid = q.amount
    BY <1>1, <1>2, <1>3 DEF TotalAsSeen, PaidAsSeen
  <2> QED
    BY <1>1, <1>2, <2>1, <2>2 DEF Derive
<1>4. CASE ~ q.fresh
  <2> DEFINE t == invoice[q.i].total
             p == invoice[q.i].paid + q.amount
  <2>1. invoice'[q.i].total = t /\ invoice'[q.i].paid = p
    BY <1>1, <1>4 DEF TotalAsSeen, PaidAsSeen
  <2>2. /\ q.mark = "PAID" => p >= t
        /\ q.seen = PaidOn(q.b) => q.mark = Derive(t, p)
    BY <1>1, <1>4 DEF ReqOK, MarkOK
  <2>3. q.op # "financeInvoice" /\ q.amount > 0
    BY <1>1, <1>4 DEF ReqOK, ShapeOK, OpenTx, Holds
  <2>4. q.b \notin stale' => q.seen = PaidOn(q.b)
    BY <2>3 DEF Commit, Outdated
  <2>5. p > 0
    BY <1>2, <2>3
  <2> QED
    BY <1>1, <2>1, <2>2, <2>4, <2>5
<1> QED
  BY <1>2, <1>3, <1>4

(* An invoice shows the status of its payments, unless one of them was     *)
(* recorded on an outdated balance, and never shows as paid, or partly     *)
(* paid, what is not: InvoiceStatusCurrent, for payments of both endpoints *)
(* in any number and overlap.                                              *)
THEOREM StatusIsOfPayments == Spec => []InvoiceStatusCurrent
<1>1. Init => InvoiceStatusCurrent
  BY NoInvoiceType DEF Init, InvoiceStatusCurrent, Issued
<1>2. Basis /\ InvoiceStatusCurrent /\ [Next]_vars => InvoiceStatusCurrent'
  <2> SUFFICES ASSUME Basis, InvoiceStatusCurrent, [Next]_vars PROVE InvoiceStatusCurrent'
    OBVIOUS
  <2>1. CASE UNCHANGED <<invoice, stale>>
    BY <2>1 DEF InvoiceStatusCurrent, Issued
  <2>2. ASSUME NEW d \in Desks, Commit(d) PROVE InvoiceStatusCurrent'
    <3>q. PICK q : q = req[d]
      OBVIOUS
    <3>1. /\ Issued' = Issued \cup {q.i}
          /\ \A j \in Invoices \ {q.i} : invoice'[j] = invoice[j]
          /\ invoice'[q.i].b = q.b
      BY <2>2, <3>q, CommitRows, CommitSets
    <3>2. stale \subseteq stale'
      BY WhoIsPaid
    <3>3. /\ q.b \notin stale' =>
               invoice'[q.i].status = Derive(invoice'[q.i].total, invoice'[q.i].paid)
          /\ invoice'[q.i].status = "PAID" => invoice'[q.i].paid >= invoice'[q.i].total
          /\ invoice'[q.i].status = "PARTIAL" => invoice'[q.i].paid > 0
      BY <2>2, <3>q, StatusAtCommit
    <3>4. \A j \in Issued' : j # q.i => j \in Issued /\ invoice'[j] = invoice[j]
      BY <3>1 DEF Issued
    <3> SUFFICES ASSUME NEW j \in Issued'
                 PROVE  /\ invoice'[j].b \notin stale' =>
                             invoice'[j].status = Derive(invoice'[j].total, invoice'[j].paid)
                        /\ invoice'[j].status = "PAID" => invoice'[j].paid >= invoice'[j].total
                        /\ invoice'[j].status = "PARTIAL" => invoice'[j].paid > 0
      BY DEF InvoiceStatusCurrent, Derive
    <3>5. CASE j = q.i
      BY <3>1, <3>3, <3>5
    <3>6. CASE j # q.i
      BY <3>2, <3>4, <3>6 DEF InvoiceStatusCurrent
    <3> QED
      BY <3>5, <3>6
  <2> QED
    BY <2>1, <2>2, WhoIsPaid
<1> QED
  BY <1>1, <1>2, BasisAlways, PTL DEF Spec

(* A stay that is plain after a step that leaves it alone was plain.       *)
LEMMA PlainBefore ==
  ASSUME NEW b \in Bookings, Untouched(b)
  PROVE  Plain(b)' => Plain(b) /\ stay'[b].price = stay[b].price
BY DEF Untouched, Plain

(* After a commit on a plain stay, the request's invoice is its only one.  *)
LEMMA PlainCommit ==
  ASSUME Basis, NEW d \in Desks, NEW q, q = req[d], Commit(d),
         \A i, j \in InvoicesOf(q.b)' : i = j
  PROVE  /\ Only(q) /\ q \in Request /\ ReqOK(q) /\ q.at = "commit"
         /\ q.fresh => PaidOn(q.b) = 0
         /\ PaidOn(q.b)' = PaidOn(q.b) + q.amount
         /\ Plain(q.b)' => /\ TotalAsSeen(q) = stay[q.b].price
                           /\ stay'[q.b].price = stay[q.b].price
                           /\ q.b \notin repriced
<1>1. /\ q \in Request /\ ReqOK(q) /\ q.at = "commit" /\ q.i \in Invoices
      /\ q.fresh => q.i \notin Issued
      /\ invoice'[q.i].total = TotalAsSeen(q)
  BY CommitRows
<1>2. InvoicesOf(q.b)' = InvoicesOf(q.b) \cup {q.i}
  BY CommitSets
<1>3. q.i \in InvoicesOf(q.b)'
  BY <1>2
<1>4. Only(q)
  BY <1>2, <1>3 DEF Only
<1>5. q.fresh => PaidOn(q.b) = 0
  <2>1. q.fresh => InvoicesOf(q.b) = {}
    BY <1>1, <1>4 DEF Only, InvoicesOf
  <2> QED
    BY <2>1, SumEmpty DEF PaidOn
<1>6. PaidOn(q.b)' = PaidOn(q.b) + q.amount
  BY CommitPaid
<1>7. stay'[q.b].price = stay[q.b].price /\ repriced' = repriced
  <2>1. q.b \in Bookings
    BY <1>1 DEF Request
  <2> QED
    BY <2>1 DEF Commit, Basis, TypeOK, StayRow
<1>8. ASSUME Plain(q.b)'
      PROVE  TotalAsSeen(q) = stay[q.b].price /\ q.b \notin repriced
  <2>1. invoice'[q.i].total = stay'[q.b].price /\ q.b \notin repriced'
    BY <1>3, <1>8 DEF Plain
  <2> QED
    BY <1>1, <1>7, <2>1
<1> QED
  BY <1>1, <1>4, <1>5, <1>6, <1>7, <1>8

(* A stay is not paid twice, however its payments overlap, unless one of   *)
(* them was checked against an outdated balance: NoOverpayment.  Only a    *)
(* payment that finds something to pay is recorded, so that the tolerance  *)
(* is used once.                                                           *)
THEOREM StayIsNotOverpaid == Spec => []NoOverpayment
<1>1. Init => NoOverpayment
  <2> SUFFICES ASSUME Init, NEW b \in Bookings
               PROVE  PaidOn(b) <= stay[b].price + Tolerance
    BY DEF NoOverpayment
  <2>1. PaidOn(b) = 0
    BY NoneAtFirst, SumEmpty DEF PaidOn
  <2>2. stay[b].price \in Nat /\ Tolerance \in Nat
    BY BasisInit, StayFields, BillingAssumption DEF Basis
  <2> QED
    BY <2>1, <2>2
<1>2. Basis /\ NoOverpayment /\ [Next]_vars => NoOverpayment'
  <2> SUFFICES ASSUME Basis, NoOverpayment, [Next]_vars,
                      NEW b \in Bookings \ stale', Plain(b)'
               PROVE  PaidOn(b)' <= stay'[b].price + Tolerance
    BY DEF NoOverpayment
  <2>1. b \notin stale /\ (Untouched(b) \/ \E d \in Desks : Commit(d) /\ req[d].b = b)
    BY WhoIsPaid
  <2>2. CASE Untouched(b)
    <3>1. Plain(b) /\ stay'[b].price = stay[b].price /\ PaidOn(b)' = PaidOn(b)
      BY <2>2, PlainBefore DEF Untouched
    <3> QED
      BY <2>1, <3>1 DEF NoOverpayment
  <2>3. ASSUME NEW d \in Desks, Commit(d), req[d].b = b
        PROVE  PaidOn(b)' <= stay'[b].price + Tolerance
    <3>q. PICK q : q = req[d]
      OBVIOUS
    <3>b. q.b = b /\ (\A i, j \in InvoicesOf(q.b)' : i = j) /\ Plain(q.b)'
      BY <2>3, <3>q DEF Plain, InvoicesOf, Issued
    <3>1. /\ Only(q) /\ q \in Request /\ ReqOK(q) /\ q.at = "commit"
          /\ q.fresh => PaidOn(q.b) = 0
          /\ PaidOn(q.b)' = PaidOn(q.b) + q.amount
          /\ TotalAsSeen(q) = stay[q.b].price /\ stay'[q.b].price = stay[q.b].price
          /\ q.b \notin repriced
      BY <2>3, <3>q, <3>b, PlainCommit
    <3>2. q.op # "financeInvoice" => PaidOn(q.b) = q.seen
      BY <2>3, <3>q, <3>b DEF Commit, Outdated
    <3>3. /\ ShapeOK(q) /\ DueOK(q) /\ LeftOK(q) /\ OpenTx(q) /\ Holds(q)
      BY <3>1 DEF ReqOK, OpenTx, Holds
    <3>4. /\ q.amount \in Nat /\ q.seen \in Nat /\ q.total \in Nat /\ q.due \in Nat
          /\ stay[b].price \in Nat /\ PaidOn(q.b) \in Nat /\ Tolerance \in Nat
      BY <3>1, StayFields, SumTypes, BillingAssumption DEF Request, Basis
    <3>5. PaidOn(q.b) + q.amount <= stay[q.b].price + Tolerance
      <4>1. CASE q.op = "pay"
        BY <3>1, <3>2, <3>3, <3>4, <3>b, <4>1 DEF ShapeOK, DueOK
      <4>2. CASE q.op = "financePay"
        <5>1. ~ q.fresh
          BY <3>3, <4>2 DEF ShapeOK
        <5>2. q.seen + q.amount <= invoice[q.i].total + Tolerance
          BY <3>1, <3>3, <4>2 DEF LeftOK
        <5> QED
          BY <3>1, <3>2, <4>2, <5>1, <5>2 DEF TotalAsSeen
      <4>3. CASE q.op = "financeInvoice"
        <5>1. q.fresh /\ q.amount <= q.total + Tolerance
          BY <3>3, <4>3 DEF ShapeOK
        <5> QED
          BY <3>1, <3>4, <5>1 DEF TotalAsSeen
      <4> QED
        BY <3>3, <4>1, <4>2, <4>3 DEF ShapeOK
    <3> QED
      BY <3>b, <3>1, <3>5
  <2> QED
    BY <2>1, <2>2, <2>3
<1> QED
  BY <1>1, <1>2, BasisAlways, PTL DEF Spec

(* However the requests on a stay with one invoice overlap, and whichever  *)
(* of them fail, the paidAmount of the reservation is the sum of its       *)
(* payments, and its status follows: PaidAmountIsSum.  The payments are    *)
(* added up while the invoice is locked.                                   *)
THEOREM PaidAmountIsOfPayments == Spec => []PaidAmountIsSum
<1>1. Init => PaidAmountIsSum
  <2> SUFFICES ASSUME Init, NEW b \in Bookings
               PROVE  /\ stay[b].paid = PaidOn(b)
                      /\ stay[b].status = Derive(stay[b].price, PaidOn(b))
    BY DEF PaidAmountIsSum
  <2>1. PaidOn(b) = 0
    BY NoneAtFirst, SumEmpty DEF PaidOn
  <2>2. stay[b].price \in Nat \ {0}
    BY BasisInit, StayFields DEF Basis
  <2>3. stay[b].paid = 0 /\ stay[b].status = "UNPAID"
    BY DEF Init
  <2> QED
    BY <2>1, <2>2, <2>3 DEF Derive
<1>2. Basis /\ PaidAmountIsSum /\ [Next]_vars => PaidAmountIsSum'
  <2> SUFFICES ASSUME Basis, PaidAmountIsSum, [Next]_vars,
                      NEW b \in Bookings, \A i, j \in InvoicesOf(b)' : i = j
               PROVE  /\ stay'[b].paid = PaidOn(b)'
                      /\ Plain(b)' => stay'[b].status = Derive(stay'[b].price, PaidOn(b)')
    BY DEF PaidAmountIsSum, Derive
  <2>1. Untouched(b) \/ \E d \in Desks : Commit(d) /\ req[d].b = b
    BY WhoIsPaid
  <2>2. CASE Untouched(b)
    <3>1. /\ \A i, j \in InvoicesOf(b) : i = j
          /\ PaidOn(b)' = PaidOn(b) /\ stay'[b].paid = stay[b].paid
          /\ stay'[b].status = stay[b].status
      BY <2>2 DEF Untouched
    <3>2. Plain(b)' => Plain(b) /\ stay'[b].price = stay[b].price
      BY <2>2, PlainBefore
    <3> QED
      BY <3>1, <3>2 DEF PaidAmountIsSum
  <2>3. ASSUME NEW d \in Desks, Commit(d), req[d].b = b
        PROVE  /\ stay'[b].paid = PaidOn(b)'
               /\ Plain(b)' => stay'[b].status = Derive(stay'[b].price, PaidOn(b)')
    <3>q. PICK q : q = req[d]
      OBVIOUS
    <3>b. q.b = b /\ \A i, j \in InvoicesOf(q.b)' : i = j
      BY <2>3, <3>q DEF InvoicesOf, Issued
    <3>1. /\ Only(q) /\ q \in Request /\ ReqOK(q) /\ q.at = "commit"
          /\ PaidOn(q.b)' = PaidOn(q.b) + q.amount
          /\ Plain(q.b)' => /\ TotalAsSeen(q) = stay[q.b].price
                            /\ stay'[q.b].price = stay[q.b].price
                            /\ q.b \notin repriced
      BY <2>3, <3>q, <3>b, PlainCommit
    <3>2. stay'[q.b].paid = q.sum /\ stay'[q.b].status = Derive(q.due, q.sum)
      <4>1. stay' = [stay EXCEPT ![q.b].paid = q.sum, ![q.b].status = Derive(q.due, q.sum)]
        BY <2>3, <3>q DEF Commit
      <4> QED
        BY <3>b, <4>1 DEF Basis, TypeOK, StayRow
    <3>3. q.sum = PaidOn(q.b) + q.amount
      BY <3>1 DEF ReqOK, SumOK
    <3>4. Plain(q.b)' => q.due = stay'[q.b].price
      BY <3>1 DEF ReqOK, DueOK, OpenTx
    <3>5. /\ stay'[q.b].paid = PaidOn(q.b)'
          /\ Plain(q.b)' => stay'[q.b].status = Derive(stay'[q.b].price, PaidOn(q.b)')
      BY <3>1, <3>2, <3>3, <3>4
    <3> QED
      BY <3>b, <3>5 DEF Plain, InvoicesOf, Issued
  <2> QED
    BY <2>1, <2>2, <2>3
<1> QED
  BY <1>1, <1>2, BasisAlways, PTL DEF Spec
-----------------------------------------------------------------------------
(***************************************************************************)
(* One request at a time.  The balance a request has read stays the        *)
(* balance, and the number it has chosen stays the next one.               *)
(***************************************************************************)
Serial == \A d, e \in Desks : d = e

SeenNow(q)   == OpenTx(q) /\ q.op # "financeInvoice" => q.seen = PaidOn(q.b)
NumberNow(q) == q.at = "entry" => q.no = NextEntryNo(HotelOf[q.b])
Current == \A d \in Desks : SeenNow(req[d]) /\ NumberNow(req[d])
NeverStale == stale = {}

(* A step that keeps invoices and entries keeps what the request knows, if *)
(* it reads it in this step or knew it before.                             *)
LEMMA CurrentKept ==
  ASSUME Serial, TypeOK, Current, NEW d \in Desks, NEW r, Turns(d, r),
         UNCHANGED <<entries, invoice>>,
         SeenNow(r) \/ (/\ OpenTx(req[d]) /\ r.op = req[d].op /\ r.b = req[d].b
                        /\ r.seen = req[d].seen),
         NumberNow(r)
  PROVE  Current'
<1>1. /\ \A b : PaidOn(b)' = PaidOn(b)
      /\ \A h : NextEntryNo(h)' = NextEntryNo(h)
  BY DEF PaidOn, InvoicesOf, Issued, Paids, NextEntryNo, LastEntryNo, EntryNosOf
<1>2. SeenNow(r)
  BY DEF Current, SeenNow
<1>3. ASSUME NEW e \in Desks PROVE req'[e] = r
  BY <1>3 DEF Serial, Turns, TypeOK
<1> QED
  BY <1>1, <1>2, <1>3 DEF Current, SeenNow, NumberNow, OpenTx

LEMMA CurrentBegin ==
  ASSUME Serial, Basis, Current, NEW d \in Desks, Begin(d)
  PROVE  Current'
<1> USE DEF Basis
<1>1. ASSUME NEW b \in Bookings, NEW a, BeginPay(d, b, a) PROVE Current'
  <2> DEFINE r == [Idle EXCEPT !.op = "pay", !.at = "find", !.b = b, !.amount = a,
                               !.seen = PaidOn(b), !.due = stay[b].price,
                               !.total = stay[b].price]
  <2>1. Turns(d, r) /\ UNCHANGED <<entries, invoice>>
    BY <1>1 DEF BeginPay, Turns
  <2>2. r.at = "find" /\ r.seen = PaidOn(b) /\ r.b = b
    BY IdleType DEF Idle
  <2> HIDE DEF r
  <2> QED
    BY <2>1, <2>2, CurrentKept DEF SeenNow, NumberNow
<1>2. ASSUME NEW i \in Invoices, NEW a, BeginFinancePay(d, i, a) PROVE Current'
  <2> DEFINE row == invoice[i]
             r == [Idle EXCEPT !.op = "financePay", !.at = "mark", !.b = row.b,
                               !.amount = a, !.i = i, !.seen = PaidOn(row.b),
                               !.mark = Derive(row.total, row.paid + a)]
  <2>1. Turns(d, r) /\ UNCHANGED <<entries, invoice>>
    BY <1>2 DEF BeginFinancePay, Turns
  <2>2. r.at = "mark" /\ r.seen = PaidOn(row.b) /\ r.b = row.b
    BY IdleType DEF Idle
  <2> HIDE DEF r
  <2> QED
    BY <2>1, <2>2, CurrentKept DEF SeenNow, NumberNow
<1>3. ASSUME NEW b \in Bookings, NEW t, NEW a, BeginFinanceInvoice(d, b, t, a)
      PROVE  Current'
  <2> DEFINE r == [Idle EXCEPT !.op = "financeInvoice", !.at = "number", !.b = b,
                               !.amount = a, !.total = t, !.seen = PaidOn(b)]
  <2>1. Turns(d, r) /\ UNCHANGED <<entries, invoice>>
    BY <1>3 DEF BeginFinanceInvoice, Turns
  <2>2. r.at = "number" /\ r.seen = PaidOn(b) /\ r.b = b
    BY IdleType DEF Idle
  <2> HIDE DEF r
  <2> QED
    BY <2>1, <2>2, CurrentKept DEF SeenNow, NumberNow
<1>4. ASSUME NEW b \in Bookings, NEW a, BeginCharge(d, b, a) PROVE Current'
  <2> DEFINE r == [Idle EXCEPT !.op = "charge", !.at = "entryNo", !.b = b,
                               !.amount = a, !.src = "FOLIO"]
  <2>1. Turns(d, r) /\ UNCHANGED <<entries, invoice>>
    BY <1>4 DEF BeginCharge, Turns
  <2>2. r.at = "entryNo"
    BY IdleType DEF Idle
  <2> HIDE DEF r
  <2> QED
    BY <2>1, <2>2, CurrentKept DEF SeenNow, NumberNow, OpenTx
<1> QED
  BY <1>1, <1>2, <1>3, <1>4 DEF Begin

(* An open transaction that goes on keeps what it has seen.                *)
GoesOn(d) ==
  \/ FindInvoice(d)
  \/ PickInvoiceNo(d)
  \/ CreateInvoice(d) /\ ~ Throw(d)
  \/ InsertPayment(d)
  \/ MarkInvoice(d)
  \/ SumUp(d)

LEMMA CurrentGoesOn ==
  ASSUME Serial, Basis, Current, NEW d \in Desks, GoesOn(d)
  PROVE  Current'
<1> USE DEF Basis
<1>q. PICK q : q = req[d]
  OBVIOUS
<1>1. q \in Request /\ OpenTx(q)
  BY <1>q DEF GoesOn, TypeOK, OpenTx, FindInvoice, PickInvoiceNo, CreateInvoice,
              InsertPayment, MarkInvoice, SumUp
<1>2. UNCHANGED <<entries, invoice>>
  BY DEF GoesOn, FindInvoice, PickInvoiceNo, CreateInvoice, InsertPayment, MarkInvoice, SumUp
<1>3. ASSUME NEW r, Turns(d, r), r.op = q.op, r.b = q.b, r.seen = q.seen, r.at # "entry"
      PROVE  Current'
  BY <1>q, <1>1, <1>2, <1>3, CurrentKept DEF NumberNow
<1>4. CASE FindInvoice(d)
  <2>1. CASE InvoicesOf(q.b) = {}
    <3> DEFINE r == [q EXCEPT !.at = "number"]
    <3>1. Turns(d, r)
      BY <1>q, <1>4, <2>1 DEF FindInvoice, Turns
    <3> QED
      BY <1>1, <1>3, <3>1 DEF Request
  <2>2. CASE InvoicesOf(q.b) # {}
    <3> DEFINE r == [q EXCEPT !.at = "insert", !.i = Max(InvoicesOf(q.b))]
    <3>1. Turns(d, r)
      BY <1>q, <1>4, <2>2 DEF FindInvoice, Turns, TypeOK
    <3>2. r.op = q.op /\ r.b = q.b /\ r.seen = q.seen /\ r.at = "insert"
      BY <1>1 DEF Request
    <3> HIDE DEF r
    <3> QED
      BY <1>3, <3>1, <3>2
  <2> QED
    BY <2>1, <2>2
<1>5. CASE PickInvoiceNo(d)
  <2>1. PICK k : req' = [req EXCEPT ![d].at = "create", ![d].k = k]
    BY <1>5 DEF PickInvoiceNo
  <2> DEFINE r == [q EXCEPT !.at = "create", !.k = k]
  <2>2. Turns(d, r)
    BY <1>q, <2>1 DEF Turns, TypeOK
  <2>3. r.op = q.op /\ r.b = q.b /\ r.seen = q.seen /\ r.at = "create"
    BY <1>1 DEF Request
  <2> HIDE DEF r
  <2> QED
    BY <1>3, <2>2, <2>3
<1>6. CASE CreateInvoice(d) /\ ~ Throw(d)
  <2> DEFINE m == Derive(q.total, q.amount)
             at == IF q.op = "pay" THEN "insert" ELSE "sum"
             r == [q EXCEPT !.i = NewInvoice, !.fresh = TRUE, !.mark = m, !.at = at]
  <2>1. req' = [req EXCEPT ![d].i = NewInvoice, ![d].fresh = TRUE, ![d].mark = m, ![d].at = at]
    BY <1>q, <1>6 DEF CreateInvoice
  <2> HIDE DEF m
  <2>2. Turns(d, r)
    BY <1>q, <2>1 DEF Turns, TypeOK
  <2>3. r.op = q.op /\ r.b = q.b /\ r.seen = q.seen /\ r.at # "entry"
    BY <1>1 DEF Request
  <2> HIDE DEF r
  <2> QED
    BY <1>3, <2>2, <2>3
<1>7. CASE InsertPayment(d)
  <2> DEFINE m == Derive(TotalAsSeen(q), PaidAsSeen(q) + q.amount)
             r == [q EXCEPT !.at = "mark", !.mark = m]
  <2>1. req' = [req EXCEPT ![d].at = "mark", ![d].mark = m]
    BY <1>q, <1>7 DEF InsertPayment
  <2> HIDE DEF m
  <2>2. Turns(d, r)
    BY <1>q, <2>1 DEF Turns, TypeOK
  <2>3. r.op = q.op /\ r.b = q.b /\ r.seen = q.seen /\ r.at = "mark"
    BY <1>1 DEF Request
  <2> HIDE DEF r
  <2> QED
    BY <1>3, <2>2, <2>3
<1>8. CASE MarkInvoice(d)
  <2> DEFINE r == [q EXCEPT !.at = "sum"]
  <2>1. Turns(d, r)
    BY <1>q, <1>8 DEF MarkInvoice, Goto, Turns
  <2> QED
    BY <1>1, <1>3, <2>1 DEF Request
<1>9. CASE SumUp(d)
  <2> DEFINE sum == PaidOn(q.b) + q.amount
             due == IF q.op = "pay" THEN q.due
                    ELSE Invoiced(q.b) + (IF q.fresh THEN q.total ELSE 0)
             r == [q EXCEPT !.at = "commit", !.sum = sum, !.due = due]
  <2>1. req' = [req EXCEPT ![d].at = "commit", ![d].sum = sum, ![d].due = due]
    BY <1>q, <1>9 DEF SumUp
  <2> HIDE DEF sum, due
  <2>2. Turns(d, r)
    BY <1>q, <2>1 DEF Turns, TypeOK
  <2>3. r.op = q.op /\ r.b = q.b /\ r.seen = q.seen /\ r.at = "commit"
    BY <1>1 DEF Request
  <2> HIDE DEF r
  <2> QED
    BY <1>3, <2>2, <2>3
<1> QED
  BY <1>4, <1>5, <1>6, <1>7, <1>8, <1>9 DEF GoesOn

(* After its commit, and when it is answered or thrown, a request relies   *)
(* on no balance.                                                          *)
LEMMA CurrentEnds ==
  ASSUME Serial, Basis, NEW d \in Desks, NEW r, Turns(d, r), r.at \in {"idle", "entryNo"}
  PROVE  Current'
<1>1. ASSUME NEW e \in Desks PROVE req'[e] = r
  BY <1>1 DEF Serial, Turns, Basis, TypeOK
<1> QED
  BY <1>1 DEF Current, SeenNow, NumberNow, OpenTx

LEMMA CurrentStep ==
  ASSUME Serial, Basis, Current, [Next]_vars
  PROVE  Current' /\ (NeverStale => NeverStale')
<1>k. stale' = stale => (NeverStale => NeverStale')
  BY DEF NeverStale
<1>1. ASSUME NEW d \in Desks, Begin(d)
      PROVE  Current' /\ stale' = stale
  <2>1. UNCHANGED stale
    BY <1>1, Zenon DEF Begin, BeginPay, BeginFinancePay, BeginFinanceInvoice, BeginCharge
  <2>2. Current'
    BY <1>1, CurrentBegin
  <2> QED
    BY <2>1, <2>2
<1>2. ASSUME NEW d \in Desks, GoesOn(d)
      PROVE  Current' /\ stale' = stale
  <2>1. UNCHANGED stale
    BY <1>2 DEF GoesOn, FindInvoice, PickInvoiceNo, CreateInvoice, InsertPayment,
                MarkInvoice, SumUp
  <2>2. Current'
    BY <1>2, CurrentGoesOn
  <2> QED
    BY <2>1, <2>2
<1>3. ASSUME NEW d \in Desks, Thrown(d)
      PROVE  Current' /\ stale' = stale
  BY <1>3, IdleType, CurrentEnds DEF Thrown
<1>4. ASSUME NEW d \in Desks, Commit(d)
      PROVE  Current' /\ stale' = stale
  <2>q. PICK q : q = req[d]
    OBVIOUS
  <2>1. /\ q \in Request /\ q.at = "commit"
        /\ stale' = (IF Outdated(q) THEN stale \cup {q.b} ELSE stale)
        /\ Turns(d, ToPost(q))
    BY <1>4, <2>q DEF Basis, TypeOK, Commit, Turns
  <2>2. ToPost(q).at = "entryNo"
    BY DEF ToPost, Idle
  <2>3. ~ Outdated(q)
    BY <2>q, <2>1 DEF Current, SeenNow, OpenTx, Outdated
  <2>4. Current'
    BY <2>1, <2>2, CurrentEnds
  <2> QED
    BY <2>1, <2>3, <2>4
<1>5. ASSUME NEW d \in Desks, PickEntryNo(d)
      PROVE  Current' /\ stale' = stale
  <2>q. PICK q : q = req[d]
    OBVIOUS
  <2> DEFINE no == NextEntryNo(HotelOf[q.b])
             r == [q EXCEPT !.at = "entry", !.no = no]
  <2>1. /\ q \in Request /\ req' = [req EXCEPT ![d].at = "entry", ![d].no = no]
        /\ UNCHANGED <<entries, invoice, stale>>
    BY <1>5, <2>q DEF PickEntryNo, Basis, TypeOK
  <2> HIDE DEF no
  <2>2. Turns(d, r)
    BY <2>q, <2>1 DEF Turns, Basis, TypeOK
  <2>3. r.at = "entry" /\ r.no = no /\ r.b = q.b
    BY <2>1 DEF Request
  <2> HIDE DEF r
  <2>4. SeenNow(r) /\ NumberNow(r)
    BY <2>3 DEF SeenNow, OpenTx, NumberNow, no
  <2> QED
    BY <2>1, <2>2, <2>4, CurrentKept DEF Basis
<1>6. ASSUME NEW d \in Desks, PostEntry(d)
      PROVE  Current' /\ stale' = stale
  <2>q. PICK q : q = req[d]
    OBVIOUS
  <2>1. q \in Request /\ Turns(d, AfterEntry(q)) /\ stale' = stale
    BY <1>6, <2>q, EntryRows
  <2>2. AfterEntry(q).at \in {"idle", "entryNo"}
    BY <2>1, IdleType DEF AfterEntry, Request
  <2> QED
    BY <2>1, <2>2, CurrentEnds
<1>7. ASSUME UNCHANGED <<entries, invoice, req, stale>>
      PROVE  Current' /\ stale' = stale
  <2>1. /\ \A b : PaidOn(b)' = PaidOn(b)
        /\ \A h : NextEntryNo(h)' = NextEntryNo(h)
    BY <1>7 DEF PaidOn, InvoicesOf, Issued, Paids, NextEntryNo, LastEntryNo, EntryNosOf
  <2> QED
    BY <1>7, <2>1 DEF Current, SeenNow, NumberNow, OpenTx
<1>8. ASSUME NEW d \in Desks, Proceed(d) \/ Abort(d)
      PROVE  Current' /\ stale' = stale
  <2>1. CASE CreateInvoice(d)
    BY <1>2, <1>3, <2>1, ThrowThrows DEF GoesOn
  <2>2. CASE EntryRefused(d) \/ Abort(d)
    <3>1. Throw(d)
      BY <2>2 DEF EntryRefused, Abort
    <3> QED
      BY <1>3, <2>2, <3>1, ThrowThrows
  <2>3. CASE Proceed(d) /\ ~ CreateInvoice(d) /\ ~ EntryRefused(d)
    BY <1>2, <1>4, <1>5, <1>6, <2>3 DEF Proceed, GoesOn
  <2> QED
    BY <1>8, <2>1, <2>2, <2>3
<1>9. CASE UNCHANGED vars
  BY <1>k, <1>7, <1>9 DEF vars
<1>10. ASSUME NEW b \in Bookings, NEW p \in Prices, Reprice(b, p)
       PROVE  Current' /\ stale' = stale
  BY <1>7, <1>10 DEF Reprice
<1> QED
  BY <1>k, <1>1, <1>8, <1>9, <1>10 DEF Next

LEMMA CurrentAlways == ASSUME Serial PROVE Spec => [](Current /\ NeverStale)
<1>1. Init => Current /\ NeverStale
  BY IdleType DEF Init, Current, SeenNow, NumberNow, OpenTx, NeverStale
<1>2. Basis /\ Current /\ NeverStale /\ [Next]_vars => Current' /\ NeverStale'
  BY CurrentStep
<1> QED
  BY <1>1, <1>2, BasisAlways, PTL DEF Spec

(* With one request at a time no payment is checked against an outdated    *)
(* balance, and what StatusIsOfPayments and StayIsNotOverpaid promise but  *)
(* for stale ones holds of all: each invoice shows the status of its       *)
(* payments, and a stay with one invoice, at the price it was booked for,  *)
(* is paid no more than that and the tolerance of one finance payment.     *)
THEOREM SerialPaymentsAreCurrent ==
  ASSUME Serial
  PROVE  Spec => [](/\ NeverStale
                    /\ \A i \in Issued :
                         invoice[i].status = Derive(invoice[i].total, invoice[i].paid)
                    /\ \A b \in Bookings : Plain(b) => PaidOn(b) <= stay[b].price + Tolerance)
<1>1. NeverStale /\ InvoiceStatusCurrent /\ NoOverpayment
        => /\ \A i \in Issued :
                invoice[i].status = Derive(invoice[i].total, invoice[i].paid)
           /\ \A b \in Bookings : Plain(b) => PaidOn(b) <= stay[b].price + Tolerance
  BY DEF InvoiceStatusCurrent, NoOverpayment, NeverStale
<1> QED
  BY <1>1, CurrentAlways, StatusIsOfPayments, StayIsNotOverpaid, PTL

(* The next number of the only hotel is in use nowhere, as long as the     *)
(* padding holds.                                                          *)
LEMMA NextIsUnused ==
  ASSUME TypeOK, Bounded, \A g, h \in Hotels : g = h, NEW h \in Hotels,
         PadMax \notin UsedEntryNos
  PROVE  NextEntryNo(h) \notin UsedEntryNos
<1> DEFINE S == EntryNosOf(h) \cup {0}
<1>1. PICK n \in Nat : \A e \in entries : e.no <= n
  BY DEF Bounded
<1>2. S \in SUBSET (0 .. n)
  BY <1>1 DEF TypeOK, EntryNosOf
<1>3. IsFiniteSet(S)
  <2>1. IsFiniteSet(0 .. n)
    BY FS_Interval
  <2> QED
    BY <1>2, <2>1, FS_Subset
<1>4. UsedEntryNos = EntryNosOf(h)
  BY DEF TypeOK, UsedEntryNos, EntryNosOf
<1>5. S \in SUBSET Int /\ S # {} /\ UsedEntryNos \subseteq S
  BY <1>2, <1>4
<1>6. NextEntryNo(h) = Max(S) + 1
  BY <1>4 DEF NextEntryNo, LastEntryNo
<1> HIDE DEF S
<1>7. Max(S) \in Int /\ \A x \in S : x <= Max(S)
  BY <1>3, <1>5, MaxIsGreatest
<1> QED
  BY <1>5, <1>6, <1>7

(* EveryEntryPosts is refuted with two hotels.  It holds where the numbers *)
(* of postEntry() are good for: one hotel, one request at a time, and no   *)
(* entry that fills the padding (JE-<year>-9999).  No posting is refused   *)
(* then.                                                                   *)
THEOREM OneHotelIsPosted ==
  ASSUME Serial, \A g, h \in Hotels : g = h
  PROVE  Spec => [][PadMax \notin UsedEntryNos => \A d \in Desks : ~ EntryRefused(d)]_vars
<1>1. ASSUME Basis, Current, PadMax \notin UsedEntryNos, NEW d \in Desks, EntryRefused(d)
      PROVE  FALSE
  <2>q. PICK q : q = req[d]
    OBVIOUS
  <2>1. q.at = "entry" /\ q.no \in UsedEntryNos /\ q.b \in Bookings
    BY <1>1, <2>q DEF EntryRefused, Basis, TypeOK, Request
  <2>2. q.no = NextEntryNo(HotelOf[q.b])
    BY <1>1, <2>q, <2>1 DEF Current, NumberNow
  <2>3. HotelOf[q.b] \in Hotels
    BY <2>1, BillingAssumption
  <2> QED
    BY <1>1, <2>1, <2>2, <2>3, NextIsUnused DEF Basis
<1>2. Basis /\ Current
        => [PadMax \notin UsedEntryNos => \A d \in Desks : ~ EntryRefused(d)]_vars
  BY <1>1
<1> QED
  BY <1>2, BasisAlways, CurrentAlways, PTL
=============================================================================
