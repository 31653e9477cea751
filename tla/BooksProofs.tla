------------------------------ MODULE BooksProofs ------------------------------
(***************************************************************************)
(* Invoices, meter readings, totals, linked expenses and the profit-and-loss *)
(* report, for every apartment, number of months, services and readings; and *)
(* what comes into these books from outside, the archive of a restore and    *)
(* the workbook of an import, for every number of them.                      *)
(*                                                                         *)
(* A sum is a fold, which takes the amounts in some order: that it is an      *)
(* integer, and does not depend on the order or on what the amounts are       *)
(* called, is proved by induction over the sets of what is summed.            *)
(*                                                                         *)
(* Restores: the invariant is about a database; it holds of the one in use   *)
(* and of each one in an archive, and the merge of two that satisfy it       *)
(* satisfies it.  Imports: the months of a workbook are taken one after the   *)
(* other, by induction.  Each part uses the assumptions of Invoices; those    *)
(* on restores and those of HistoryImport serve their own parts only.          *)
(***************************************************************************)
EXTENDS RestoreContents, HistoryImport, FiniteSetTheorems, WellFoundedInduction, TLAPS

-----------------------------------------------------------------------------
(* Sums.                                                                     *)

LEMMA LeastExists ==
  ASSUME NEW T, T \subseteq Nat, T # {}
  PROVE  \E m \in T : \A n \in T : m <= n
<1>1. \E m \in T : \A n \in T : <<n, m>> \notin OpToRel(<, Nat)
  BY NatLessThanWellFounded, WFMin, Zenon
<1>2. \E m \in T : \A n \in T : ~(n < m)
  BY <1>1, Zenon DEF OpToRel
<1>3. QED
  BY <1>2

\* Induction over the subsets of a finite set: a set G of subsets has them all if it has
\* each one from which it has all those with an element less.
LEMMA SubsetInduction ==
  ASSUME NEW D, IsFiniteSet(D), NEW G,
         \A s \in SUBSET D : (\A x \in s : s \ {x} \in G) => s \in G
  PROVE  \A s \in SUBSET D : s \in G
<1> SUFFICES ASSUME NEW b \in SUBSET D, b \notin G
             PROVE  FALSE
  OBVIOUS
<1> DEFINE T == {Cardinality(s) : s \in {s \in SUBSET D : s \notin G}}
<1>1. \A s \in SUBSET D : IsFiniteSet(s) /\ Cardinality(s) \in Nat
  BY FS_Subset, FS_CardinalityType
<1>2. T \subseteq Nat /\ T # {}
  BY <1>1
<1>3. PICK m \in T : \A n \in T : m <= n
  <2> HIDE DEF T
  <2>1. QED
    BY <1>2, LeastExists
<1>4. PICK s \in SUBSET D : s \notin G /\ m = Cardinality(s)
  OBVIOUS
<1>5. ASSUME NEW x \in s
      PROVE  s \ {x} \in G
  <2>1. Cardinality(s \ {x}) = m - 1 /\ s \ {x} \in SUBSET D
    BY <1>1, <1>4, FS_RemoveElement
  <2>2. m \in Nat
    BY <1>1, <1>4
  <2>3. s \ {x} \notin G => m - 1 \in T
    BY <2>1
  <2> HIDE DEF T
  <2>4. QED
    BY <1>3, <2>2, <2>3
<1>6. QED
  BY <1>4, <1>5

\* The element that the sum over s takes first.
First(s) == CHOOSE x \in s : TRUE

\* The sums of f over the sets of S, as Sum computes them.
Sums(f, S, g) == g = [s \in S |-> IF s = {} THEN 0 ELSE f[First(s)] + g[s \ {First(s)}]]

AllSums(f) == CHOOSE g : Sums(f, SUBSET DOMAIN f, g)

LEMMA SumIsOfAll ==
  ASSUME NEW f
  PROVE  Sum(f) = AllSums(f)[DOMAIN f]
BY DEF Sum, FoldFunction, FoldFunctionOnSet, MapThenFoldSet, AllSums, Sums, First

LEMMA SumsExist ==
  ASSUME NEW f, IsFiniteSet(DOMAIN f)
  PROVE  Sums(f, SUBSET DOMAIN f, AllSums(f))
<1> DEFINE D == DOMAIN f
           upTo(n) == {s \in SUBSET D : Cardinality(s) <= n}
           N == Cardinality(D)
           T == {n \in Nat : ~ \E g : Sums(f, upTo(n), g)}
<1>1. \A s \in SUBSET D : IsFiniteSet(s) /\ Cardinality(s) \in Nat /\ Cardinality(s) <= N
  BY FS_Subset, FS_CardinalityType
<1>2. N \in Nat
  BY <1>1
<1>3. \A s \in SUBSET D : s # {} => /\ First(s) \in s
                                   /\ s \ {First(s)} \in SUBSET D
                                   /\ Cardinality(s \ {First(s)}) = Cardinality(s) - 1
  BY <1>1, FS_RemoveElement DEF First
<1>4. \A s \in SUBSET D : Cardinality(s) = 0 <=> s = {}
  BY <1>1, FS_EmptySet
<1> HIDE DEF D
<1>5. 0 \notin T
  <2> DEFINE g == [s \in upTo(0) |-> 0]
  <2>1. \A s \in upTo(0) : s = {}
    BY <1>1, <1>4
  <2>2. g = [s \in upTo(0) |-> IF s = {} THEN 0 ELSE f[First(s)] + g[s \ {First(s)}]]
    BY <2>1
  <2>3. Sums(f, upTo(0), g)
    BY <2>2 DEF Sums
  <2>4. QED
    BY <2>3
<1>6. ASSUME NEW n \in Nat, n \in T, n # 0
      PROVE  n - 1 \in T
  <2> SUFFICES ASSUME n - 1 \notin T
               PROVE  FALSE
    OBVIOUS
  <2>1. PICK g : Sums(f, upTo(n - 1), g)
    BY <1>6
  <2> DEFINE h == [s \in upTo(n) |-> IF s = {} THEN 0 ELSE f[First(s)] + g[s \ {First(s)}]]
  <2>2. ASSUME NEW s \in upTo(n), s # {}
        PROVE  h[s \ {First(s)}] = g[s \ {First(s)}]
    <3> DEFINE t == s \ {First(s)}
    <3>1. t \in upTo(n - 1) /\ t \in upTo(n)
      BY <1>1, <1>3, <2>2
    <3> HIDE DEF t
    <3>2. g[t] = IF t = {} THEN 0 ELSE f[First(t)] + g[t \ {First(t)}]
      BY <2>1, <3>1 DEF Sums
    <3>3. h[t] = IF t = {} THEN 0 ELSE f[First(t)] + g[t \ {First(t)}]
      BY <3>1
    <3>4. QED
      BY <3>2, <3>3 DEF t
  <2>3. h = [s \in upTo(n) |-> IF s = {} THEN 0 ELSE f[First(s)] + h[s \ {First(s)}]]
    BY <2>2
  <2> HIDE DEF h
  <2>4. Sums(f, upTo(n), h)
    BY <2>3 DEF Sums
  <2>5. QED
    BY <1>6, <2>4
<1>7. T = {}
  <2>1. T \subseteq Nat
    OBVIOUS
  <2> HIDE DEF T
  <2>2. SUFFICES ASSUME T # {}
                 PROVE  FALSE
    OBVIOUS
  <2>3. PICK n \in T : \A k \in T : n <= k
    BY <2>1, <2>2, LeastExists
  <2>4. n \in Nat /\ n # 0
    BY <1>5, <2>1
  <2>5. n - 1 \in T
    BY <1>6, <2>4
  <2>6. QED
    BY <2>3, <2>4, <2>5
<1>8. \E g : Sums(f, upTo(N), g)
  BY <1>2, <1>7
<1>9. upTo(N) = SUBSET D
  BY <1>1
<1>10. QED
  BY <1>8, <1>9 DEF AllSums, D

\* The sum over s, without its order.
LEMMA SumOfSet ==
  ASSUME NEW f, IsFiniteSet(DOMAIN f), \A x \in DOMAIN f : f[x] \in Int
  PROVE  LET g == AllSums(f) IN
         /\ g[{}] = 0
         /\ \A s \in SUBSET DOMAIN f : g[s] \in Int
         /\ \A s \in SUBSET DOMAIN f : \A x \in s : g[s] = f[x] + g[s \ {x}]
<1> DEFINE D == DOMAIN f
           g == AllSums(f)
           typed == {s \in SUBSET D : g[s] \in Int}
           free == {s \in SUBSET D : \A x \in s : g[s] = f[x] + g[s \ {x}]}
<1>1. g = [s \in SUBSET D |-> IF s = {} THEN 0 ELSE f[First(s)] + g[s \ {First(s)}]]
  BY SumsExist DEF Sums
<1> HIDE DEF g
<1>2. /\ g[{}] = 0
      /\ \A s \in SUBSET D : s # {} => /\ First(s) \in s
                                       /\ g[s] = f[First(s)] + g[s \ {First(s)}]
  BY <1>1 DEF First
<1>3. \A s \in SUBSET D : s \in typed
  <2>1. ASSUME NEW s \in SUBSET D, \A x \in s : s \ {x} \in typed
        PROVE  s \in typed
    <3>1. CASE s = {}
      BY <1>2, <3>1
    <3>2. CASE s # {}
      <4>1. g[s \ {First(s)}] \in Int /\ f[First(s)] \in Int
        BY <1>2, <2>1, <3>2
      <4>2. QED
        <5>1. g[s] = f[First(s)] + g[s \ {First(s)}]
          BY <1>2, <3>2
        <5>2. g[s] \in Int
          BY <4>1, <5>1
        <5>3. QED
          BY <5>2
    <3>3. QED
      BY <3>1, <3>2
  <2> HIDE DEF typed
  <2>2. QED
    BY <2>1, SubsetInduction
<1>4. \A s \in SUBSET D : g[s] \in Int
  BY <1>3
<1>5. \A s \in SUBSET D : s \in free
  <2>1. ASSUME NEW s \in SUBSET D, \A x \in s : s \ {x} \in free, NEW x \in s
        PROVE  g[s] = f[x] + g[s \ {x}]
    <3> DEFINE y == First(s)
               rest == (s \ {x}) \ {y}
    <3>1. y \in s /\ g[s] = f[y] + g[s \ {y}]
      BY <1>2
    <3> HIDE DEF y
    <3>2. CASE x = y
      BY <3>1, <3>2
    <3>3. CASE x # y
      <4>1. g[s \ {x}] = f[y] + g[rest]
        BY <2>1, <3>1, <3>3
      <4>2. g[s \ {y}] = f[x] + g[rest]
        <5>1. (s \ {y}) \ {x} = rest
          OBVIOUS
        <5>2. QED
          BY <2>1, <3>1, <3>3, <5>1
      <4>3. f[x] \in Int /\ f[y] \in Int /\ g[rest] \in Int
        BY <1>4, <3>1
      <4>4. QED
        BY <3>1, <4>1, <4>2, <4>3
    <3>4. QED
      BY <3>2, <3>3
  <2>2. \A s \in SUBSET D : (\A x \in s : s \ {x} \in free) => s \in free
    BY <2>1
  <2> HIDE DEF free
  <2>3. QED
    BY <2>2, SubsetInduction
<1>6. QED
  BY <1>2, <1>4, <1>5 DEF g

\* A sum of integers is an integer.
LEMMA SumType ==
  ASSUME NEW f, IsFiniteSet(DOMAIN f), \A x \in DOMAIN f : f[x] \in Int
  PROVE  Sum(f) \in Int
BY SumOfSet, SumIsOfAll

\* The same amounts under other names have the same sum.
LEMMA SumRenamed ==
  ASSUME NEW f, IsFiniteSet(DOMAIN f), \A x \in DOMAIN f : f[x] \in Int,
         NEW m, \A x, y \in DOMAIN f : m[x] = m[y] => x = y,
         NEW h, DOMAIN h = {m[x] : x \in DOMAIN f}, \A x \in DOMAIN f : h[m[x]] = f[x]
  PROVE  Sum(h) = Sum(f)
<1> DEFINE D == DOMAIN f
           F == AllSums(f)
           H == AllSums(h)
           image(s) == {m[x] : x \in s}
           same == {s \in SUBSET D : H[image(s)] = F[s]}
<1>1. IsFiniteSet(DOMAIN h)
  <2> DEFINE b == [x \in D |-> m[x]]
  <2>1. b \in Surjection(D, DOMAIN h)
    BY DEF Surjection
  <2>2. QED
    BY <2>1, FS_Surjection
<1>2. \A n \in DOMAIN h : h[n] \in Int
  OBVIOUS
<1>3. /\ F[{}] = 0
      /\ \A s \in SUBSET D : \A x \in s : F[s] = f[x] + F[s \ {x}]
  BY SumOfSet
<1>4. /\ H[{}] = 0
      /\ \A s \in SUBSET DOMAIN h : \A n \in s : H[s] = h[n] + H[s \ {n}]
  BY <1>1, <1>2, SumOfSet
<1> HIDE DEF F, H
<1>5. ASSUME NEW s \in SUBSET D, \A x \in s : s \ {x} \in same
      PROVE  s \in same
  <2>1. CASE s = {}
    <3>1. image(s) = {}
      BY <2>1
    <3>2. QED
      BY <1>3, <1>4, <2>1, <3>1
  <2>2. CASE s # {}
    <3>1. PICK x \in s : TRUE
      BY <2>2
    <3>2. image(s \ {x}) = image(s) \ {m[x]}
      BY <3>1
    <3>3. image(s) \in SUBSET DOMAIN h /\ m[x] \in image(s) /\ h[m[x]] = f[x]
      OBVIOUS
    <3>4. H[image(s \ {x})] = F[s \ {x}]
      BY <1>5
    <3> HIDE DEF image
    <3>5. H[image(s)] = h[m[x]] + H[image(s) \ {m[x]}]
      BY <1>4, <3>3
    <3>6. F[s] = f[x] + F[s \ {x}]
      BY <1>3
    <3>7. H[image(s)] = F[s]
      BY <3>2, <3>3, <3>4, <3>5, <3>6
    <3>8. QED
      BY <3>7
  <2>3. QED
    BY <2>1, <2>2
<1>6. \A s \in SUBSET D : s \in same
  <2> HIDE DEF same
  <2>1. QED
    BY <1>5, SubsetInduction
<1>7. H[image(D)] = F[D] /\ image(D) = DOMAIN h
  BY <1>6
<1>8. QED
  BY <1>7, SumIsOfAll DEF F, H

-----------------------------------------------------------------------------
(* The inductive invariant.                                                  *)

IsRecord(inv) ==
    DOMAIN inv = {"status", "rent", "rate", "lines", "adj", "rentUah", "utilities",
                  "adjustments", "grand"}

IsLine(line) == DOMAIN line = {"prev", "curr", "price", "amount"}

\* The fields of the records, without the ranges of the amounts.
InvoiceShape(inv) ==
    /\ IsRecord(inv)
    /\ \A s \in DOMAIN inv.lines : IsLine(inv.lines[s])

Shape ==
    /\ DOMAIN invoices \subseteq Periods
    /\ \A p \in DOMAIN invoices : InvoiceShape(invoices[p])

\* The stored amounts and totals are those of the stored parts.
Current(inv) == Recalculate(inv) = inv

\* No line id is used twice.
LinesOK ==
    /\ \A p \in DOMAIN invoices : LinesOf(p) \subseteq LineIds
    /\ \A p, q \in DOMAIN invoices : \A l \in LinesOf(p) : l \in LinesOf(q) => p = q

\* The parts need each other: the chain holds after an edit because the edited
\* draft is the latest, readings stay because issued ones do, and an expense has
\* one line because no id is used twice.
Chronology == Shape /\ DraftIsLatest /\ ReadingsChain /\ IssuedComplete

\* Books stands on its own: it holds of invoices in any order, whatever their totals.
Books == Shape /\ LinesOK /\ ExpensesMatchLines

IInv == Chronology /\ TotalsCurrent /\ Books

-----------------------------------------------------------------------------
(* What recalculation and editing leave alone.                               *)

\* The new invoice meters the same services, from the same previous readings.
SameLines(new, inv) ==
    /\ DOMAIN new.lines = DOMAIN inv.lines
    /\ \A s \in DOMAIN inv.lines : new.lines[s].prev = inv.lines[s].prev

SameReadings(new, inv) ==
    /\ SameLines(new, inv)
    /\ \A s \in DOMAIN inv.lines : new.lines[s].curr = inv.lines[s].curr

LEMMA LineWithAmount ==
  ASSUME NEW line, IsLine(line), NEW amount
  PROVE  LET new == [line EXCEPT !.amount = amount] IN
         IsLine(new) /\ new.prev = line.prev /\ new.curr = line.curr
BY DEF IsLine

\* An amount that is computed again is the same.
LEMMA LineAmountCurrent ==
  ASSUME NEW s, NEW line, IsLine(line)
  PROVE  LET new == [line EXCEPT !.amount = LineAmount(s, line)] IN
         [new EXCEPT !.amount = LineAmount(s, new)] = new
<1> DEFINE a == LineAmount(s, line)
           new == [line EXCEPT !.amount = a]
<1>1. /\ IsLine(new) /\ new.prev = line.prev /\ new.curr = line.curr
      /\ new.price = line.price /\ new.amount = a
  BY DEF IsLine
<1>2. LineAmount(s, new) = a
  BY <1>1 DEF LineAmount
<1> HIDE DEF a
<1>3. [new EXCEPT !.amount = a] = new
  BY DEF IsLine
<1>4. QED
  BY <1>2, <1>3 DEF a

LEMMA LineWithReading ==
  ASSUME NEW line, IsLine(line), NEW curr
  PROVE  LET new == [line EXCEPT !.curr = curr] IN
         IsLine(new) /\ new.prev = line.prev
BY DEF IsLine

LEMMA RecordWithAdjustments ==
  ASSUME NEW inv, IsRecord(inv), NEW adj
  PROVE  LET new == [inv EXCEPT !.adj = adj] IN
         /\ IsRecord(new) /\ new.lines = inv.lines /\ new.status = inv.status
         /\ new.adj = adj
BY DEF IsRecord

LEMMA RecordWithStatus ==
  ASSUME NEW inv, IsRecord(inv), NEW status
  PROVE  LET new == [inv EXCEPT !.status = status] IN
         /\ IsRecord(new) /\ new.lines = inv.lines /\ new.status = status
         /\ new.adj = inv.adj /\ new.rentUah = inv.rentUah
         /\ new.rent = inv.rent /\ new.rate = inv.rate
BY DEF IsRecord

\* The lines with their amounts computed.
Amended(inv) ==
    [s \in DOMAIN inv.lines |-> [inv.lines[s] EXCEPT !.amount = LineAmount(s, inv.lines[s])]]

Utilities(lines) == Sum([s \in DOMAIN lines |-> lines[s].amount])

\* inv with these lines and the totals of its rent, these lines and its adjustments.
Totalled(inv, lines) ==
    [inv EXCEPT !.lines = lines, !.rentUah = inv.rent * inv.rate,
                !.utilities = Utilities(lines), !.adjustments = Sum(inv.adj),
                !.grand = inv.rent * inv.rate + Utilities(lines) + Sum(inv.adj)]

LEMMA RecalculateTotals ==
  ASSUME NEW inv
  PROVE  Recalculate(inv) = Totalled(inv, Amended(inv))
BY DEF Recalculate, Totalled, Amended, Utilities

LEMMA TotalledFields ==
  ASSUME NEW inv, IsRecord(inv), NEW lines
  PROVE  LET new == Totalled(inv, lines) IN
         /\ IsRecord(new) /\ new.lines = lines /\ new.status = inv.status
         /\ new.rent = inv.rent /\ new.rate = inv.rate /\ new.adj = inv.adj
         /\ Totalled(new, lines) = new
<1> DEFINE rentUah == inv.rent * inv.rate
           utilities == Utilities(lines)
           adjustments == Sum(inv.adj)
           grand == rentUah + utilities + adjustments
           new == [inv EXCEPT !.lines = lines, !.rentUah = rentUah, !.utilities = utilities,
                        !.adjustments = adjustments, !.grand = grand]
<1>1. Totalled(inv, lines) = new
  BY DEF Totalled
<1> HIDE DEF rentUah, utilities, adjustments, grand
<1>2. /\ IsRecord(new) /\ new.lines = lines /\ new.status = inv.status
      /\ new.rent = inv.rent /\ new.rate = inv.rate /\ new.adj = inv.adj
  BY DEF IsRecord
<1>3. [new EXCEPT !.lines = lines, !.rentUah = rentUah, !.utilities = utilities,
                  !.adjustments = adjustments, !.grand = grand] = new
  BY DEF IsRecord
<1> HIDE DEF new
<1>4. Totalled(new, lines) = new
  BY <1>2, <1>3 DEF Totalled, rentUah, utilities, adjustments, grand
<1>5. QED
  BY <1>1, <1>2, <1>4

LEMMA AmendedLines ==
  ASSUME NEW inv, InvoiceShape(inv)
  PROVE  LET lines == Amended(inv) IN
         /\ DOMAIN lines = DOMAIN inv.lines
         /\ \A s \in DOMAIN lines :
                /\ lines[s].prev = inv.lines[s].prev /\ lines[s].curr = inv.lines[s].curr
                /\ IsLine(lines[s])
                /\ [lines[s] EXCEPT !.amount = LineAmount(s, lines[s])] = lines[s]
<1>1. ASSUME NEW s \in DOMAIN inv.lines
      PROVE  LET line == [inv.lines[s] EXCEPT !.amount = LineAmount(s, inv.lines[s])] IN
             /\ line.prev = inv.lines[s].prev /\ line.curr = inv.lines[s].curr
             /\ IsLine(line)
             /\ [line EXCEPT !.amount = LineAmount(s, line)] = line
  <2>1. IsLine(inv.lines[s])
    BY DEF InvoiceShape
  <2>2. QED
    BY <2>1, LineWithAmount, LineAmountCurrent
<1>2. QED
  BY <1>1 DEF Amended

LEMMA RecalculateKeeps ==
  ASSUME NEW inv, InvoiceShape(inv)
  PROVE  LET new == Recalculate(inv) IN
         /\ InvoiceShape(new) /\ new.status = inv.status /\ SameReadings(new, inv)
         /\ new.adj = inv.adj /\ Current(new)
<1> DEFINE lines == Amended(inv)
           new == Totalled(inv, lines)
<1>1. Recalculate(inv) = new
  BY RecalculateTotals
<1>2. /\ DOMAIN lines = DOMAIN inv.lines
      /\ \A s \in DOMAIN lines :
            /\ lines[s].prev = inv.lines[s].prev /\ lines[s].curr = inv.lines[s].curr
            /\ IsLine(lines[s])
            /\ [lines[s] EXCEPT !.amount = LineAmount(s, lines[s])] = lines[s]
  BY AmendedLines
<1>3. lines = [s \in DOMAIN lines |-> lines[s]]
  BY DEF Amended
<1> HIDE DEF lines
<1>4. /\ IsRecord(new) /\ new.lines = lines /\ new.status = inv.status
      /\ new.adj = inv.adj /\ Totalled(new, lines) = new
  BY TotalledFields DEF InvoiceShape
<1> HIDE DEF new
<1>5. Amended(new) = lines
  BY <1>2, <1>3, <1>4 DEF Amended
<1>6. Current(new)
  BY <1>4, <1>5, RecalculateTotals DEF Current
<1>7. QED
  BY <1>1, <1>2, <1>4, <1>6 DEF InvoiceShape, SameReadings, SameLines

\* A total does not depend on the status.
LEMMA StatusKeepsCurrent ==
  ASSUME NEW inv, InvoiceShape(inv), Current(inv), NEW status
  PROVE  Current([inv EXCEPT !.status = status])
<1> DEFINE new == [inv EXCEPT !.status = status]
           lines == inv.lines
<1>1. IsRecord(inv)
  BY DEF InvoiceShape
<1>2. /\ new.lines = lines /\ new.rent = inv.rent /\ new.rate = inv.rate
      /\ new.adj = inv.adj
  BY <1>1, RecordWithStatus
<1>3. Totalled(inv, Amended(inv)) = inv
  BY RecalculateTotals DEF Current
<1>4. Amended(inv) = lines
  BY <1>1, <1>3, TotalledFields
<1>5. Amended(new) = lines
  BY <1>2, <1>4 DEF Amended
<1> DEFINE rentUah == inv.rent * inv.rate
           utilities == Utilities(lines)
           adjustments == Sum(inv.adj)
           grand == rentUah + utilities + adjustments
<1>6. inv = [inv EXCEPT !.lines = lines, !.rentUah = rentUah, !.utilities = utilities,
                        !.adjustments = adjustments, !.grand = grand]
  BY <1>3, <1>4 DEF Totalled
<1>7. Totalled(new, lines) =
        [new EXCEPT !.lines = lines, !.rentUah = rentUah, !.utilities = utilities,
                    !.adjustments = adjustments, !.grand = grand]
  <2> HIDE DEF new, lines
  <2>1. QED
    BY <1>2 DEF Totalled
<1> HIDE DEF lines, rentUah, utilities, adjustments, grand
<1>8. [new EXCEPT !.lines = lines, !.rentUah = rentUah, !.utilities = utilities,
                  !.adjustments = adjustments, !.grand = grand] = new
  BY ONLY <1>1, <1>6 DEF IsRecord
<1> HIDE DEF new
<1>9. QED
  BY <1>5, <1>7, <1>8, RecalculateTotals DEF Current, new

LEMMA EditedKeeps ==
  ASSUME NEW p \in DOMAIN invoices, InvoiceShape(invoices[p]), NEW rate, NEW curr
  PROVE  LET new == Edited(p, rate, curr) IN
         /\ InvoiceShape(new) /\ new.status = Status(p) /\ SameLines(new, invoices[p])
         /\ new.adj = invoices[p].adj
<1> DEFINE inv == invoices[p]
           lines == [s \in DOMAIN inv.lines |->
                        IF s \in Metered THEN [inv.lines[s] EXCEPT !.curr = curr[s]]
                        ELSE inv.lines[s]]
           new == [inv EXCEPT !.rate = rate, !.lines = lines]
<1>1. Edited(p, rate, curr) = new
  BY DEF Edited, InvoiceShape, IsRecord
<1>2. /\ DOMAIN lines = DOMAIN inv.lines
      /\ \A s \in DOMAIN lines : lines[s].prev = inv.lines[s].prev /\ IsLine(lines[s])
  <2>1. \A s \in DOMAIN inv.lines : IsLine(inv.lines[s])
    BY DEF InvoiceShape
  <2>2. ASSUME NEW s \in DOMAIN inv.lines
        PROVE  LET line == [inv.lines[s] EXCEPT !.curr = curr[s]] IN
               line.prev = inv.lines[s].prev /\ IsLine(line)
    BY <2>1, LineWithReading
  <2>3. QED
    BY <2>1, <2>2
<1> HIDE DEF lines
<1>3. IsRecord(inv)
  BY DEF InvoiceShape
<1>4. IsRecord(new) /\ new.lines = lines /\ new.status = inv.status /\ new.adj = inv.adj
  BY ONLY <1>3 DEF IsRecord
<1> HIDE DEF new
<1>5. QED
  BY <1>1, <1>2, <1>4 DEF InvoiceShape, SameLines, Status
-----------------------------------------------------------------------------
(* The reading a new line starts from.                                       *)

\* Some of the numbers up to N have a largest one.
LEMMA LargestExists ==
  ASSUME NEW N \in Nat, NEW S, S \subseteq 1 .. N, S # {}
  PROVE  \E q \in S : \A r \in S : r <= q
<1> DEFINE T == {N - q : q \in S}
<1>1. T \subseteq Nat /\ T # {}
  <2>1. \A q \in S : N - q \in Nat
    OBVIOUS
  <2>2. PICK q \in S : TRUE
    OBVIOUS
  <2>3. N - q \in T
    OBVIOUS
  <2>4. QED
    BY <2>1, <2>3
<1> HIDE DEF T
<1>2. PICK m \in T : \A n \in T : m <= n
  BY <1>1, LeastExists
<1>3. PICK q \in S : m = N - q
  BY DEF T
<1>4. \A r \in S : N - q <= N - r
  BY <1>2, <1>3 DEF T
<1>5. QED
  BY <1>4

\* What ReadingsChain says of one line.
Chained(p, s, prev) ==
    \/ \E q \in DOMAIN invoices :
        /\ q < p /\ ReadIn(q, s) /\ invoices[q].lines[s].curr = prev
        /\ \A r \in DOMAIN invoices : r < p /\ ReadIn(r, s) => r <= q
    \/ prev = Missing /\ \A q \in DOMAIN invoices : q < p => ~ReadIn(q, s)

LEMMA PreviousReadingChained ==
  ASSUME Shape, NEW p, NEW s
  PROVE  Chained(p, s, PreviousReading(p, s))
<1> DEFINE earlier == {q \in DOMAIN invoices : q < p /\ ReadIn(q, s)}
           last == CHOOSE q \in earlier : \A r \in earlier : r <= q
<1>1. CASE earlier = {}
  BY <1>1 DEF PreviousReading, Chained
<1>2. CASE earlier # {}
  <2>1. \E q \in earlier : \A r \in earlier : r <= q
    BY <1>2, LargestExists, BoundsAssumption DEF Shape, Periods
  <2>2. last \in earlier /\ \A r \in earlier : r <= last
    BY <2>1
  <2>3. PreviousReading(p, s) = invoices[last].lines[s].curr
    BY <1>2 DEF PreviousReading
  <2> HIDE DEF last
  <2>4. QED
    BY <2>2, <2>3 DEF Chained
<1>3. QED
  BY <1>1, <1>2

-----------------------------------------------------------------------------
(* What the actions do.                                                      *)

\* The invoice of p keeps its adjustments, and every line its expense.
KeepsAdjustments(p) == invoices'[p].adj = invoices[p].adj /\ linked' = linked

\* The invoice of p gets other adjustments: its own ones and new ones, some of which
\* have expenses.
Readjusts(p) ==
    /\ \A l \in DOMAIN invoices'[p].adj :
        /\ l \in LineIds
        /\ l \in LinesOf(p) \/ \A q \in DOMAIN invoices : l \notin LinesOf(q)
    /\ \E recorded \in SUBSET DOMAIN invoices'[p].adj :
        linked' = SyncExpenses(p, invoices'[p].adj, recorded)

\* A draft is made for p, and starts from the latest readings.
Creates(p) ==
    /\ p \notin DOMAIN invoices /\ NoLater(p) /\ NoEarlierDraft(p)
    /\ DOMAIN invoices' = DOMAIN invoices \cup {p}
    /\ \A q \in DOMAIN invoices : invoices'[q] = invoices[q]
    /\ InvoiceShape(invoices'[p]) /\ invoices'[p].status = "draft"
    /\ \A s \in DOMAIN invoices'[p].lines :
        /\ invoices'[p].lines[s].curr = Missing
        /\ s \in Metered => invoices'[p].lines[s].prev = PreviousReading(p, s)
    /\ Current(invoices'[p])
    /\ DOMAIN invoices'[p].adj = {} /\ linked' = linked

\* Only the invoice of p changes; no handler makes a total wrong.
Rewrites(p) ==
    /\ p \in DOMAIN invoices
    /\ DOMAIN invoices' = DOMAIN invoices
    /\ \A q \in DOMAIN invoices : q # p => invoices'[q] = invoices[q]
    /\ InvoiceShape(invoices'[p])
    /\ Current(invoices[p]) => Current(invoices'[p])

\* The latest invoice, a draft, gets other readings, and maybe other adjustments.
Edits(p) ==
    /\ Rewrites(p)
    /\ NoLater(p) /\ Status(p) = "draft" /\ invoices'[p].status = "draft"
    /\ SameLines(invoices'[p], invoices[p])
    /\ KeepsAdjustments(p) \/ Readjusts(p)

\* The invoice of p keeps its readings, and may change its status: it becomes a
\* draft when it is the latest, and is issued when its readings are complete.
Moves(p) ==
    /\ Rewrites(p)
    /\ SameReadings(invoices'[p], invoices[p])
    /\ invoices'[p].status = "draft" => NoLater(p)
    /\ Status(p) = "draft" => \A s \in MeteredLines(p) : ReadIn(p, s)
    /\ Status(p) # "draft" => invoices'[p].rentUah = invoices[p].rentUah
    /\ KeepsAdjustments(p)

LEMMA CreateDraftCreates ==
  ASSUME Shape, NEW p, NEW chosen, NEW rent, NEW rate, CreateDraft(p, chosen, rent, rate)
  PROVE  Creates(p)
<1> DEFINE prev == [s \in chosen |-> IF s \in Metered THEN PreviousReading(p, s) ELSE Missing]
<1>1. PICK price : LET lines == [s \in chosen |-> [prev |-> prev[s], curr |-> Missing,
                                                   price |-> price[s], amount |-> 0]]
                       draft == [status |-> "draft", rent |-> rent, rate |-> rate,
                                 lines |-> lines, adj |-> [l \in {} |-> 0], rentUah |-> 0,
                                 utilities |-> 0, adjustments |-> 0, grand |-> 0]
                   IN  invoices' = Put(invoices, p, Recalculate(draft))
  BY Zenon DEF CreateDraft
<1> DEFINE lines == [s \in chosen |-> [prev |-> prev[s], curr |-> Missing,
                                       price |-> price[s], amount |-> 0]]
           draft == [status |-> "draft", rent |-> rent, rate |-> rate,
                     lines |-> lines, adj |-> [l \in {} |-> 0],
                     rentUah |-> 0, utilities |-> 0, adjustments |-> 0, grand |-> 0]
           new == Recalculate(draft)
<1>2. /\ InvoiceShape(draft) /\ draft.status = "draft" /\ DOMAIN draft.lines = chosen
      /\ \A s \in chosen : draft.lines[s].curr = Missing /\ draft.lines[s].prev = prev[s]
      /\ DOMAIN draft.adj = {}
  BY DEF InvoiceShape, IsRecord, IsLine
<1>3. \A s \in chosen : s \in Metered => prev[s] = PreviousReading(p, s)
  OBVIOUS
<1>4. invoices' = Put(invoices, p, new)
  BY <1>1
<1> HIDE DEF draft, prev
<1>5. /\ InvoiceShape(new) /\ new.status = draft.status /\ SameReadings(new, draft)
      /\ new.adj = draft.adj /\ Current(new)
  BY <1>2, RecalculateKeeps
<1> HIDE DEF new
<1>6. p \notin DOMAIN invoices /\ NoLater(p) /\ NoEarlierDraft(p) /\ linked' = linked
  BY DEF CreateDraft
<1>7. /\ DOMAIN invoices' = DOMAIN invoices \cup {p} /\ invoices'[p] = new
      /\ \A q \in DOMAIN invoices : invoices'[q] = invoices[q]
  BY <1>4, <1>6 DEF Put
<1>8. \A s \in DOMAIN new.lines : /\ new.lines[s].curr = Missing
                                  /\ s \in Metered => new.lines[s].prev = PreviousReading(p, s)
  BY <1>2, <1>3, <1>5 DEF SameReadings, SameLines
<1>9. QED
  BY <1>2, <1>5, <1>6, <1>7, <1>8 DEF Creates

LEMMA UpdateReadingsEdits ==
  ASSUME Shape, NEW p \in DOMAIN invoices, NEW rate, NEW curr, UpdateReadings(p, rate, curr)
  PROVE  Edits(p)
<1> DEFINE edited == Edited(p, rate, curr)
           new == Recalculate(edited)
<1>1. /\ InvoiceShape(edited) /\ edited.status = Status(p) /\ SameLines(edited, invoices[p])
      /\ edited.adj = invoices[p].adj
  BY EditedKeeps DEF Shape
<1> HIDE DEF edited
<1>2. /\ InvoiceShape(new) /\ new.status = edited.status /\ SameReadings(new, edited)
      /\ new.adj = edited.adj /\ Current(new)
  BY <1>1, RecalculateKeeps
<1>3. /\ invoices' = [invoices EXCEPT ![p] = new] /\ Status(p) = "draft" /\ NoLater(p)
      /\ linked' = linked
  BY DEF UpdateReadings, edited
<1> HIDE DEF new
<1>4. QED
  BY <1>1, <1>2, <1>3 DEF Edits, Rewrites, SameReadings, SameLines, KeepsAdjustments

\* The ids above the largest one are not in use.
LEMMA NewIdsAreNew ==
  ASSUME LinesOK, NEW n \in Nat, TopLine(n), NEW l \in Int, n < l
  PROVE  \A q \in DOMAIN invoices : l \notin LinesOf(q)
BY DEF LinesOK, TopLine, LineIds

LEMMA UpdateAdjustmentsEdits ==
  ASSUME Shape, LinesOK, NEW p \in DOMAIN invoices, NEW rate, NEW curr,
         NEW kept \in SUBSET LinesOf(p), NEW fresh \in 0 .. MaxLine,
         UpdateAdjustments(p, rate, curr, kept, fresh)
  PROVE  Edits(p)
<1>1. PICK n \in 0 .. MaxLine - fresh :
        /\ TopLine(n)
        /\ \E adj \in [kept \cup (n + 1 .. n + fresh) -> Amounts] :
           \E recorded \in SUBSET Recordable(adj) :
            /\ invoices' = [invoices EXCEPT ![p] =
                                Recalculate([Edited(p, rate, curr) EXCEPT !.adj = adj])]
            /\ linked' = SyncExpenses(p, adj, recorded)
  BY DEF UpdateAdjustments
<1>2. PICK adj \in [kept \cup (n + 1 .. n + fresh) -> Amounts] :
        \E recorded \in SUBSET Recordable(adj) :
            /\ invoices' = [invoices EXCEPT ![p] =
                                Recalculate([Edited(p, rate, curr) EXCEPT !.adj = adj])]
            /\ linked' = SyncExpenses(p, adj, recorded)
  BY <1>1
<1> DEFINE edited == Edited(p, rate, curr)
           adjusted == [edited EXCEPT !.adj = adj]
           new == Recalculate(adjusted)
<1>3. /\ InvoiceShape(edited) /\ edited.status = Status(p) /\ SameLines(edited, invoices[p])
  BY EditedKeeps DEF Shape
<1>4. invoices' = [invoices EXCEPT ![p] = new]
  BY <1>2
<1> HIDE DEF edited
<1>5. IsRecord(edited)
  BY <1>3 DEF InvoiceShape
<1>6. /\ IsRecord(adjusted) /\ adjusted.lines = edited.lines
      /\ adjusted.status = edited.status /\ adjusted.adj = adj
  BY <1>5, RecordWithAdjustments
<1> HIDE DEF adjusted
<1>7. InvoiceShape(adjusted)
  BY <1>3, <1>6 DEF InvoiceShape
<1>8. /\ InvoiceShape(new) /\ new.status = adjusted.status /\ SameReadings(new, adjusted)
      /\ new.adj = adj /\ Current(new)
  BY <1>6, <1>7, RecalculateKeeps
<1>9. Status(p) = "draft" /\ NoLater(p)
  BY DEF UpdateAdjustments
<1> HIDE DEF new
<1>10. invoices'[p].adj = adj
  BY <1>4, <1>8
<1>11. ASSUME NEW l \in DOMAIN adj
       PROVE  /\ l \in LineIds
              /\ l \in LinesOf(p) \/ \A q \in DOMAIN invoices : l \notin LinesOf(q)
  <2>1. CASE l \in kept
    BY <2>1 DEF LinesOK
  <2>2. CASE l \in n + 1 .. n + fresh
    <3>1. MaxLine \in Nat
      BY BoundsAssumption
    <3>2. n \in Nat /\ l \in Int /\ n < l /\ l \in LineIds
      BY <2>2, <3>1 DEF LineIds
    <3>3. QED
      BY <1>1, <3>2, NewIdsAreNew
  <2>3. QED
    BY <2>1, <2>2
<1>12. Readjusts(p)
  BY <1>2, <1>10, <1>11 DEF Readjusts, Recordable
<1>13. QED
  BY <1>3, <1>4, <1>6, <1>8, <1>9, <1>12 DEF Edits, Rewrites, SameReadings, SameLines

\* A change of the status alone.
LEMMA StatusRewrites ==
  ASSUME Shape, NEW p \in DOMAIN invoices, NEW inv, NEW status,
         InvoiceShape(inv), SameReadings(inv, invoices[p]),
         Current(invoices[p]) => Current(inv),
         invoices' = [invoices EXCEPT ![p] = [inv EXCEPT !.status = status]]
  PROVE  /\ Rewrites(p) /\ invoices'[p].status = status
         /\ SameReadings(invoices'[p], invoices[p])
         /\ invoices'[p].adj = inv.adj /\ invoices'[p].rentUah = inv.rentUah
<1> DEFINE new == [inv EXCEPT !.status = status]
<1>1. IsRecord(inv)
  BY DEF InvoiceShape
<1>2. /\ IsRecord(new) /\ new.lines = inv.lines /\ new.status = status
      /\ new.adj = inv.adj /\ new.rentUah = inv.rentUah
  BY <1>1, RecordWithStatus
<1>3. invoices' = [invoices EXCEPT ![p] = new]
  OBVIOUS
<1>4. Current(inv) => Current(new)
  BY StatusKeepsCurrent
<1> HIDE DEF new
<1>5. InvoiceShape(new)
  BY <1>2 DEF InvoiceShape
<1>6. QED
  BY <1>2, <1>3, <1>4, <1>5 DEF Rewrites, SameReadings, SameLines

LEMMA TransitionMoves ==
  ASSUME Shape, NEW p \in DOMAIN invoices, Transition(p)
  PROVE  Moves(p)
<1>1. InvoiceShape(invoices[p]) /\ SameReadings(invoices[p], invoices[p])
  BY DEF Shape, SameReadings, SameLines
<1>2. CASE Issue(p)
  <2> DEFINE inv == Recalculate(invoices[p])
  <2>1. /\ InvoiceShape(inv) /\ SameReadings(inv, invoices[p])
        /\ inv.adj = invoices[p].adj /\ Current(inv)
    BY <1>1, RecalculateKeeps
  <2>2. /\ invoices' = [invoices EXCEPT ![p] = [inv EXCEPT !.status = "issued"]]
        /\ \A s \in MeteredLines(p) : ReadIn(p, s)
        /\ Status(p) = "draft" /\ linked' = linked
    BY <1>2 DEF Issue
  <2> HIDE DEF inv
  <2>3. /\ Rewrites(p) /\ invoices'[p].status = "issued"
        /\ SameReadings(invoices'[p], invoices[p]) /\ invoices'[p].adj = inv.adj
    BY <1>1, <2>1, <2>2, StatusRewrites
  <2>4. QED
    BY <2>1, <2>2, <2>3 DEF Moves, KeepsAdjustments
<1>3. ASSUME NEW status, Status(p) # "draft", status = "draft" => NoLater(p),
             invoices' = [invoices EXCEPT ![p] = [invoices[p] EXCEPT !.status = status]],
             linked' = linked
      PROVE  Moves(p)
  <2>1. /\ Rewrites(p) /\ invoices'[p].status = status
        /\ SameReadings(invoices'[p], invoices[p])
        /\ invoices'[p].adj = invoices[p].adj /\ invoices'[p].rentUah = invoices[p].rentUah
    BY <1>1, <1>3, StatusRewrites
  <2>2. QED
    BY <1>3, <2>1 DEF Moves, KeepsAdjustments
<1>4. CASE RevertToDraft(p)
  <2>1. /\ invoices' = [invoices EXCEPT ![p] = [invoices[p] EXCEPT !.status = "draft"]]
        /\ NoLater(p) /\ Status(p) = "issued" /\ linked' = linked
    BY <1>4 DEF RevertToDraft
  <2>2. QED
    BY <1>3, <2>1
<1>5. CASE MarkPaid(p)
  <2>1. /\ invoices' = [invoices EXCEPT ![p] = [invoices[p] EXCEPT !.status = "paid"]]
        /\ Status(p) # "draft" /\ "paid" # "draft" /\ linked' = linked
    BY <1>5 DEF MarkPaid
  <2>2. QED
    BY <1>3, <2>1
<1>6. CASE UnmarkPaid(p)
  <2>1. /\ invoices' = [invoices EXCEPT ![p] = [invoices[p] EXCEPT !.status = "issued"]]
        /\ Status(p) # "draft" /\ "issued" # "draft" /\ linked' = linked
    BY <1>6 DEF UnmarkPaid
  <2>2. QED
    BY <1>3, <2>1
<1>7. QED
  BY <1>2, <1>4, <1>5, <1>6 DEF Transition

LEMMA DeleteDraftRemoves ==
  ASSUME NEW p \in DOMAIN invoices, DeleteDraft(p)
  PROVE  /\ Status(p) = "draft"
         /\ DOMAIN invoices' = DOMAIN invoices \ {p}
         /\ \A q \in DOMAIN invoices' : invoices'[q] = invoices[q]
         /\ DOMAIN linked' = DOMAIN linked \ LinesOf(p)
         /\ \A l \in DOMAIN linked' : linked'[l] = linked[l]
BY DEF DeleteDraft, Restrict

\* Every step is one of these.
LEMMA StepKinds ==
  ASSUME Shape, LinesOK, [Next]_vars
  PROVE  \/ \E p \in Periods : Creates(p)
         \/ \E p \in DOMAIN invoices : Edits(p) \/ Moves(p) \/ DeleteDraft(p)
         \/ UNCHANGED <<invoices, linked>>
<1>1. ASSUME NEW p \in Periods, NEW chosen \in SUBSET Services, NEW rent \in Rents,
             NEW rate \in Rates, CreateDraft(p, chosen, rent, rate)
      PROVE  Creates(p)
  BY <1>1, CreateDraftCreates
<1>2. ASSUME NEW p \in DOMAIN invoices, Update(p)
      PROVE  Edits(p)
  <2>1. PICK rate \in Rates, curr \in [MeteredLines(p) -> Readings \cup {Missing}] :
            \/ UpdateReadings(p, rate, curr)
            \/ \E kept \in SUBSET LinesOf(p), fresh \in 0 .. MaxLine :
                UpdateAdjustments(p, rate, curr, kept, fresh)
    BY <1>2 DEF Update
  <2>2. QED
    BY <2>1, UpdateReadingsEdits, UpdateAdjustmentsEdits
<1>3. ASSUME NEW p \in DOMAIN invoices, Transition(p)
      PROVE  Moves(p)
  BY <1>3, TransitionMoves
<1>4. ASSUME NEW e \in Manual, \/ DeleteExpense(e)
                               \/ \E date \in Days, amount \in Spent, currency \in Currencies :
                                    PutExpense(e, date, amount, currency)
      PROVE  UNCHANGED <<invoices, linked>>
  BY <1>4 DEF DeleteExpense, PutExpense
<1>5. ASSUME NEW d \in Days, FetchRate(d)
      PROVE  UNCHANGED <<invoices, linked>>
  BY <1>5 DEF FetchRate
<1>6. CASE UNCHANGED vars
  BY <1>6 DEF vars
<1>7. QED
  BY <1>1, <1>2, <1>3, <1>4, <1>5, <1>6 DEF Next

-----------------------------------------------------------------------------
(* Each kind of step keeps the order of invoices and readings.               *)

LEMMA CreatesKeepsChronology ==
  ASSUME Chronology, NEW p \in Periods, Creates(p)
  PROVE  Chronology'
<1>1. Shape'
  BY DEF Chronology, Shape, Creates
<1>2. \A q \in DOMAIN invoices : q < p /\ Status(q) # "draft"
  BY DEF Chronology, Shape, Creates, NoLater, NoEarlierDraft, Periods
<1>3. DraftIsLatest'
  BY <1>2 DEF Creates, DraftIsLatest, NoLater, Status, Periods
<1>4. IssuedComplete'
  BY <1>2 DEF Chronology, IssuedComplete, Creates, Status, ReadIn, MeteredLines
<1>5. \A s : \A q \in DOMAIN invoices' : ReadIn(q, s)' <=> q \in DOMAIN invoices /\ ReadIn(q, s)
  BY DEF Creates, ReadIn
<1>6. \A q \in DOMAIN invoices : \A s, prev : Chained(q, s, prev) => Chained(q, s, prev)'
  BY <1>2, <1>5 DEF Chained, Creates, Chronology, Shape, Periods
<1>7. \A s \in MeteredLines(p)' : Chained(p, s, invoices[p].lines[s].prev)'
  <2>1. \A s \in MeteredLines(p)' : invoices'[p].lines[s].prev = PreviousReading(p, s)
    BY DEF Creates, MeteredLines
  <2>2. \A s : Chained(p, s, PreviousReading(p, s))
    BY PreviousReadingChained DEF Chronology
  <2>3. \A s, prev : Chained(p, s, prev) => Chained(p, s, prev)'
    BY <1>2, <1>5 DEF Chained, Creates, Chronology, Shape, Periods
  <2>4. QED
    BY <2>1, <2>2, <2>3
<1>8. ReadingsChain'
  <2>1. \A q \in DOMAIN invoices : \A s \in MeteredLines(q) :
            Chained(q, s, invoices[q].lines[s].prev)
    BY DEF Chronology, ReadingsChain, Chained
  <2>2. \A q \in DOMAIN invoices' : \A s \in MeteredLines(q)' :
            Chained(q, s, invoices[q].lines[s].prev)'
    BY <1>6, <1>7, <2>1 DEF Creates, MeteredLines
  <2>3. QED
    BY <2>2 DEF ReadingsChain, Chained
<1>9. QED
  BY <1>1, <1>3, <1>4, <1>8 DEF Chronology

LEMMA EditsKeepsChronology ==
  ASSUME Chronology, NEW p \in DOMAIN invoices, Edits(p)
  PROVE  Chronology'
<1>1. Shape'
  BY DEF Chronology, Shape, Edits, Rewrites
<1>2. \A q \in DOMAIN invoices : q <= p /\ q \in Int /\ p \in Int
  BY DEF Chronology, Shape, Edits, NoLater, Periods
<1>3. DraftIsLatest'
  BY DEF Chronology, DraftIsLatest, NoLater, Edits, Rewrites, Status
<1>4. IssuedComplete'
  BY DEF Chronology, IssuedComplete, Edits, Rewrites, Status, ReadIn, MeteredLines
<1>5. \A s : \A q \in DOMAIN invoices : q # p => (ReadIn(q, s)' <=> ReadIn(q, s))
  BY DEF Edits, Rewrites, ReadIn
<1>6. \A q \in DOMAIN invoices : \A s, prev : Chained(q, s, prev) => Chained(q, s, prev)'
  BY <1>2, <1>5 DEF Chained, Edits, Rewrites
<1>7. ReadingsChain'
  <2>1. \A q \in DOMAIN invoices : \A s \in MeteredLines(q) :
            Chained(q, s, invoices[q].lines[s].prev)
    BY DEF Chronology, ReadingsChain, Chained
  <2>2. \A q \in DOMAIN invoices : SameLines(invoices'[q], invoices[q])
    BY DEF Edits, Rewrites, SameLines
  <2>3. \A q \in DOMAIN invoices' : \A s \in MeteredLines(q)' :
            Chained(q, s, invoices[q].lines[s].prev)'
    BY <1>6, <2>1, <2>2 DEF Edits, Rewrites, MeteredLines, SameLines
  <2>4. QED
    BY <2>3 DEF ReadingsChain, Chained
<1>8. QED
  BY <1>1, <1>3, <1>4, <1>7 DEF Chronology

LEMMA MovesKeepsChronology ==
  ASSUME Chronology, NEW p \in DOMAIN invoices, Moves(p)
  PROVE  Chronology'
<1>1. Shape'
  BY DEF Chronology, Shape, Moves, Rewrites
<1>2. \A q \in DOMAIN invoices : SameReadings(invoices'[q], invoices[q])
  BY DEF Moves, Rewrites, SameReadings, SameLines
<1>3. DraftIsLatest'
  BY DEF Chronology, DraftIsLatest, NoLater, Moves, Rewrites, Status
<1>4. /\ \A s : \A q \in DOMAIN invoices : ReadIn(q, s)' <=> ReadIn(q, s)
      /\ \A q \in DOMAIN invoices : MeteredLines(q)' = MeteredLines(q)
  BY <1>2 DEF Moves, Rewrites, ReadIn, MeteredLines, SameReadings, SameLines
<1>5. IssuedComplete'
  <2>1. \A s \in MeteredLines(p) : ReadIn(p, s)
    BY DEF Chronology, IssuedComplete, Moves, Status
  <2>2. \A q \in DOMAIN invoices : q # p => Status(q)' = Status(q)
    BY DEF Moves, Rewrites, Status
  <2>3. QED
    BY <1>4, <2>1, <2>2 DEF Chronology, IssuedComplete, Moves, Rewrites
<1>6. \A q \in DOMAIN invoices : \A s, prev : Chained(q, s, prev) => Chained(q, s, prev)'
  <2>1. \A s : \A q \in DOMAIN invoices :
            ReadIn(q, s) => invoices'[q].lines[s].curr = invoices[q].lines[s].curr
    BY <1>2 DEF ReadIn, SameReadings
  <2>2. QED
    BY <1>4, <2>1 DEF Chained, Moves, Rewrites
<1>7. ReadingsChain'
  <2>1. \A q \in DOMAIN invoices : \A s \in MeteredLines(q) :
            Chained(q, s, invoices[q].lines[s].prev)
    BY DEF Chronology, ReadingsChain, Chained
  <2>2. \A q \in DOMAIN invoices' : \A s \in MeteredLines(q)' :
            Chained(q, s, invoices[q].lines[s].prev)'
    BY <1>2, <1>4, <1>6, <2>1
       DEF Moves, Rewrites, MeteredLines, SameReadings, SameLines
  <2>3. QED
    BY <2>2 DEF ReadingsChain, Chained
<1>8. QED
  BY <1>1, <1>3, <1>5, <1>7 DEF Chronology

LEMMA DeleteDraftKeepsChronology ==
  ASSUME Chronology, NEW p \in DOMAIN invoices, DeleteDraft(p)
  PROVE  Chronology'
<1>1. /\ Status(p) = "draft"
      /\ DOMAIN invoices' = DOMAIN invoices \ {p}
      /\ \A q \in DOMAIN invoices' : invoices'[q] = invoices[q]
  BY DeleteDraftRemoves
<1>2. Shape'
  BY <1>1 DEF Chronology, Shape
<1>3. \A q \in DOMAIN invoices' : q < p
  BY <1>1 DEF Chronology, Shape, DraftIsLatest, NoLater, Periods
<1>4. DraftIsLatest'
  BY <1>1 DEF Chronology, DraftIsLatest, NoLater, Status
<1>5. IssuedComplete'
  BY <1>1 DEF Chronology, IssuedComplete, Status, ReadIn, MeteredLines
<1>6. \A s : \A q \in DOMAIN invoices' : ReadIn(q, s)' <=> ReadIn(q, s)
  BY <1>1 DEF ReadIn
<1>7. \A q \in DOMAIN invoices' : \A s, prev : Chained(q, s, prev) => Chained(q, s, prev)'
  <2>1. \A q \in DOMAIN invoices', r \in DOMAIN invoices : r < q => r \in DOMAIN invoices'
    BY <1>1, <1>3 DEF Chronology, Shape, Periods
  <2>2. QED
    BY <1>1, <1>6, <2>1 DEF Chained
<1>8. ReadingsChain'
  <2>1. \A q \in DOMAIN invoices : \A s \in MeteredLines(q) :
            Chained(q, s, invoices[q].lines[s].prev)
    BY DEF Chronology, ReadingsChain, Chained
  <2>2. \A q \in DOMAIN invoices' : \A s \in MeteredLines(q)' :
            Chained(q, s, invoices[q].lines[s].prev)'
    BY <1>1, <1>7, <2>1 DEF MeteredLines
  <2>3. QED
    BY <2>2 DEF ReadingsChain, Chained
<1>9. QED
  BY <1>2, <1>4, <1>5, <1>8 DEF Chronology

-----------------------------------------------------------------------------
(* Each kind of step keeps the totals, and every expense with its line, in    *)
(* whatever order the invoices are.                                          *)

\* What ExpensesMatchLines says of one expense, but for the uniqueness of its line.
Records(l, p) == l \in LinesOf(p) /\ linked[l] = ExpenseFor(p, invoices[p].adj[l])

LEMMA RecordsMatch ==
  ASSUME LinesOK
  PROVE  ExpensesMatchLines <=> \A l \in DOMAIN linked : \E p \in DOMAIN invoices : Records(l, p)
BY DEF ExpensesMatchLines, ExpenseFor, LinesOK, Records

LEMMA RecordsMatchNext ==
  ASSUME LinesOK'
  PROVE  ExpensesMatchLines' <=>
            \A l \in DOMAIN linked' : \E p \in DOMAIN invoices' : Records(l, p)'
BY DEF ExpensesMatchLines, ExpenseFor, LinesOK, Records

LEMMA CreatesKeepsBooks ==
  ASSUME Books, NEW p \in Periods, Creates(p)
  PROVE  Books'
<1>1. Shape'
  BY DEF Books, Shape, Creates
<1>2. LinesOK'
  BY DEF Books, LinesOK, Creates, LinesOf
<1>3. \A l \in DOMAIN linked : \E q \in DOMAIN invoices : Records(l, q)
  BY RecordsMatch DEF Books
<1>4. ExpensesMatchLines'
  BY <1>2, <1>3, RecordsMatchNext DEF Creates, Records, LinesOf
<1>5. QED
  BY <1>1, <1>2, <1>4 DEF Books

LEMMA KeepsAdjustmentsKeepsBooks ==
  ASSUME Books, NEW p \in DOMAIN invoices, Rewrites(p), KeepsAdjustments(p)
  PROVE  Books'
<1>1. Shape'
  BY DEF Books, Shape, Rewrites
<1>2. \A q \in DOMAIN invoices : invoices'[q].adj = invoices[q].adj
  BY DEF Rewrites, KeepsAdjustments
<1>3. LinesOK'
  BY <1>2 DEF Books, LinesOK, Rewrites, LinesOf
<1>4. \A l \in DOMAIN linked : \E q \in DOMAIN invoices : Records(l, q)
  BY RecordsMatch DEF Books
<1>5. ExpensesMatchLines'
  BY <1>2, <1>3, <1>4, RecordsMatchNext DEF Rewrites, KeepsAdjustments, Records, LinesOf
<1>6. QED
  BY <1>1, <1>3, <1>5 DEF Books

LEMMA ReadjustsKeepsBooks ==
  ASSUME Books, NEW p \in DOMAIN invoices, Rewrites(p), Readjusts(p)
  PROVE  Books'
<1>1. Shape'
  BY DEF Books, Shape, Rewrites
<1>2. LinesOK'
  BY DEF Books, LinesOK, Rewrites, Readjusts, LinesOf
<1>3. PICK recorded \in SUBSET DOMAIN invoices'[p].adj :
        linked' = SyncExpenses(p, invoices'[p].adj, recorded)
  BY DEF Readjusts
<1>4. /\ DOMAIN linked' = (DOMAIN linked \ LinesOf(p)) \cup recorded
      /\ \A l \in recorded : linked'[l] = ExpenseFor(p, invoices'[p].adj[l])
      /\ \A l \in DOMAIN linked' : l \notin recorded => linked'[l] = linked[l]
  BY <1>3 DEF SyncExpenses
<1>5. \A l \in DOMAIN linked : \E q \in DOMAIN invoices : Records(l, q)
  BY RecordsMatch DEF Books
<1>6. ASSUME NEW l \in DOMAIN linked'
      PROVE  \E q \in DOMAIN invoices' : Records(l, q)'
  <2>1. CASE l \in recorded
    BY <1>4, <2>1 DEF Records, Rewrites, LinesOf
  <2>2. CASE l \notin recorded
    <3>1. l \in DOMAIN linked /\ l \notin LinesOf(p) /\ linked'[l] = linked[l]
      BY <1>4, <2>2
    <3>2. PICK q \in DOMAIN invoices : Records(l, q)
      BY <1>5, <3>1
    <3>3. q # p
      BY <3>1, <3>2 DEF Records
    <3>4. q \in DOMAIN invoices' /\ invoices'[q] = invoices[q]
      BY <3>3 DEF Rewrites
    <3>5. Records(l, q)'
      BY <3>1, <3>2, <3>4 DEF Records, LinesOf
    <3>6. QED
      BY <3>4, <3>5
  <2>3. QED
    BY <2>1, <2>2
<1>7. ExpensesMatchLines'
  BY <1>2, <1>6, RecordsMatchNext
<1>8. QED
  BY <1>1, <1>2, <1>7 DEF Books

LEMMA DeleteDraftKeepsBooks ==
  ASSUME Books, NEW p \in DOMAIN invoices, DeleteDraft(p)
  PROVE  Books'
<1>1. /\ DOMAIN invoices' = DOMAIN invoices \ {p}
      /\ \A q \in DOMAIN invoices' : invoices'[q] = invoices[q]
      /\ DOMAIN linked' = DOMAIN linked \ LinesOf(p)
      /\ \A l \in DOMAIN linked' : linked'[l] = linked[l]
  BY DeleteDraftRemoves
<1>2. Shape'
  BY <1>1 DEF Books, Shape
<1>3. LinesOK'
  BY <1>1 DEF Books, LinesOK, LinesOf
<1>4. \A l \in DOMAIN linked : \E q \in DOMAIN invoices : Records(l, q)
  BY RecordsMatch DEF Books
<1>5. ExpensesMatchLines'
  BY <1>1, <1>3, <1>4, RecordsMatchNext DEF Records, LinesOf
<1>6. QED
  BY <1>2, <1>3, <1>5 DEF Books

LEMMA NextBooks ==
  ASSUME Books, [Next]_vars
  PROVE  Books'
<1>1. CASE UNCHANGED <<invoices, linked>>
  BY <1>1 DEF Books, Shape, LinesOK, ExpensesMatchLines, LinesOf
<1>2. ASSUME NEW p \in DOMAIN invoices, Edits(p) \/ Moves(p)
      PROVE  Books'
  BY <1>2, KeepsAdjustmentsKeepsBooks, ReadjustsKeepsBooks DEF Edits, Moves
<1>3. QED
  BY <1>1, <1>2, StepKinds, CreatesKeepsBooks, DeleteDraftKeepsBooks DEF Books

LEMMA NextTotals ==
  ASSUME Shape, LinesOK, TotalsCurrent, [Next]_vars
  PROVE  TotalsCurrent'
<1>1. CASE UNCHANGED <<invoices, linked>>
  BY <1>1 DEF TotalsCurrent
<1>2. ASSUME NEW p \in Periods, Creates(p)
      PROVE  TotalsCurrent'
  BY <1>2 DEF TotalsCurrent, Creates, Current
<1>3. ASSUME NEW p \in DOMAIN invoices, Rewrites(p)
      PROVE  TotalsCurrent'
  BY <1>3 DEF TotalsCurrent, Rewrites, Current
<1>4. ASSUME NEW p \in DOMAIN invoices, DeleteDraft(p)
      PROVE  TotalsCurrent'
  BY <1>4, DeleteDraftRemoves DEF TotalsCurrent
<1>5. QED
  BY <1>1, <1>2, <1>3, <1>4, StepKinds DEF Edits, Moves

LEMMA NextIInv == IInv /\ [Next]_vars => IInv'
<1> SUFFICES ASSUME IInv, [Next]_vars
             PROVE  IInv'
  OBVIOUS
<1>1. Chronology /\ Shape /\ LinesOK
  BY DEF IInv, Books
<1>2. ASSUME UNCHANGED <<invoices, linked>>
      PROVE  Chronology'
  BY <1>1, <1>2 DEF Chronology, Shape, DraftIsLatest, NoLater, ReadingsChain, IssuedComplete,
                    Status, ReadIn, MeteredLines
<1>3. Chronology'
  BY <1>1, <1>2, StepKinds, CreatesKeepsChronology, EditsKeepsChronology,
     MovesKeepsChronology, DeleteDraftKeepsChronology
<1>4. QED
  BY <1>1, <1>3, NextBooks, NextTotals DEF IInv

-----------------------------------------------------------------------------
(* Types.                                                                    *)

LEMMA LineAmountType ==
  ASSUME NEW s, NEW line \in Lines
  PROVE  [line EXCEPT !.amount = LineAmount(s, line)] \in Lines
<1>1. line.price \in Int
  BY DataAssumption DEF Lines
<1>2. line.prev # Missing /\ line.curr # Missing => line.prev \in Int /\ line.curr \in Int
  BY DataAssumption DEF Lines
<1>3. LineAmount(s, line) \in Int
  BY <1>1, <1>2 DEF LineAmount
<1>4. QED
  BY <1>3 DEF Lines

\* What IsInvoice says of each field.
LEMMA InvoiceFields ==
  ASSUME NEW inv
  PROVE  IsInvoice(inv) <=>
            /\ inv = [status |-> inv.status, rent |-> inv.rent, rate |-> inv.rate,
                      lines |-> inv.lines, adj |-> inv.adj, rentUah |-> inv.rentUah,
                      utilities |-> inv.utilities, adjustments |-> inv.adjustments,
                      grand |-> inv.grand]
            /\ inv.status \in {"draft", "issued", "paid"}
            /\ inv.rent \in Rents /\ inv.rate \in Rates
            /\ PartialFunction(inv.lines, Services, Lines)
            /\ PartialFunction(inv.adj, LineIds, Amounts)
            /\ inv.rentUah \in Int /\ inv.utilities \in Int
            /\ inv.adjustments \in Int /\ inv.grand \in Int
<1> DEFINE fields == [status : {"draft", "issued", "paid"}, rent : Rents, rate : Rates,
                      lines : {inv.lines}, adj : {inv.adj}, rentUah : Int, utilities : Int,
                      adjustments : Int, grand : Int]
<1>1. inv \in fields <=>
            /\ inv = [status |-> inv.status, rent |-> inv.rent, rate |-> inv.rate,
                      lines |-> inv.lines, adj |-> inv.adj, rentUah |-> inv.rentUah,
                      utilities |-> inv.utilities, adjustments |-> inv.adjustments,
                      grand |-> inv.grand]
            /\ inv.status \in {"draft", "issued", "paid"}
            /\ inv.rent \in Rents /\ inv.rate \in Rates
            /\ inv.rentUah \in Int /\ inv.utilities \in Int
            /\ inv.adjustments \in Int /\ inv.grand \in Int
  OBVIOUS
<1>2. QED
  BY <1>1 DEF IsInvoice

LEMMA SumOfLinesType ==
  ASSUME NEW lines, PartialFunction(lines, Services, Lines)
  PROVE  Utilities(lines) \in Int
<1> DEFINE amounts == [s \in DOMAIN lines |-> lines[s].amount]
<1>1. IsFiniteSet(Services) /\ DOMAIN lines \in SUBSET Services
  BY ServicesAssumption DEF Services, PartialFunction
<1>2. IsFiniteSet(DOMAIN lines)
  BY <1>1, FS_Subset
<1>3. \A s \in DOMAIN lines : lines[s].amount \in Int
  BY DEF PartialFunction, Lines
<1>4. Sum(amounts) \in Int
  BY <1>2, <1>3, SumType
<1>5. QED
  BY <1>4 DEF Utilities

LEMMA LineIdsFinite ==
  ASSUME NEW S, S \subseteq LineIds
  PROVE  IsFiniteSet(S)
<1>1. IsFiniteSet(LineIds)
  BY BoundsAssumption, FS_Interval DEF LineIds
<1>2. QED
  BY <1>1, FS_Subset

LEMMA SumOfAdjustmentsType ==
  ASSUME NEW adj, PartialFunction(adj, LineIds, Amounts)
  PROVE  Sum(adj) \in Int
<1>1. IsFiniteSet(DOMAIN adj)
  BY LineIdsFinite DEF PartialFunction
<1>2. \A l \in DOMAIN adj : adj[l] \in Int
  BY DataAssumption DEF PartialFunction
<1>3. QED
  BY <1>1, <1>2, SumType

LEMMA RecalculateType ==
  ASSUME NEW inv, IsInvoice(inv)
  PROVE  IsInvoice(Recalculate(inv))
<1> DEFINE lines == Amended(inv)
           rentUah == inv.rent * inv.rate
           utilities == Utilities(lines)
           adjustments == Sum(inv.adj)
           grand == rentUah + utilities + adjustments
           new == [inv EXCEPT !.lines = lines, !.rentUah = rentUah, !.utilities = utilities,
                        !.adjustments = adjustments, !.grand = grand]
<1>1. Recalculate(inv) = new
  BY RecalculateTotals DEF Totalled
<1>2. PartialFunction(inv.lines, Services, Lines) /\ PartialFunction(inv.adj, LineIds, Amounts)
  BY DEF IsInvoice
<1>3. PartialFunction(lines, Services, Lines)
  BY <1>2, LineAmountType DEF Amended, PartialFunction
<1> HIDE DEF lines
<1>4. utilities \in Int
  BY <1>3, SumOfLinesType
<1>5. adjustments \in Int
  BY <1>2, SumOfAdjustmentsType
<1>6. rentUah \in Int
  BY InvoiceFields, DataAssumption
<1> HIDE DEF rentUah, utilities, adjustments
<1>7. grand \in Int
  BY <1>4, <1>5, <1>6
<1> HIDE DEF grand
<1>8. /\ inv = [status |-> inv.status, rent |-> inv.rent, rate |-> inv.rate,
                lines |-> inv.lines, adj |-> inv.adj, rentUah |-> inv.rentUah,
                utilities |-> inv.utilities, adjustments |-> inv.adjustments,
                grand |-> inv.grand]
      /\ inv.status \in {"draft", "issued", "paid"} /\ inv.rent \in Rents /\ inv.rate \in Rates
  BY InvoiceFields
<1>9. new = [status |-> inv.status, rent |-> inv.rent, rate |-> inv.rate,
             lines |-> lines, adj |-> inv.adj, rentUah |-> rentUah,
             utilities |-> utilities, adjustments |-> adjustments, grand |-> grand]
  <2>1. /\ DOMAIN inv = {"status", "rent", "rate", "lines", "adj", "rentUah", "utilities",
                         "adjustments", "grand"}
        /\ inv = [x \in DOMAIN inv |-> inv[x]]
    BY ONLY <1>8
  <2>2. DOMAIN new = DOMAIN inv /\ new = [x \in DOMAIN new |-> new[x]]
    BY ONLY <2>1
  <2>3. /\ new.status = inv.status /\ new.rent = inv.rent /\ new.rate = inv.rate
        /\ new.lines = lines /\ new.adj = inv.adj /\ new.rentUah = rentUah
        /\ new.utilities = utilities /\ new.adjustments = adjustments /\ new.grand = grand
    BY ONLY <2>1
  <2> HIDE DEF new
  <2>4. QED
    BY ONLY <2>1, <2>2, <2>3
<1> HIDE DEF new
<1>10. IsInvoice(new)
  BY <1>2, <1>3, <1>4, <1>5, <1>6, <1>7, <1>8, <1>9, InvoiceFields
<1>11. QED
  BY <1>1, <1>10

\* The invoice with other adjustments, or another status.
LEMMA InvoiceWithType ==
  ASSUME NEW inv, IsInvoice(inv)
  PROVE  /\ \A adj : PartialFunction(adj, LineIds, Amounts) =>
                IsInvoice([inv EXCEPT !.adj = adj])
         /\ \A status \in {"draft", "issued", "paid"} :
                IsInvoice([inv EXCEPT !.status = status])
<1>1. ASSUME NEW adj, PartialFunction(adj, LineIds, Amounts)
      PROVE  IsInvoice([inv EXCEPT !.adj = adj])
  <2> DEFINE new == [inv EXCEPT !.adj = adj]
  <2>1. new = [status |-> inv.status, rent |-> inv.rent, rate |-> inv.rate,
               lines |-> inv.lines, adj |-> adj, rentUah |-> inv.rentUah,
               utilities |-> inv.utilities, adjustments |-> inv.adjustments,
               grand |-> inv.grand]
    BY InvoiceFields
  <2> HIDE DEF new
  <2>2. IsInvoice(new)
    BY <1>1, <2>1, InvoiceFields
  <2>3. QED
    BY <2>2 DEF new
<1>2. ASSUME NEW status \in {"draft", "issued", "paid"}
      PROVE  IsInvoice([inv EXCEPT !.status = status])
  <2> DEFINE new == [inv EXCEPT !.status = status]
  <2>1. new = [status |-> status, rent |-> inv.rent, rate |-> inv.rate,
               lines |-> inv.lines, adj |-> inv.adj, rentUah |-> inv.rentUah,
               utilities |-> inv.utilities, adjustments |-> inv.adjustments,
               grand |-> inv.grand]
    BY InvoiceFields
  <2> HIDE DEF new
  <2>2. IsInvoice(new)
    BY <2>1, InvoiceFields
  <2>3. QED
    BY <2>2 DEF new
<1>3. QED
  BY <1>1, <1>2

LEMMA EditedType ==
  ASSUME TypeOK, NEW p \in DOMAIN invoices, NEW rate \in Rates,
         NEW curr \in [MeteredLines(p) -> Readings \cup {Missing}]
  PROVE  IsInvoice(Edited(p, rate, curr))
<1> DEFINE inv == invoices[p]
           lines == [s \in DOMAIN inv.lines |->
                        IF s \in Metered THEN [inv.lines[s] EXCEPT !.curr = curr[s]]
                        ELSE inv.lines[s]]
           new == [inv EXCEPT !.rate = rate, !.lines = lines]
<1>1. IsInvoice(inv)
  BY DEF TypeOK
<1>2. Edited(p, rate, curr) = new
  BY <1>1, InvoiceFields DEF Edited
<1>3. PartialFunction(lines, Services, Lines)
  <2>1. PartialFunction(inv.lines, Services, Lines)
    BY <1>1 DEF IsInvoice
  <2>2. ASSUME NEW s \in DOMAIN inv.lines, s \in Metered
        PROVE  [inv.lines[s] EXCEPT !.curr = curr[s]] \in Lines
    <3>1. curr[s] \in Readings \cup {Missing} /\ inv.lines[s] \in Lines
      BY <2>1, <2>2 DEF MeteredLines, PartialFunction
    <3>2. QED
      BY <3>1 DEF Lines
  <2>3. QED
    BY <2>1, <2>2 DEF PartialFunction
<1> HIDE DEF lines
<1>4. /\ inv = [status |-> inv.status, rent |-> inv.rent, rate |-> inv.rate,
                lines |-> inv.lines, adj |-> inv.adj, rentUah |-> inv.rentUah,
                utilities |-> inv.utilities, adjustments |-> inv.adjustments,
                grand |-> inv.grand]
      /\ inv.status \in {"draft", "issued", "paid"} /\ inv.rent \in Rents
      /\ PartialFunction(inv.adj, LineIds, Amounts)
      /\ inv.rentUah \in Int /\ inv.utilities \in Int
      /\ inv.adjustments \in Int /\ inv.grand \in Int
  BY <1>1, InvoiceFields
<1>5. new = [status |-> inv.status, rent |-> inv.rent, rate |-> rate,
             lines |-> lines, adj |-> inv.adj, rentUah |-> inv.rentUah,
             utilities |-> inv.utilities, adjustments |-> inv.adjustments, grand |-> inv.grand]
  <2> HIDE DEF inv
  <2>1. /\ DOMAIN inv = {"status", "rent", "rate", "lines", "adj", "rentUah", "utilities",
                         "adjustments", "grand"}
        /\ inv = [x \in DOMAIN inv |-> inv[x]]
    BY ONLY <1>4
  <2>2. DOMAIN new = DOMAIN inv /\ new = [x \in DOMAIN new |-> new[x]]
    BY ONLY <2>1
  <2>3. /\ new.status = inv.status /\ new.rent = inv.rent /\ new.rate = rate
        /\ new.lines = lines /\ new.adj = inv.adj /\ new.rentUah = inv.rentUah
        /\ new.utilities = inv.utilities /\ new.adjustments = inv.adjustments
        /\ new.grand = inv.grand
    BY ONLY <2>1
  <2> HIDE DEF new
  <2>4. QED
    BY ONLY <2>1, <2>2, <2>3
<1> HIDE DEF new, inv
<1>6. IsInvoice(new)
  BY <1>3, <1>4, <1>5, InvoiceFields
<1>7. QED
  BY <1>2, <1>6

\* The reading a draft starts from is one of an invoice, or none.
LEMMA PreviousReadingType ==
  ASSUME TypeOK, NEW p, NEW s
  PROVE  PreviousReading(p, s) \in Readings \cup {Missing}
<1>1. Shape
  BY InvoiceFields DEF TypeOK, Shape, InvoiceShape, IsRecord, IsLine, PartialFunction, Lines
<1>2. ASSUME NEW q \in DOMAIN invoices, ReadIn(q, s)
      PROVE  invoices[q].lines[s].curr \in Readings
  <2>1. invoices[q].lines[s] \in Lines
    BY <1>2 DEF TypeOK, IsInvoice, PartialFunction, ReadIn
  <2>2. QED
    BY <1>2, <2>1 DEF Lines, ReadIn
<1>3. Chained(p, s, PreviousReading(p, s))
  BY <1>1, PreviousReadingChained
<1>4. QED
  BY <1>2, <1>3 DEF Chained

LEMMA GetRateType ==
  ASSUME PartialFunction(rates, Days, Rates), NEW d \in Days, NEW rate \in Rates, GetRate(d, rate)
  PROVE  PartialFunction(rates', Days, Rates)
BY DEF GetRate, Put, PartialFunction

LEMMA CreateDraftType ==
  ASSUME TypeOK, NEW p \in Periods, NEW chosen \in SUBSET Services, NEW rent \in Rents,
         NEW rate \in Rates, CreateDraft(p, chosen, rent, rate)
  PROVE  TypeOK'
<1> DEFINE prev == [s \in chosen |-> IF s \in Metered THEN PreviousReading(p, s) ELSE Missing]
<1>1. PICK price \in [chosen -> Prices] :
        LET lines == [s \in chosen |-> [prev |-> prev[s], curr |-> Missing,
                                        price |-> price[s], amount |-> 0]]
            draft == [status |-> "draft", rent |-> rent, rate |-> rate,
                      lines |-> lines, adj |-> [l \in {} |-> 0], rentUah |-> 0,
                      utilities |-> 0, adjustments |-> 0, grand |-> 0]
        IN  invoices' = Put(invoices, p, Recalculate(draft))
  BY Zenon DEF CreateDraft
<1> DEFINE lines == [s \in chosen |-> [prev |-> prev[s], curr |-> Missing,
                                       price |-> price[s], amount |-> 0]]
           draft == [status |-> "draft", rent |-> rent, rate |-> rate,
                     lines |-> lines, adj |-> [l \in {} |-> 0],
                     rentUah |-> 0, utilities |-> 0, adjustments |-> 0, grand |-> 0]
           new == Recalculate(draft)
<1>2. PartialFunction(lines, Services, Lines)
  <2>1. \A s \in chosen : prev[s] \in Readings \cup {Missing}
    BY PreviousReadingType
  <2> HIDE DEF prev
  <2>2. QED
    BY <2>1 DEF PartialFunction, Lines
<1>3. invoices' = Put(invoices, p, new)
  BY <1>1
<1> HIDE DEF lines
<1>4. PartialFunction(draft.adj, LineIds, Amounts)
  BY DEF PartialFunction
<1>5. IsInvoice(draft)
  <2>1. draft = [status |-> draft.status, rent |-> draft.rent, rate |-> draft.rate,
                 lines |-> draft.lines, adj |-> draft.adj, rentUah |-> draft.rentUah,
                 utilities |-> draft.utilities, adjustments |-> draft.adjustments,
                 grand |-> draft.grand]
    OBVIOUS
  <2>2. /\ draft.status = "draft" /\ draft.rent = rent /\ draft.rate = rate
        /\ draft.lines = lines /\ draft.rentUah = 0 /\ draft.utilities = 0
        /\ draft.adjustments = 0 /\ draft.grand = 0
    OBVIOUS
  <2> HIDE DEF draft
  <2>3. QED
    BY <1>2, <1>4, <2>1, <2>2, InvoiceFields
<1> HIDE DEF draft
<1>6. IsInvoice(new)
  BY <1>5, RecalculateType
<1> HIDE DEF new
<1>7. linked' = linked /\ manual' = manual
  BY DEF CreateDraft
<1>8. PartialFunction(rates', Days, Rates)
  <2>1. FirstDay[p] \in Days /\ GetRate(FirstDay[p], rate)
    BY CalendarAssumption DEF CreateDraft, Days, Periods
  <2>2. QED
    BY <2>1, GetRateType DEF TypeOK
<1>9. QED
  BY <1>3, <1>6, <1>7, <1>8 DEF TypeOK, Put

\* One invoice is replaced.
LEMMA ReplacedType ==
  ASSUME TypeOK, NEW p, NEW new, IsInvoice(new),
         invoices' = [invoices EXCEPT ![p] = new],
         PartialFunction(linked', LineIds, Expenses), UNCHANGED <<manual, rates>>
  PROVE  TypeOK'
BY DEF TypeOK

LEMMA UpdateType ==
  ASSUME TypeOK, NEW p \in DOMAIN invoices, Update(p)
  PROVE  TypeOK'
<1>1. PICK rate \in Rates, curr \in [MeteredLines(p) -> Readings \cup {Missing}] :
            \/ UpdateReadings(p, rate, curr)
            \/ \E kept \in SUBSET LinesOf(p), fresh \in 0 .. MaxLine :
                UpdateAdjustments(p, rate, curr, kept, fresh)
  BY DEF Update
<1> DEFINE edited == Edited(p, rate, curr)
<1>2. IsInvoice(edited)
  BY EditedType
<1>3. CASE UpdateReadings(p, rate, curr)
  <2>1. /\ invoices' = [invoices EXCEPT ![p] = Recalculate(edited)]
        /\ linked' = linked /\ UNCHANGED <<manual, rates>>
    BY <1>3 DEF UpdateReadings
  <2> HIDE DEF edited
  <2>2. PartialFunction(linked', LineIds, Expenses)
    BY <2>1 DEF TypeOK
  <2>3. IsInvoice(Recalculate(edited))
    BY <1>2, RecalculateType
  <2>4. QED
    BY <2>1, <2>2, <2>3, ReplacedType
<1>4. ASSUME NEW kept \in SUBSET LinesOf(p), NEW fresh \in 0 .. MaxLine,
             UpdateAdjustments(p, rate, curr, kept, fresh)
      PROVE  TypeOK'
  <2>1. PICK n \in 0 .. MaxLine - fresh :
          \E adj \in [kept \cup (n + 1 .. n + fresh) -> Amounts] :
          \E recorded \in SUBSET Recordable(adj) :
            /\ invoices' = [invoices EXCEPT ![p] = Recalculate([edited EXCEPT !.adj = adj])]
            /\ linked' = SyncExpenses(p, adj, recorded)
    BY <1>4 DEF UpdateAdjustments
  <2>2. PICK adj \in [kept \cup (n + 1 .. n + fresh) -> Amounts] :
          \E recorded \in SUBSET Recordable(adj) :
            /\ invoices' = [invoices EXCEPT ![p] = Recalculate([edited EXCEPT !.adj = adj])]
            /\ linked' = SyncExpenses(p, adj, recorded)
    BY <2>1
  <2>3. PICK recorded \in SUBSET Recordable(adj) :
            /\ invoices' = [invoices EXCEPT ![p] = Recalculate([edited EXCEPT !.adj = adj])]
            /\ linked' = SyncExpenses(p, adj, recorded)
    BY <2>2
  <2>4. UNCHANGED <<manual, rates>>
    BY <1>4 DEF UpdateAdjustments
  <2>5. PartialFunction(adj, LineIds, Amounts)
    <3>1. kept \subseteq LineIds
      BY DEF LinesOf, TypeOK, IsInvoice, PartialFunction
    <3>2. n + 1 .. n + fresh \subseteq LineIds
      BY BoundsAssumption DEF LineIds
    <3>3. QED
      BY <3>1, <3>2 DEF PartialFunction
  <2> HIDE DEF edited
  <2>6. IsInvoice([edited EXCEPT !.adj = adj])
    BY <1>2, <2>5, InvoiceWithType
  <2>7. IsInvoice(Recalculate([edited EXCEPT !.adj = adj]))
    BY <2>6, RecalculateType
  <2>8. PartialFunction(linked', LineIds, Expenses)
    <3>1. \A l \in recorded : /\ l \in LineIds
                              /\ ExpenseFor(p, adj[l]) \in Expenses
      <4>1. ASSUME NEW l \in recorded
            PROVE  /\ l \in LineIds
                   /\ ExpenseFor(p, adj[l]) \in Expenses
        <5>1. l \in DOMAIN adj /\ adj[l] < 0 /\ adj[l] \in Amounts /\ adj[l] \in Int
          BY <2>5, DataAssumption DEF Recordable, PartialFunction
        <5>2. -adj[l] \in {-a : a \in Amounts} \cap (Nat \ {0})
          BY <5>1
        <5>3. FirstDay[p] \in Days
          BY CalendarAssumption DEF TypeOK, Periods, Days
        <5>4. l \in LineIds
          BY <2>5, <5>1 DEF PartialFunction
        <5>5. QED
          BY <5>2, <5>3, <5>4 DEF Expenses, ExpenseFor
      <4>2. QED
        BY <4>1
    <3>2. PartialFunction(linked, LineIds, Expenses)
      BY DEF TypeOK
    <3>3. QED
      BY <2>3, <3>1, <3>2 DEF SyncExpenses, PartialFunction
  <2>9. QED
    BY <2>3, <2>4, <2>7, <2>8, ReplacedType
<1>5. QED
  BY <1>1, <1>3, <1>4

LEMMA TransitionType ==
  ASSUME TypeOK, NEW p \in DOMAIN invoices, Transition(p)
  PROVE  TypeOK'
<1>1. IsInvoice(invoices[p]) /\ PartialFunction(linked, LineIds, Expenses)
  BY DEF TypeOK
<1>2. linked' = linked /\ UNCHANGED <<manual, rates>>
  BY DEF Transition, Issue, RevertToDraft, MarkPaid, UnmarkPaid
<1>3. ASSUME NEW inv, IsInvoice(inv), NEW status \in {"draft", "issued", "paid"},
             invoices' = [invoices EXCEPT ![p] = [inv EXCEPT !.status = status]]
      PROVE  TypeOK'
  <2>1. IsInvoice([inv EXCEPT !.status = status])
    BY <1>3, InvoiceWithType
  <2>2. QED
    BY <1>1, <1>2, <1>3, <2>1, ReplacedType
<1>4. CASE Issue(p)
  <2>1. IsInvoice(Recalculate(invoices[p]))
    BY <1>1, RecalculateType
  <2>2. invoices' = [invoices EXCEPT ![p] = [Recalculate(invoices[p]) EXCEPT !.status = "issued"]]
    BY <1>4 DEF Issue
  <2>3. QED
    BY <1>3, <2>1, <2>2
<1>5. CASE RevertToDraft(p)
  <2>1. invoices' = [invoices EXCEPT ![p] = [invoices[p] EXCEPT !.status = "draft"]]
    BY <1>5 DEF RevertToDraft
  <2>2. QED
    BY <1>1, <1>3, <2>1
<1>6. CASE MarkPaid(p)
  <2>1. invoices' = [invoices EXCEPT ![p] = [invoices[p] EXCEPT !.status = "paid"]]
    BY <1>6 DEF MarkPaid
  <2>2. QED
    BY <1>1, <1>3, <2>1
<1>7. CASE UnmarkPaid(p)
  <2>1. invoices' = [invoices EXCEPT ![p] = [invoices[p] EXCEPT !.status = "issued"]]
    BY <1>7 DEF UnmarkPaid
  <2>2. QED
    BY <1>1, <1>3, <2>1
<1>8. QED
  BY <1>4, <1>5, <1>6, <1>7 DEF Transition

LEMMA NextType ==
  ASSUME TypeOK, [Next]_vars
  PROVE  TypeOK'
<1>1. ASSUME NEW p \in DOMAIN invoices, DeleteDraft(p)
      PROVE  TypeOK'
  <2>1. PartialFunction(linked, LineIds, Expenses) /\ UNCHANGED <<manual, rates>>
    BY <1>1 DEF TypeOK, DeleteDraft
  <2>2. PartialFunction(linked', LineIds, Expenses)
    BY <1>1, <2>1 DEF DeleteDraft, Restrict, PartialFunction
  <2>3. QED
    BY <1>1, <2>1, <2>2 DEF DeleteDraft, Restrict, TypeOK
<1>2. ASSUME NEW e \in Manual, DeleteExpense(e)
      PROVE  TypeOK'
  BY <1>2 DEF DeleteExpense, Restrict, TypeOK, PartialFunction
<1>3. ASSUME NEW e \in Manual, NEW date \in Days, NEW amount \in Spent,
             NEW currency \in Currencies, PutExpense(e, date, amount, currency)
      PROVE  TypeOK'
  BY <1>3 DEF PutExpense, Put, TypeOK, PartialFunction, Entered
<1>4. ASSUME NEW d \in Days, FetchRate(d)
      PROVE  TypeOK'
  <2>1. PICK rate \in Rates : GetRate(d, rate)
    BY <1>4 DEF FetchRate
  <2>2. PartialFunction(rates', Days, Rates)
    BY <2>1, GetRateType DEF TypeOK
  <2>3. QED
    BY <1>4, <2>2 DEF FetchRate, TypeOK
<1>5. CASE UNCHANGED vars
  BY <1>5 DEF vars, TypeOK
<1>6. QED
  BY <1>1, <1>2, <1>3, <1>4, <1>5, CreateDraftType, UpdateType, TransitionType DEF Next

-----------------------------------------------------------------------------
(* The theorems.                                                             *)

\* IInv is an inductive invariant of the handlers of billing.py.
THEOREM Invariance == Spec => []IInv
<1>1. Init => IInv
  BY DEF Init, IInv, Chronology, Books, Shape, DraftIsLatest, ReadingsChain, IssuedComplete,
         TotalsCurrent, LinesOK, ExpensesMatchLines
<1>2. QED
  BY <1>1, NextIInv, PTL DEF Spec

\* Every invoice, line and expense has its type, and every stored amount and total is a
\* number: no sum is taken over a missing reading.
THEOREM TypesStay == Spec => []TypeOK
<1>1. Init => TypeOK
  BY DEF Init, TypeOK, PartialFunction
<1>2. QED
  BY <1>1, NextType, PTL DEF Spec

\* For any number of months: a draft is the latest invoice of its apartment,
\* as validate_invoice_chronology intends.
THEOREM DraftsAreLatest == Spec => []DraftIsLatest
<1>1. IInv => DraftIsLatest
  BY DEF IInv, Chronology
<1>2. QED
  BY <1>1, Invariance, PTL

\* For any number of months and services: every previous reading is the current
\* reading of the latest earlier invoice with one (_previous_readings), however
\* drafts are edited, deleted and made again.
THEOREM ReadingsStayChained == Spec => []ReadingsChain
<1>1. IInv => ReadingsChain
  BY DEF IInv, Chronology
<1>2. QED
  BY <1>1, Invariance, PTL

\* An invoice that is issued or paid has all its readings (transition_invoice).
THEOREM IssuedInvoicesComplete == Spec => []IssuedComplete
<1>1. IInv => IssuedComplete
  BY DEF IInv, Chronology
<1>2. QED
  BY <1>1, Invariance, PTL

\* For any number of months, services and lines: the stored amounts and totals of an
\* invoice are those of its stored readings, rate and adjustments (recalculate is called
\* by every handler that changes one of them, after the change).
THEOREM TotalsStayCurrent == Spec => []TotalsCurrent
<1>1. IInv => TotalsCurrent
  BY DEF IInv
<1>2. QED
  BY <1>1, Invariance, PTL

\* For any number of months and lines: an expense recorded from an adjustment has one
\* line, the line's amount and the month of the line's invoice, although SQLite uses line
\* ids again (_sync_adjustment_expense and the cascades).
THEOREM ExpensesStayMatched == Spec => []ExpensesMatchLines
<1>1. IInv => ExpensesMatchLines
  BY DEF IInv, Books
<1>2. QED
  BY <1>1, Invariance, PTL

-----------------------------------------------------------------------------
(* The profit-and-loss report.                                               *)

LinkedTo(d) == {l \in DOMAIN linked : MonthOf[linked[l].date] = d}

\* The outer join finds exactly the expenses of the month's own invoice.
JoinExact == \A d \in Periods : CountedLines(d) = IF Counted(d) THEN LinkedTo(d) ELSE {}

LEMMA MonthOfExpense ==
  ASSUME NEW p \in Periods, NEW amount
  PROVE  MonthOf[ExpenseFor(p, amount).date] = p
BY CalendarAssumption DEF ExpenseFor, Periods

LEMMA BooksJoinExact == Books => JoinExact
<1> SUFFICES ASSUME Books, NEW d \in Periods
             PROVE  CountedLines(d) = IF Counted(d) THEN LinkedTo(d) ELSE {}
  BY DEF JoinExact
<1>1. \A l \in DOMAIN linked : \E p \in DOMAIN invoices : Records(l, p)
  BY RecordsMatch DEF Books
<1>2. \A l \in DOMAIN linked : \A p \in DOMAIN invoices :
        l \in LinesOf(p) <=> MonthOf[linked[l].date] = p
  BY <1>1, MonthOfExpense DEF Books, Shape, LinesOK, Records
<1>3. \A l \in LinkedTo(d) : d \in DOMAIN invoices /\ l \in LinesOf(d)
  BY <1>1, MonthOfExpense DEF Books, Shape, LinkedTo, Records
<1>4. QED
  BY <1>2, <1>3 DEF CountedLines, LinkedTo, Counted

\* What a counted month's result is made of stays while it is counted.
SameResult(d) ==
    /\ invoices'[d].rentUah = invoices[d].rentUah
    /\ LinkedTo(d)' = LinkedTo(d)
    /\ \A l \in LinkedTo(d) : linked'[l] = linked[l]

LEMMA CountedMonthStays ==
  ASSUME Books, [Next]_vars, NEW d, Counted(d), Counted(d)'
  PROVE  SameResult(d)
<1>1. d \in DOMAIN invoices /\ Status(d) # "draft"
  BY DEF Counted
<1>2. \A l \in LinkedTo(d) : l \in LinesOf(d)
  BY RecordsMatch, MonthOfExpense DEF Books, Shape, LinkedTo, Records
<1>3. ASSUME NEW p \in Periods, Creates(p)
      PROVE  SameResult(d)
  BY <1>1, <1>3 DEF Creates, SameResult, LinkedTo
<1>4. ASSUME NEW p \in DOMAIN invoices, Rewrites(p), KeepsAdjustments(p),
             Status(p) # "draft" => invoices'[p].rentUah = invoices[p].rentUah
      PROVE  SameResult(d)
  <2>1. invoices'[d].rentUah = invoices[d].rentUah
    BY <1>1, <1>4 DEF Rewrites
  <2>2. QED
    BY <1>4, <2>1 DEF KeepsAdjustments, SameResult, LinkedTo
<1>5. ASSUME NEW p \in DOMAIN invoices, Rewrites(p), Readjusts(p), Status(p) = "draft"
      PROVE  SameResult(d)
  <2>1. p # d /\ invoices'[d] = invoices[d]
    BY <1>1, <1>5 DEF Rewrites
  <2>2. PICK recorded \in SUBSET DOMAIN invoices'[p].adj :
            linked' = SyncExpenses(p, invoices'[p].adj, recorded)
    BY <1>5 DEF Readjusts
  <2>3. /\ DOMAIN linked' = (DOMAIN linked \ LinesOf(p)) \cup recorded
        /\ \A l \in recorded : MonthOf[linked'[l].date] = p
        /\ \A l \in DOMAIN linked' : l \notin recorded => linked'[l] = linked[l]
    BY <2>2, MonthOfExpense DEF SyncExpenses, Books, Shape
  <2>4. \A l \in LinesOf(d) : l \notin LinesOf(p) /\ l \notin recorded
    BY <1>1, <1>5, <2>1 DEF Books, LinesOK, Readjusts
  <2>5. \A l \in LinkedTo(d) : l \in DOMAIN linked' /\ linked'[l] = linked[l]
    BY <1>2, <2>3, <2>4 DEF LinkedTo
  <2>6. \A l \in DOMAIN linked' : MonthOf[linked'[l].date] = d => l \in LinkedTo(d)
    BY <2>1, <2>3 DEF LinkedTo
  <2>7. QED
    BY <2>1, <2>5, <2>6 DEF SameResult, LinkedTo
<1>6. ASSUME NEW p \in DOMAIN invoices, DeleteDraft(p)
      PROVE  SameResult(d)
  <2>1. /\ Status(p) = "draft"
        /\ DOMAIN invoices' = DOMAIN invoices \ {p}
        /\ \A q \in DOMAIN invoices' : invoices'[q] = invoices[q]
        /\ DOMAIN linked' = DOMAIN linked \ LinesOf(p)
        /\ \A l \in DOMAIN linked' : linked'[l] = linked[l]
    BY <1>6, DeleteDraftRemoves
  <2>2. p # d
    BY <1>1, <2>1
  <2>3. \A l \in LinesOf(d) : l \notin LinesOf(p)
    BY <1>1, <2>2 DEF Books, LinesOK
  <2>4. QED
    BY <1>1, <1>2, <2>1, <2>2, <2>3 DEF SameResult, LinkedTo
<1>7. ASSUME UNCHANGED <<invoices, linked>>
      PROVE  SameResult(d)
  BY <1>7 DEF SameResult, LinkedTo
<1>8. QED
  BY <1>3, <1>4, <1>5, <1>6, <1>7, StepKinds DEF Books, Edits, Moves

\* What a step does to the stored rates.
StoresRate(d) ==
    /\ d \notin DOMAIN rates
    /\ DOMAIN rates' = DOMAIN rates \cup {d}
    /\ \A c \in DOMAIN rates : rates'[c] = rates[c]

LEMMA GetRateStores ==
  ASSUME NEW d, NEW rate, GetRate(d, rate)
  PROVE  rates' = rates \/ StoresRate(d)
BY DEF GetRate, StoresRate, Put

LEMMA StepRates ==
  ASSUME [Next]_vars
  PROVE  rates' = rates \/ \E d \in Days : StoresRate(d)
<1>1. ASSUME NEW p \in Periods, NEW chosen, NEW rent, NEW rate, CreateDraft(p, chosen, rent, rate)
      PROVE  rates' = rates \/ \E d \in Days : StoresRate(d)
  <2>1. FirstDay[p] \in Days /\ GetRate(FirstDay[p], rate)
    BY <1>1, CalendarAssumption DEF CreateDraft, Days, Periods
  <2>2. QED
    BY <2>1, GetRateStores
<1>2. ASSUME NEW d \in Days, FetchRate(d)
      PROVE  rates' = rates \/ \E c \in Days : StoresRate(c)
  BY <1>2, GetRateStores DEF FetchRate
<1>3. ASSUME NEW p \in DOMAIN invoices, Update(p) \/ DeleteDraft(p) \/ Transition(p)
      PROVE  rates' = rates
  BY <1>3 DEF Update, UpdateReadings, UpdateAdjustments, DeleteDraft, Transition, Issue,
              RevertToDraft, MarkPaid, UnmarkPaid
<1>4. ASSUME NEW e \in Manual, \/ DeleteExpense(e)
                               \/ \E date \in Days, amount \in Spent, currency \in Currencies :
                                    PutExpense(e, date, amount, currency)
      PROVE  rates' = rates
  BY <1>4 DEF DeleteExpense, PutExpense
<1>5. CASE UNCHANGED vars
  BY <1>5 DEF vars
<1>6. QED
  BY <1>1, <1>2, <1>3, <1>4, <1>5 DEF Next

\* A rate that is stored for a later day, or for one before the latest known, converts
\* nothing of that day.
LEMMA RateStays ==
  ASSUME NEW d \in Days, StoresRate(d), NEW date \in Days,
         ~(d <= date /\ \A c \in DOMAIN rates : c <= date => c < d),
         DOMAIN rates \subseteq Days
  PROVE  /\ HasRate(date)' <=> HasRate(date)
         /\ HasRate(date) => StoredRate(date)' = StoredRate(date)
<1> DEFINE past == UpTo(date)
           later == UpTo(date)'
           last == CHOOSE c \in past : \A other \in past : other <= c
           newLast == CHOOSE c \in later : \A other \in later : other <= c
<1>1. date \in Nat /\ d \in Nat /\ past \subseteq 1 .. date
  BY DEF Days, UpTo
<1>2. later = IF d <= date THEN past \cup {d} ELSE past
  BY DEF UpTo, StoresRate, Days
<1>3. d <= date => \E c \in past : d <= c
  BY DEF UpTo, Days
<1>4. HasRate(date)' <=> HasRate(date)
  BY <1>2, <1>3 DEF HasRate
<1>5. ASSUME HasRate(date)
      PROVE  StoredRate(date)' = StoredRate(date)
  <2>1. \E c \in past : \A other \in past : other <= c
    BY <1>1, <1>5, LargestExists DEF HasRate
  <2>2. last \in past /\ \A other \in past : other <= last
    BY <2>1
  <2>3. StoredRate(date) = rates[last] /\ StoredRate(date)' = rates'[newLast]
    BY DEF StoredRate
  <2>4. last \in DOMAIN rates
    BY <2>2 DEF UpTo
  <2> HIDE DEF last
  <2>5. last \in later /\ \A other \in later : other <= last
    <3>1. CASE d <= date
      <4>1. PICK c \in past : d <= c
        BY <1>3, <3>1
      <4>2. d <= last /\ last \in Nat
        BY <1>1, <2>2, <4>1
      <4>3. QED
        BY <1>2, <2>2, <3>1, <4>2
    <3>2. CASE ~(d <= date)
      BY <1>2, <2>2, <3>2
    <3>3. QED
      BY <3>1, <3>2
  <2>6. later \subseteq Nat
    BY <1>1, <1>2
  <2>7. newLast \in later /\ \A other \in later : other <= newLast
    BY <2>5
  <2> HIDE DEF newLast, later, past
  <2>8. newLast = last
    BY <2>5, <2>6, <2>7
  <2>9. QED
    BY <2>3, <2>4, <2>8 DEF StoresRate
<1>6. QED
  BY <1>4, <1>5

\* What the report makes of a month's expenses that were entered by hand.
Paid(m) ==
    LET own == OwnExpenses(m)
    IN  [e \in {e \in DOMAIN own : Converts(own[e])} |-> InUah(own[e])]

LEMMA PaidStays ==
  ASSUME TypeOK, [Next]_vars, NEW m, OwnExpenses(m)' = OwnExpenses(m), ~Repriced(m)
  PROVE  Paid(m)' = Paid(m)
<1> DEFINE own == OwnExpenses(m)
<1>1. \A e \in DOMAIN own : own[e] = manual[e] /\ e \in DOMAIN manual /\ own[e].date \in Days
  BY DEF OwnExpenses, Restrict, TypeOK, PartialFunction, Entered
<1>2. ASSUME NEW e \in DOMAIN own
      PROVE  /\ Converts(own[e])' <=> Converts(own[e])
             /\ Converts(own[e]) => InUah(own[e])' = InUah(own[e])
  <2>1. PICK x : x = own[e]
    OBVIOUS
  <2>2. x = own[e]'
    BY <2>1
  <2>3. x = manual[e] /\ x.date \in Days
    BY <1>1, <2>1
  <2>4. x.currency = "USD" => /\ HasRate(x.date)' <=> HasRate(x.date)
                              /\ HasRate(x.date) => StoredRate(x.date)' = StoredRate(x.date)
    <3>1. CASE rates' = rates
      BY <3>1 DEF HasRate, StoredRate, UpTo
    <3>2. ASSUME NEW d \in Days, StoresRate(d), x.currency = "USD"
          PROVE  /\ HasRate(x.date)' <=> HasRate(x.date)
                 /\ HasRate(x.date) => StoredRate(x.date)' = StoredRate(x.date)
      <4>1. d \in DOMAIN rates' \ DOMAIN rates
        BY <3>2 DEF StoresRate
      <4>2. ~(d <= x.date /\ \A c \in DOMAIN rates : c <= x.date => c < d)
        BY <2>3, <3>2, <4>1 DEF Repriced
      <4>3. DOMAIN rates \subseteq Days
        BY DEF TypeOK, PartialFunction
      <4>4. QED
        BY <2>3, <3>2, <4>2, <4>3, RateStays
    <3>3. QED
      BY <3>1, <3>2, StepRates
  <2>5. /\ Converts(x)' <=> Converts(x)
        /\ Converts(x) => InUah(x)' = InUah(x)
    BY <2>4 DEF Converts, InUah
  <2>6. QED
    BY <2>1, <2>2, <2>5
<1> HIDE DEF own
<1>3. own' = own
  BY DEF own
<1>4. [e \in {e \in DOMAIN own : Converts(own[e])} |-> InUah(own[e])]'
        = [e \in {e \in DOMAIN own : Converts(own[e])} |-> InUah(own[e])]
  BY <1>2, <1>3
<1>5. QED
  BY <1>4 DEF Paid, own

\* The result of a month depends on whether it is counted, the expenses entered by
\* hand and their rates, and what SameResult speaks of.
LEMMA ResultStays ==
  ASSUME TypeOK, Books, JoinExact, JoinExact', [Next]_vars, NEW m \in Periods,
         Counted(m)' = Counted(m), OwnExpenses(m)' = OwnExpenses(m), ~Repriced(m)
  PROVE  Pnl(m)' = Pnl(m)
<1> DEFINE amounts == [l \in CountedLines(m) |-> linked[l].amount]
<1>1. CountedLines(m) = IF Counted(m) THEN LinkedTo(m) ELSE {}
  BY DEF JoinExact
<1>2. CountedLines(m)' = IF Counted(m)' THEN LinkedTo(m)' ELSE {}
  BY DEF JoinExact
<1>3. Counted(m) => SameResult(m)
  BY CountedMonthStays
<1>4. Income(m)' = Income(m)
  BY <1>3 DEF Income, SameResult
<1>5. amounts' = amounts
  <2>1. CountedLines(m)' = CountedLines(m)
    BY <1>1, <1>2, <1>3 DEF SameResult
  <2>2. \A l \in CountedLines(m) : linked'[l] = linked[l]
    BY <1>1, <1>3 DEF SameResult
  <2>3. QED
    BY <2>1, <2>2
<1>6. Paid(m)' = Paid(m)
  BY PaidStays
<1>7. /\ ExpensesOf(m) = Sum(amounts) + Sum(Paid(m))
      /\ ExpensesOf(m)' = Sum(amounts') + Sum(Paid(m)')
  BY Zenon DEF ExpensesOf, Paid
<1>8. ExpensesOf(m)' = ExpensesOf(m)
  BY <1>5, <1>6, <1>7
<1>9. QED
  BY <1>4, <1>8 DEF Pnl

\* For any number of months, days, lines, expenses and rates: a month's result changes only
\* when its invoice begins or ceases to count, an expense entered by hand in it changes, or
\* a dollar expense of it gets a newer rate of a day up to its own (stats.py counts issued
\* and paid invoices, joins expenses to their lines and converts with get_stored_rate;
\* get_rate stores what it fetches, whatever becomes of the draft it is for).
THEOREM ReportIsStable == Spec => PnlStable
<1>1. ASSUME TypeOK, Books, JoinExact, JoinExact', [Next]_vars, NEW m \in Periods,
             Pnl(m)' # Pnl(m)
      PROVE  Counted(m)' # Counted(m) \/ OwnExpenses(m)' # OwnExpenses(m) \/ Repriced(m)
  BY <1>1, ResultStays
<1>2. TypeOK /\ Books /\ JoinExact /\ JoinExact' /\ [Next]_vars =>
        [\A m \in Periods : Pnl(m)' # Pnl(m) =>
            Counted(m)' # Counted(m) \/ OwnExpenses(m)' # OwnExpenses(m) \/ Repriced(m)]_vars
  BY <1>1
<1>3. IInv => Books
  BY DEF IInv
<1>4. QED
  BY <1>2, <1>3, BooksJoinExact, Invariance, TypesStay, PTL DEF Spec, PnlStable

(***************************************************************************)
(* What comes in from outside                                               *)
(***************************************************************************)
-----------------------------------------------------------------------------
(* The invariant of a database.                                              *)

LinesAt(db, p) == DOMAIN db.invoices[p].adj

\* Books, of a database.
BooksOf(db) ==
    /\ DOMAIN db.invoices \subseteq Periods
    /\ \A p \in DOMAIN db.invoices : InvoiceShape(db.invoices[p])
    /\ \A p \in DOMAIN db.invoices : LinesAt(db, p) \subseteq LineIds
    /\ \A p, q \in DOMAIN db.invoices : \A l \in LinesAt(db, p) : l \in LinesAt(db, q) => p = q
    /\ \A l \in DOMAIN db.linked : \E p \in DOMAIN db.invoices :
        /\ l \in LinesAt(db, p)
        /\ db.linked[l] = ExpenseFor(p, db.invoices[p].adj[l])

\* No two of its expenses have the same key.
KeysOf(db) ==
    /\ DOMAIN db.key = DOMAIN db.linked
    /\ IsInjective(db.key)
    /\ Range(db.key) \cap DOMAIN db.manual = {}

\* Keys that are drawn later differ from those of every archive, too.
CInv ==
    /\ \A db \in archives \cup {contents} :
        BooksOf(db) /\ KeysOf(db) /\ ExpenseKeys(db) \subseteq drawn
    /\ drawn \subseteq Manual
    /\ key = [l \in DOMAIN key |-> key[l]]

LEMMA BooksSame ==
  Books <=> BooksOf(contents)
BY DEF Books, Shape, LinesOK, ExpensesMatchLines, ExpenseFor, BooksOf, LinesAt, LinesOf, contents

LEMMA BooksSameNext ==
  Books' <=> BooksOf(contents')
BY DEF Books, Shape, LinesOK, ExpensesMatchLines, ExpenseFor, BooksOf, LinesAt, LinesOf, contents

-----------------------------------------------------------------------------
(* The ids of imported lines.                                                *)

\* Every line of a database has an id between 1 and TopId, if its ids are bounded.
LEMMA TopIdIsTop ==
  ASSUME NEW db, NEW N \in Nat, AdjustmentsOf(db, DOMAIN db.invoices) \subseteq 1 .. N
  PROVE  /\ TopId(db) \in 0 .. N
         /\ \A l \in AdjustmentsOf(db, DOMAIN db.invoices) : l <= TopId(db)
<1> DEFINE ids == AdjustmentsOf(db, DOMAIN db.invoices)
           top == CHOOSE l \in ids : \A other \in ids : other <= l
<1>1. TopId(db) = IF ids = {} THEN 0 ELSE top
  BY DEF TopId
<1> HIDE DEF ids
<1>2. CASE ids = {}
  BY <1>1, <1>2 DEF ids
<1>3. CASE ids # {}
  <2>1. \E l \in ids : \A other \in ids : other <= l
    BY <1>3, LargestExists DEF ids
  <2>2. top \in ids /\ \A other \in ids : other <= top
    BY <2>1
  <2> HIDE DEF top
  <2>3. QED
    BY <1>1, <1>3, <2>2 DEF ids
<1>4. QED
  BY <1>2, <1>3

LEMMA LinesAreAdjustments ==
  ASSUME NEW db, BooksOf(db)
  PROVE  /\ AdjustmentsOf(db, DOMAIN db.invoices) \subseteq LineIds
         /\ \A p \in DOMAIN db.invoices :
                LinesAt(db, p) \subseteq AdjustmentsOf(db, DOMAIN db.invoices)
         /\ DOMAIN db.linked \subseteq AdjustmentsOf(db, DOMAIN db.invoices)
<1>1. \A p \in DOMAIN db.invoices :
        LinesAt(db, p) \subseteq AdjustmentsOf(db, DOMAIN db.invoices)
  BY DEF AdjustmentsOf, LinesAt
<1>2. AdjustmentsOf(db, DOMAIN db.invoices) \subseteq LineIds
  BY DEF AdjustmentsOf, LinesAt, BooksOf
<1>3. DOMAIN db.linked \subseteq AdjustmentsOf(db, DOMAIN db.invoices)
  BY <1>1 DEF BooksOf
<1>4. QED
  BY <1>1, <1>2, <1>3

\* In a finite set of numbers, each has more below it than a smaller one has.
LEMMA RankIsStrict ==
  ASSUME NEW S, IsFiniteSet(S), S \subseteq Int, NEW l \in S
  PROVE  /\ Cardinality({k \in S : k <= l}) \in 1 .. Cardinality(S)
         /\ \A m \in S : m < l => Cardinality({k \in S : k <= m}) < Cardinality({k \in S : k <= l})
<1> DEFINE below(m) == {k \in S : k <= m}
<1>1. ASSUME NEW m \in S
      PROVE  IsFiniteSet(below(m)) /\ Cardinality(below(m)) \in Nat
  BY FS_Subset, FS_CardinalityType
<1>2. Cardinality(S) \in Nat /\ Cardinality(below(l)) <= Cardinality(S)
  BY FS_Subset, FS_CardinalityType
<1>3. Cardinality(below(l)) # 0
  <2>1. l \in below(l)
    OBVIOUS
  <2>2. QED
    BY <1>1, <2>1, FS_EmptySet
<1>4. ASSUME NEW m \in S, m < l
      PROVE  Cardinality(below(m)) < Cardinality(below(l))
  <2>1. below(m) \subseteq below(l) /\ l \in below(l) /\ l \notin below(m)
    <3>1. m \in Int /\ l \in Int
      OBVIOUS
    <3>2. \A k \in S : k \in Int /\ (k <= m => k <= l)
      BY <1>4, <3>1
    <3>3. ~(l <= m) /\ l <= l
      BY <1>4, <3>1
    <3>4. QED
      BY <3>2, <3>3
  <2>2. /\ Cardinality(below(m)) <= Cardinality(below(l))
        /\ Cardinality(below(m)) # Cardinality(below(l))
    <3> HIDE DEF below
    <3>1. QED
      BY <1>1, <2>1, FS_Subset
  <2>3. QED
    BY <1>1, <2>2
<1>5. QED
  BY <1>1, <1>2, <1>3, <1>4

\* Imported lines get different ids, above those in use.
LEMMA LineMapIsNew ==
  ASSUME NEW db, BooksOf(db), NEW arc, BooksOf(arc)
  PROVE  LET map == LineMap(db, arc) IN
         /\ DOMAIN map = NewLines(db, arc)
         /\ \E N \in Nat : \A l \in NewLines(db, arc) : map[l] \in TopId(db) + 1 .. N
         /\ \A k, l \in NewLines(db, arc) : map[k] = map[l] => k = l
<1> DEFINE S == NewLines(db, arc)
           rank(l) == Cardinality({k \in S : k <= l})
           map == [l \in S |-> TopId(db) + rank(l)]
<1>1. LineMap(db, arc) = map
  BY DEF LineMap
<1>2. MaxLine \in Nat
  BY BoundsAssumption
<1>3. TopId(db) \in Nat
  <2>1. AdjustmentsOf(db, DOMAIN db.invoices) \subseteq 1 .. MaxLine
    BY LinesAreAdjustments DEF LineIds
  <2>2. TopId(db) \in 0 .. MaxLine
    BY <1>2, <2>1, TopIdIsTop
  <2>3. QED
    BY <1>2, <2>2
<1>4. S \subseteq LineIds
  BY DEF NewLines, NewPeriods, AdjustmentsOf, BooksOf, LinesAt
<1> HIDE DEF S
<1>5. IsFiniteSet(S) /\ S \subseteq Int /\ Cardinality(S) \in Nat
  <2>1. IsFiniteSet(1 .. MaxLine)
    BY <1>2, FS_Interval
  <2>2. S \in SUBSET (1 .. MaxLine)
    BY <1>4 DEF LineIds
  <2>3. IsFiniteSet(S)
    BY <2>1, <2>2, FS_Subset
  <2>4. QED
    BY <1>2, <2>2, <2>3, FS_CardinalityType
<1>6. ASSUME NEW l \in S
      PROVE  /\ rank(l) \in 1 .. Cardinality(S)
             /\ \A m \in S : m < l => rank(m) < rank(l)
  BY <1>5, RankIsStrict
<1> HIDE DEF rank
<1>7. \A l \in S : map[l] \in TopId(db) + 1 .. TopId(db) + Cardinality(S)
  BY <1>3, <1>5, <1>6
<1>8. ASSUME NEW k \in S, NEW l \in S, map[k] = map[l]
      PROVE  k = l
  <2>1. rank(k) = rank(l)
    BY <1>3, <1>5, <1>6, <1>8
  <2>2. QED
    BY <1>5, <1>6, <2>1
<1>9. QED
  BY <1>1, <1>3, <1>5, <1>7, <1>8 DEF S

-----------------------------------------------------------------------------
(* The merge of an archive into a database.                                  *)

LEMMA ImportedFields ==
  ASSUME NEW inv, InvoiceShape(inv), NEW map,
         \A k, l \in DOMAIN inv.adj : map[k] = map[l] => k = l
  PROVE  LET new == Imported(inv, map) IN
         /\ InvoiceShape(new) /\ new.status = inv.status /\ new.rentUah = inv.rentUah
         /\ DOMAIN new.adj = {map[l] : l \in DOMAIN inv.adj}
         /\ \A l \in DOMAIN inv.adj : new.adj[map[l]] = inv.adj[l]
<1> DEFINE adj == [n \in {map[l] : l \in DOMAIN inv.adj} |->
                        inv.adj[CHOOSE l \in DOMAIN inv.adj : map[l] = n]]
           new == [inv EXCEPT !.adj = adj]
<1>1. Imported(inv, map) = new
  BY DEF Imported
<1>2. ASSUME NEW l \in DOMAIN inv.adj
      PROVE  adj[map[l]] = inv.adj[l]
  <2>1. (CHOOSE k \in DOMAIN inv.adj : map[k] = map[l]) = l
    OBVIOUS
  <2>2. QED
    BY <2>1
<1>3. DOMAIN adj = {map[l] : l \in DOMAIN inv.adj}
  OBVIOUS
<1> HIDE DEF adj
<1>4. /\ IsRecord(new) /\ new.lines = inv.lines /\ new.adj = adj
      /\ new.status = inv.status /\ new.rentUah = inv.rentUah
  BY DEF InvoiceShape, IsRecord
<1> HIDE DEF new
<1>5. QED
  BY <1>1, <1>2, <1>3, <1>4 DEF InvoiceShape

\* The new ids of the lines of S.
Ids(map, S) == {map[l] : l \in S}

LEMMA MovedFields ==
  ASSUME NEW f, NEW S, NEW map, \A k, l \in S : map[k] = map[l] => k = l
  PROVE  /\ DOMAIN Moved(f, S, map) = Ids(map, S)
         /\ \A l \in S : Moved(f, S, map)[map[l]] = f[l]
<1>1. ASSUME NEW l \in S
      PROVE  (CHOOSE k \in S : map[k] = map[l]) = l
  OBVIOUS
<1>2. QED
  BY <1>1 DEF Moved, Ids

\* h is f, and what g has for the lines of S, by their new ids.
Joins(h, f, g, S, map) ==
    /\ DOMAIN h = DOMAIN f \cup Ids(map, S)
    /\ \A l \in DOMAIN f : h[l] = f[l]
    /\ \A l \in S : h[map[l]] = g[l]

LEMMA AddMovedJoins ==
  ASSUME NEW f, NEW g, NEW S, NEW map, \A k, l \in S : map[k] = map[l] => k = l,
         \A l \in S : map[l] \notin DOMAIN f
  PROVE  Joins(AddMissing(f, Moved(g, S, map)), f, g, S, map)
<1> DEFINE moved == Moved(g, S, map)
<1>1. /\ DOMAIN moved = Ids(map, S)
      /\ \A l \in S : moved[map[l]] = g[l]
  BY MovedFields
<1> HIDE DEF moved
<1>2. \A l \in S : map[l] \in DOMAIN moved /\ map[l] \notin DOMAIN f
  BY <1>1 DEF Ids
<1>3. Joins(AddMissing(f, moved), f, g, S, map)
  BY <1>1, <1>2 DEF AddMissing, Joins
<1>4. QED
  BY <1>3 DEF moved

\* What a merge makes of a database db: it keeps what there is, adds the missing
\* invoices with their lines and those lines' missing expenses, and the other missing
\* expenses without a line.
MergedBy(db, arc, new, map) ==
    /\ DOMAIN new.invoices = DOMAIN db.invoices \cup DOMAIN arc.invoices
    /\ \A p \in DOMAIN db.invoices : new.invoices[p] = db.invoices[p]
    /\ \A p \in NewPeriods(db, arc) :
        /\ new.invoices[p] = Imported(arc.invoices[p], map)
        /\ InvoiceShape(new.invoices[p])
        /\ LinesAt(new, p) = {map[l] : l \in LinesAt(arc, p)}
        /\ \A l \in LinesAt(arc, p) : new.invoices[p].adj[map[l]] = arc.invoices[p].adj[l]
    /\ Joins(new.linked, db.linked, arc.linked, LinkedLines(db, arc), map)
    /\ Joins(new.key, db.key, arc.key, LinkedLines(db, arc), map)
    /\ DOMAIN new.manual = DOMAIN db.manual \cup DOMAIN Unlinked(db, arc)

\* Imported lines have ids of their own.
FreshMap(db, arc, map) ==
    /\ \E N \in Nat : \A l \in NewLines(db, arc) : map[l] \in TopId(db) + 1 .. N
    /\ \A k, l \in NewLines(db, arc) : map[k] = map[l] => k = l

LEMMA FreshIds ==
  ASSUME NEW db, BooksOf(db), NEW arc, NEW map, FreshMap(db, arc, map)
  PROVE  /\ \A l \in NewLines(db, arc) : \A p \in DOMAIN db.invoices : map[l] \notin LinesAt(db, p)
         /\ \A l \in NewLines(db, arc) : map[l] \notin DOMAIN db.linked
<1>1. MaxLine \in Nat
  BY BoundsAssumption
<1>2. AdjustmentsOf(db, DOMAIN db.invoices) \subseteq 1 .. MaxLine
  BY LinesAreAdjustments DEF LineIds
<1>3. /\ TopId(db) \in Nat
      /\ \A l \in AdjustmentsOf(db, DOMAIN db.invoices) : l \in Nat /\ l <= TopId(db)
  BY <1>1, <1>2, TopIdIsTop
<1>4. ASSUME NEW l \in NewLines(db, arc)
      PROVE  map[l] \notin AdjustmentsOf(db, DOMAIN db.invoices)
  BY <1>3 DEF FreshMap
<1>5. QED
  BY <1>4, LinesAreAdjustments

LEMMA MergeIsMerged ==
  ASSUME NEW db, BooksOf(db), KeysOf(db), NEW arc, BooksOf(arc)
  PROVE  \E map : FreshMap(db, arc, map) /\ MergedBy(db, arc, Merge(db, arc), map)
<1> DEFINE map == LineMap(db, arc)
           links == LinkedLines(db, arc)
           added == [p \in NewPeriods(db, arc) |-> Imported(arc.invoices[p], map)]
           new == Merge(db, arc)
<1>1. FreshMap(db, arc, map)
  BY LineMapIsNew DEF FreshMap
<1>2. /\ new.invoices = AddMissing(db.invoices, added)
      /\ new.linked = AddMissing(db.linked, Moved(arc.linked, links, map))
      /\ new.key = AddMissing(db.key, Moved(arc.key, links, map))
      /\ new.manual = AddMissing(db.manual, Unlinked(db, arc))
  BY DEF Merge
<1> HIDE DEF map, new
<1>3. /\ links \subseteq NewLines(db, arc)
      /\ \A p \in NewPeriods(db, arc) : LinesAt(arc, p) \subseteq NewLines(db, arc)
  BY DEF LinkedLines, NewLines, AdjustmentsOf, LinesAt
<1> HIDE DEF links
<1>4. ASSUME NEW p \in NewPeriods(db, arc)
      PROVE  /\ InvoiceShape(added[p])
             /\ DOMAIN added[p].adj = {map[l] : l \in LinesAt(arc, p)}
             /\ \A l \in LinesAt(arc, p) : added[p].adj[map[l]] = arc.invoices[p].adj[l]
  <2>1. InvoiceShape(arc.invoices[p])
    BY DEF NewPeriods, BooksOf
  <2>2. \A k, l \in DOMAIN arc.invoices[p].adj : map[k] = map[l] => k = l
    BY <1>1, <1>3 DEF FreshMap, LinesAt
  <2>3. QED
    BY <2>1, <2>2, ImportedFields DEF LinesAt
<1>5. /\ DOMAIN new.invoices = DOMAIN db.invoices \cup NewPeriods(db, arc)
      /\ \A p \in DOMAIN db.invoices : new.invoices[p] = db.invoices[p]
      /\ \A p \in NewPeriods(db, arc) :
            new.invoices[p] = added[p] /\ added[p] = Imported(arc.invoices[p], map)
  BY <1>2 DEF AddMissing, NewPeriods
<1> HIDE DEF added
<1>6. \A k, l \in links : map[k] = map[l] => k = l
  BY <1>1, <1>3 DEF FreshMap
<1>7. \A l \in links : map[l] \notin DOMAIN db.linked /\ map[l] \notin DOMAIN db.key
  BY <1>1, <1>3, FreshIds DEF KeysOf
<1>8. Joins(new.linked, db.linked, arc.linked, links, map)
  <2>1. \A l \in links : map[l] \notin DOMAIN db.linked
    BY <1>7
  <2>2. QED
    BY <1>2, <1>6, <2>1, AddMovedJoins
<1>9. Joins(new.key, db.key, arc.key, links, map)
  <2>1. \A l \in links : map[l] \notin DOMAIN db.key
    BY <1>7
  <2>2. QED
    BY <1>2, <1>6, <2>1, AddMovedJoins
<1>10. DOMAIN new.manual = DOMAIN db.manual \cup DOMAIN Unlinked(db, arc)
  BY <1>2 DEF AddMissing
<1>11. MergedBy(db, arc, new, map)
  BY <1>4, <1>5, <1>8, <1>9, <1>10 DEF MergedBy, NewPeriods, LinesAt, links
<1>12. QED
  BY <1>1, <1>11 DEF new

\* A merge whose ids stay within the bound keeps the books, and every expense with its line.
LEMMA MergeBooks ==
  ASSUME NEW db, BooksOf(db), NEW arc, BooksOf(arc), NEW new, NEW map,
         FreshMap(db, arc, map), MergedBy(db, arc, new, map), TopId(new) <= MaxLine
  PROVE  BooksOf(new)
<1>1. /\ DOMAIN new.invoices = DOMAIN db.invoices \cup DOMAIN arc.invoices
      /\ \A p \in DOMAIN db.invoices : new.invoices[p] = db.invoices[p]
      /\ \A p \in NewPeriods(db, arc) :
            /\ LinesAt(new, p) = {map[l] : l \in LinesAt(arc, p)}
            /\ \A l \in LinesAt(arc, p) : new.invoices[p].adj[map[l]] = arc.invoices[p].adj[l]
      /\ \A p \in DOMAIN new.invoices : p \in DOMAIN db.invoices \/ p \in NewPeriods(db, arc)
      /\ \A p \in DOMAIN db.invoices : LinesAt(new, p) = LinesAt(db, p)
  BY DEF MergedBy, NewPeriods, LinesAt
<1>2. \A p \in NewPeriods(db, arc) : p \in DOMAIN arc.invoices /\ p \notin DOMAIN db.invoices
  BY DEF NewPeriods
<1>3. \A p \in NewPeriods(db, arc) : \A l \in LinesAt(arc, p) : l \in NewLines(db, arc)
  BY DEF NewLines, AdjustmentsOf, LinesAt
<1>4. /\ \A l \in NewLines(db, arc) : \A p \in DOMAIN db.invoices : map[l] \notin LinesAt(db, p)
      /\ \A l \in NewLines(db, arc) : map[l] \notin DOMAIN db.linked
  BY FreshIds
<1>5. DOMAIN new.invoices \subseteq Periods
  BY <1>1 DEF BooksOf
<1>6. \A p \in DOMAIN new.invoices : InvoiceShape(new.invoices[p])
  BY <1>1 DEF BooksOf, MergedBy
<1>7. \A p, q \in DOMAIN new.invoices : \A l \in LinesAt(new, p) : l \in LinesAt(new, q) => p = q
  <2>1. \A p \in DOMAIN db.invoices, q \in NewPeriods(db, arc) : \A l \in LinesAt(new, q) :
            l \notin LinesAt(new, p)
    BY <1>1, <1>3, <1>4
  <2>2. \A p, q \in DOMAIN db.invoices : \A l \in LinesAt(new, p) : l \in LinesAt(new, q) => p = q
    BY <1>1 DEF BooksOf
  <2>3. ASSUME NEW p \in NewPeriods(db, arc), NEW q \in NewPeriods(db, arc),
               NEW k \in LinesAt(arc, p), NEW l \in LinesAt(arc, q), map[k] = map[l]
        PROVE  p = q
    <3>1. k = l
      BY <1>3, <2>3 DEF FreshMap
    <3>2. QED
      BY <1>2, <3>1 DEF BooksOf
  <2>4. \A p, q \in NewPeriods(db, arc) : \A l \in LinesAt(new, p) : l \in LinesAt(new, q) => p = q
    BY <1>1, <2>3
  <2>5. QED
    BY <1>1, <2>1, <2>2, <2>4
<1>8. \A p \in DOMAIN new.invoices : LinesAt(new, p) \subseteq LineIds
  <2> DEFINE ids == AdjustmentsOf(new, DOMAIN new.invoices)
  <2>1. MaxLine \in Nat
    BY BoundsAssumption
  <2>2. PICK N \in Nat : \A l \in NewLines(db, arc) : map[l] \in TopId(db) + 1 .. N
    BY DEF FreshMap
  <2>3. TopId(db) \in Nat
    BY <2>1, LinesAreAdjustments, TopIdIsTop DEF LineIds
  <2>4. PICK M \in Nat : N <= M /\ MaxLine <= M
    BY <2>1
  <2>5. \A p \in DOMAIN new.invoices : \A l \in LinesAt(new, p) : l \in 1 .. M
    <3>1. \A p \in NewPeriods(db, arc) : \A l \in LinesAt(new, p) : l \in 1 .. N
      BY <1>1, <1>3, <2>2, <2>3
    <3>2. \A p \in DOMAIN db.invoices : \A l \in LinesAt(new, p) : l \in 1 .. MaxLine
      BY <1>1 DEF BooksOf, LineIds
    <3>3. QED
      BY <1>1, <2>1, <2>4, <3>1, <3>2
  <2>6. ids \subseteq 1 .. M /\ \A p \in DOMAIN new.invoices : LinesAt(new, p) \subseteq ids
    BY <2>5 DEF AdjustmentsOf, LinesAt
  <2>7. TopId(new) \in 0 .. M /\ \A l \in ids : l <= TopId(new)
    BY <2>6, TopIdIsTop
  <2> HIDE DEF ids
  <2>8. \A l \in ids : l \in 1 .. MaxLine
    BY <2>1, <2>6, <2>7
  <2>9. QED
    BY <2>6, <2>8 DEF LineIds
<1>9. ASSUME NEW l \in DOMAIN new.linked
      PROVE  \E p \in DOMAIN new.invoices :
                /\ l \in LinesAt(new, p)
                /\ new.linked[l] = ExpenseFor(p, new.invoices[p].adj[l])
  <2>1. CASE l \in DOMAIN db.linked
    <3>1. PICK p \in DOMAIN db.invoices :
            /\ l \in LinesAt(db, p)
            /\ db.linked[l] = ExpenseFor(p, db.invoices[p].adj[l])
      BY <2>1 DEF BooksOf
    <3>2. new.linked[l] = db.linked[l]
      BY <2>1 DEF MergedBy, Joins
    <3>3. QED
      BY <1>1, <3>1, <3>2
  <2>2. CASE l \notin DOMAIN db.linked
    <3>1. PICK k \in LinkedLines(db, arc) : l = map[k]
      BY <2>2 DEF MergedBy, Joins, Ids
    <3>2. k \in DOMAIN arc.linked /\ k \in NewLines(db, arc)
      BY DEF LinkedLines
    <3>3. PICK p \in NewPeriods(db, arc) : k \in LinesAt(arc, p)
      BY <3>2 DEF NewLines, AdjustmentsOf, LinesAt
    <3>4. arc.linked[k] = ExpenseFor(p, arc.invoices[p].adj[k])
      BY <1>2, <3>2, <3>3 DEF BooksOf
    <3>5. new.linked[l] = arc.linked[k]
      BY <3>1 DEF MergedBy, Joins
    <3>6. l \in LinesAt(new, p) /\ new.invoices[p].adj[l] = arc.invoices[p].adj[k]
      BY <1>1, <3>1, <3>3
    <3>7. QED
      BY <1>1, <1>2, <3>4, <3>5, <3>6
  <2>3. QED
    BY <2>1, <2>2
<1>10. QED
  BY <1>5, <1>6, <1>7, <1>8, <1>9 DEF BooksOf

\* The keys after a merge are the database's and the archive's, each of one expense.
LEMMA MergeKeys ==
  ASSUME NEW db, BooksOf(db), KeysOf(db), NEW arc, KeysOf(arc), NEW new, NEW map,
         FreshMap(db, arc, map), MergedBy(db, arc, new, map)
  PROVE  /\ KeysOf(new)
         /\ ExpenseKeys(new) = ExpenseKeys(db) \cup ExpenseKeys(arc)
<1> DEFINE links == LinkedLines(db, arc)
           skipped == {l \in DOMAIN arc.linked \ NewLines(db, arc) :
                            arc.key[l] \notin ExpenseKeys(db)}
<1>1. /\ Joins(new.linked, db.linked, arc.linked, links, map)
      /\ Joins(new.key, db.key, arc.key, links, map)
      /\ DOMAIN new.manual = DOMAIN db.manual \cup DOMAIN Unlinked(db, arc)
  BY DEF MergedBy
<1>2. \A e : e \in DOMAIN Unlinked(db, arc) <=>
                \/ e \in DOMAIN arc.manual /\ e \notin ExpenseKeys(db)
                \/ \E l \in skipped : e = arc.key[l]
  BY DEF Unlinked
<1>3. /\ \A l \in links : l \in DOMAIN arc.key /\ arc.key[l] \notin ExpenseKeys(db)
      /\ \A l \in skipped : l \in DOMAIN arc.key /\ l \notin links /\ arc.key[l] \notin ExpenseKeys(db)
      /\ \A l \in DOMAIN arc.key :
            arc.key[l] \in ExpenseKeys(db) \/ l \in links \/ l \in skipped
  BY DEF LinkedLines, KeysOf
<1>4. \A k, l \in DOMAIN arc.key : arc.key[k] = arc.key[l] => k = l
  BY DEF KeysOf, IsInjective
<1>5. \A l \in DOMAIN arc.key : arc.key[l] \notin DOMAIN arc.manual
  BY DEF KeysOf, Range
<1>6. \A l \in DOMAIN db.key : db.key[l] \in ExpenseKeys(db) /\ db.key[l] \notin DOMAIN db.manual
  BY DEF KeysOf, ExpenseKeys, Range
<1>7. \A e \in DOMAIN db.manual : e \in ExpenseKeys(db)
  BY DEF ExpenseKeys
<1> HIDE DEF links, skipped
<1>8. DOMAIN new.key = DOMAIN new.linked
  BY <1>1 DEF Joins, KeysOf
<1>9. \A n \in DOMAIN new.key : \/ n \in DOMAIN db.key /\ new.key[n] = db.key[n]
                                \/ \E l \in links : n = map[l] /\ new.key[n] = arc.key[l]
  BY <1>1 DEF Joins, Ids
<1>10. IsInjective(new.key)
  <2>1. ASSUME NEW m \in DOMAIN new.key, NEW n \in DOMAIN new.key, new.key[m] = new.key[n]
        PROVE  m = n
    <3>1. CASE m \in DOMAIN db.key /\ new.key[m] = db.key[m]
               /\ n \in DOMAIN db.key /\ new.key[n] = db.key[n]
      BY <2>1, <3>1 DEF KeysOf, IsInjective
    <3>2. QED
      BY <1>3, <1>4, <1>6, <1>9, <2>1, <3>1
  <2>2. QED
    BY <2>1 DEF IsInjective
<1>11. \A n \in DOMAIN new.key : new.key[n] \notin DOMAIN new.manual
  BY <1>1, <1>2, <1>3, <1>4, <1>5, <1>6, <1>7, <1>9
<1>12. KeysOf(new)
  BY <1>8, <1>10, <1>11 DEF KeysOf, Range
<1>13. \A e \in ExpenseKeys(new) : e \in ExpenseKeys(db) \cup ExpenseKeys(arc)
  <2>1. \A l \in DOMAIN arc.key : arc.key[l] \in ExpenseKeys(arc)
    BY DEF ExpenseKeys, Range
  <2>2. \A n \in DOMAIN new.key : new.key[n] \in ExpenseKeys(db) \cup ExpenseKeys(arc)
    BY <1>3, <1>6, <1>9, <2>1
  <2>3. \A e \in DOMAIN new.manual : e \in ExpenseKeys(db) \cup ExpenseKeys(arc)
    BY <1>1, <1>2, <1>3, <1>7, <2>1 DEF ExpenseKeys
  <2>4. QED
    BY <2>2, <2>3 DEF ExpenseKeys, Range
<1>14. \A l \in DOMAIN db.key : db.key[l] \in ExpenseKeys(new)
  <2>1. \A l \in DOMAIN db.key : l \in DOMAIN new.key /\ new.key[l] = db.key[l]
    BY <1>1 DEF Joins
  <2>2. QED
    BY <2>1 DEF ExpenseKeys, Range
<1>15. \A e \in ExpenseKeys(db) : e \in ExpenseKeys(new)
  BY <1>1, <1>14 DEF ExpenseKeys, Range
<1>16. \A l \in DOMAIN arc.key : arc.key[l] \in ExpenseKeys(new)
  <2>1. \A l \in links : map[l] \in DOMAIN new.key /\ new.key[map[l]] = arc.key[l]
    BY <1>1 DEF Joins, Ids
  <2>2. \A l \in links : arc.key[l] \in ExpenseKeys(new)
    BY <2>1 DEF ExpenseKeys, Range
  <2>3. \A l \in skipped : arc.key[l] \in ExpenseKeys(new)
    BY <1>1, <1>2 DEF ExpenseKeys
  <2>4. QED
    BY <1>3, <1>15, <2>2, <2>3
<1>17. \A e \in DOMAIN arc.manual : e \in ExpenseKeys(new)
  BY <1>1, <1>2, <1>15 DEF ExpenseKeys
<1>18. QED
  BY <1>12, <1>13, <1>15, <1>16, <1>17 DEF ExpenseKeys, Range

-----------------------------------------------------------------------------
(* The archive is merged a second time.                                      *)

LEMMA AddNothing ==
  ASSUME NEW f, NEW g, NEW h, DOMAIN h \subseteq DOMAIN f \cup DOMAIN g
  PROVE  AddMissing(AddMissing(f, g), h) = AddMissing(f, g)
<1>1. DOMAIN AddMissing(f, g) = DOMAIN f \cup DOMAIN g
  BY DEF AddMissing
<1>2. AddMissing(f, g) = [x \in DOMAIN AddMissing(f, g) |-> AddMissing(f, g)[x]]
  BY DEF AddMissing
<1> DEFINE F == AddMissing(f, g)
<1> HIDE DEF F
<1>3. F = [x \in DOMAIN F |-> F[x]] /\ DOMAIN h \subseteq DOMAIN F
  BY <1>1, <1>2 DEF F
<1>4. AddMissing(F, h) = F
  BY <1>3 DEF AddMissing
<1>5. QED
  BY <1>4 DEF F

LEMMA MergeTwice ==
  ASSUME NEW db, BooksOf(db), KeysOf(db), NEW arc, BooksOf(arc), KeysOf(arc)
  PROVE  Merge(Merge(db, arc), arc) = Merge(db, arc)
<1> DEFINE new == Merge(db, arc)
           map == LineMap(new, arc)
           added == [p \in NewPeriods(new, arc) |-> Imported(arc.invoices[p], map)]
           movedLinks == Moved(arc.linked, LinkedLines(new, arc), map)
           movedKeys == Moved(arc.key, LinkedLines(new, arc), map)
           unlinked == Unlinked(new, arc)
<1>1. PICK first : FreshMap(db, arc, first) /\ MergedBy(db, arc, new, first)
  BY MergeIsMerged
<1>2. DOMAIN arc.dated \subseteq DOMAIN new.dated /\ DOMAIN arc.rates \subseteq DOMAIN new.rates
  BY DEF Merge, AddMissing
<1>3. Merge(new, arc) =
        [invoices |-> AddMissing(new.invoices, added),
         linked   |-> AddMissing(new.linked, movedLinks),
         key      |-> AddMissing(new.key, movedKeys),
         manual   |-> AddMissing(new.manual, unlinked),
         rates    |-> AddMissing(new.rates, arc.rates),
         dated    |-> AddMissing(new.dated, arc.dated)]
  BY DEF Merge
<1>4. \E f1, f2, f3, f4, f5, f6, g1, g2, g3, g4, g5, g6 :
        new = [invoices |-> AddMissing(f1, g1), linked |-> AddMissing(f2, g2),
               key |-> AddMissing(f3, g3), manual |-> AddMissing(f4, g4),
               dated |-> AddMissing(f5, g5), rates |-> AddMissing(f6, g6)]
  BY Zenon DEF Merge
<1> HIDE DEF new
<1>5. ExpenseKeys(arc) \subseteq ExpenseKeys(new)
  BY <1>1, MergeKeys
<1>6. NewPeriods(new, arc) = {}
  BY <1>1 DEF MergedBy, NewPeriods
<1>7. NewLines(new, arc) = {}
  BY <1>6 DEF NewLines, AdjustmentsOf
<1>8. LinkedLines(new, arc) = {}
  BY <1>7 DEF LinkedLines
<1>9. DOMAIN added = {} /\ DOMAIN movedLinks = {} /\ DOMAIN movedKeys = {}
  BY <1>6, <1>8 DEF Moved
<1>10. DOMAIN unlinked = {}
  <2>1. \A l \in DOMAIN arc.linked : arc.key[l] \in ExpenseKeys(new)
    BY <1>5 DEF KeysOf, ExpenseKeys, Range
  <2>2. \A e \in DOMAIN arc.manual : e \in ExpenseKeys(new)
    BY <1>5 DEF ExpenseKeys
  <2>3. QED
    BY <2>1, <2>2 DEF Unlinked
<1> HIDE DEF added, movedLinks, movedKeys, unlinked
<1>11. PICK f1, f2, f3, f4, f5, f6, g1, g2, g3, g4, g5, g6 :
        new = [invoices |-> AddMissing(f1, g1), linked |-> AddMissing(f2, g2),
               key |-> AddMissing(f3, g3), manual |-> AddMissing(f4, g4),
               dated |-> AddMissing(f5, g5), rates |-> AddMissing(f6, g6)]
  BY <1>4
<1>12. \A f, g, h : DOMAIN h \subseteq DOMAIN AddMissing(f, g) =>
            AddMissing(AddMissing(f, g), h) = AddMissing(f, g)
  <2>1. \A f, g : DOMAIN AddMissing(f, g) = DOMAIN f \cup DOMAIN g
    BY DEF AddMissing
  <2>2. QED
    BY <2>1, AddNothing
<1>13. /\ new.invoices = AddMissing(f1, g1) /\ new.linked = AddMissing(f2, g2)
       /\ new.key = AddMissing(f3, g3) /\ new.manual = AddMissing(f4, g4)
       /\ new.dated = AddMissing(f5, g5) /\ new.rates = AddMissing(f6, g6)
  BY <1>11
<1>14. /\ AddMissing(new.invoices, added) = new.invoices
       /\ AddMissing(new.linked, movedLinks) = new.linked
       /\ AddMissing(new.key, movedKeys) = new.key
       /\ AddMissing(new.manual, unlinked) = new.manual
       /\ AddMissing(new.dated, arc.dated) = new.dated
       /\ AddMissing(new.rates, arc.rates) = new.rates
  BY <1>2, <1>9, <1>10, <1>12, <1>13
<1>15. Merge(new, arc) = new
  BY <1>3, <1>11, <1>13, <1>14
<1>16. QED
  BY <1>15 DEF new

LEMMA NothingIsSound ==
  BooksOf(Nothing) /\ KeysOf(Nothing) /\ ExpenseKeys(Nothing) = {}
BY DEF Nothing, BooksOf, KeysOf, ExpenseKeys, LinesAt, IsInjective, Range

-----------------------------------------------------------------------------
(* The totals of imported invoices, whose lines have other ids.              *)

\* Its invoices have the totals of their parts.
TotalsOf(db) == \A p \in DOMAIN db.invoices : Current(db.invoices[p])

LEMMA ImportedAdjustments ==
  ASSUME NEW adj, PartialFunction(adj, LineIds, Amounts), NEW map,
         \A k, l \in DOMAIN adj : map[k] = map[l] => k = l,
         NEW new, DOMAIN new = {map[l] : l \in DOMAIN adj},
         \A l \in DOMAIN adj : new[map[l]] = adj[l]
  PROVE  Sum(new) = Sum(adj)
<1>1. IsFiniteSet(DOMAIN adj)
  BY LineIdsFinite DEF PartialFunction
<1>2. \A l \in DOMAIN adj : adj[l] \in Int
  BY DataAssumption DEF PartialFunction
<1>3. QED
  BY <1>1, <1>2, SumRenamed

\* Adjustments with the same sum leave the totals right.
LEMMA AdjustedCurrent ==
  ASSUME NEW inv, InvoiceShape(inv), Current(inv), NEW adj, Sum(adj) = Sum(inv.adj)
  PROVE  Current([inv EXCEPT !.adj = adj])
<1> DEFINE new == [inv EXCEPT !.adj = adj]
           lines == inv.lines
<1>1. IsRecord(inv)
  BY DEF InvoiceShape
<1>2. /\ new.lines = lines /\ new.rent = inv.rent /\ new.rate = inv.rate
      /\ new.adj = adj
  BY <1>1 DEF IsRecord
<1>3. Totalled(inv, Amended(inv)) = inv
  BY RecalculateTotals DEF Current
<1>4. Amended(inv) = lines
  BY <1>1, <1>3, TotalledFields
<1>5. Amended(new) = lines
  BY <1>2, <1>4 DEF Amended
<1> DEFINE rentUah == inv.rent * inv.rate
           utilities == Utilities(lines)
           adjustments == Sum(inv.adj)
           grand == rentUah + utilities + adjustments
<1>6. inv = [inv EXCEPT !.lines = lines, !.rentUah = rentUah, !.utilities = utilities,
                        !.adjustments = adjustments, !.grand = grand]
  BY <1>3, <1>4 DEF Totalled
<1>7. Totalled(new, lines) =
        [new EXCEPT !.lines = lines, !.rentUah = rentUah, !.utilities = utilities,
                    !.adjustments = adjustments, !.grand = grand]
  <2> HIDE DEF new, lines
  <2>1. QED
    BY <1>2 DEF Totalled
<1> HIDE DEF lines, rentUah, utilities, adjustments, grand
<1>8. [new EXCEPT !.lines = lines, !.rentUah = rentUah, !.utilities = utilities,
                  !.adjustments = adjustments, !.grand = grand] = new
  BY ONLY <1>1, <1>6 DEF IsRecord
<1> HIDE DEF new
<1>9. QED
  BY <1>5, <1>7, <1>8, RecalculateTotals DEF Current, new

LEMMA ImportedCurrent ==
  ASSUME NEW inv, InvoiceShape(inv), Current(inv),
         PartialFunction(inv.adj, LineIds, Amounts), NEW map,
         \A k, l \in DOMAIN inv.adj : map[k] = map[l] => k = l
  PROVE  Current(Imported(inv, map))
<1> DEFINE adj == [n \in {map[l] : l \in DOMAIN inv.adj} |->
                        inv.adj[CHOOSE l \in DOMAIN inv.adj : map[l] = n]]
<1>1. Imported(inv, map) = [inv EXCEPT !.adj = adj]
  BY DEF Imported
<1>2. ASSUME NEW l \in DOMAIN inv.adj
      PROVE  adj[map[l]] = inv.adj[l]
  <2>1. (CHOOSE k \in DOMAIN inv.adj : map[k] = map[l]) = l
    OBVIOUS
  <2>2. QED
    BY <2>1
<1>3. DOMAIN adj = {map[l] : l \in DOMAIN inv.adj}
  OBVIOUS
<1> HIDE DEF adj
<1>4. Sum(adj) = Sum(inv.adj)
  BY <1>2, <1>3, ImportedAdjustments
<1>5. QED
  BY <1>1, <1>4, AdjustedCurrent

-----------------------------------------------------------------------------
(* Types.                                                                    *)

\* TypeOK and the type of dated, of a database.
TypesOf(db) ==
    /\ \A p \in DOMAIN db.invoices : IsInvoice(db.invoices[p])
    /\ PartialFunction(db.linked, LineIds, Expenses)
    /\ PartialFunction(db.manual, Manual, Entered)
    /\ PartialFunction(db.rates, Days, Rates)
    /\ PartialFunction(db.dated, Dated, Prices)

\* A linked expense can be one without a line.
LEMMA LinkedIsSpent == Expenses \subseteq Entered
BY SpentAssumption, DataAssumption DEF Expenses, Entered

LEMMA MergeTypes ==
  ASSUME NEW db, BooksOf(db), TypesOf(db), NEW arc, BooksOf(arc), TypesOf(arc), KeysOf(arc),
         ExpenseKeys(arc) \subseteq Manual, NEW map, FreshMap(db, arc, map),
         MergedBy(db, arc, Merge(db, arc), map), BooksOf(Merge(db, arc))
  PROVE  TypesOf(Merge(db, arc))
<1> DEFINE new == Merge(db, arc)
           skipped == {l \in DOMAIN arc.linked \ NewLines(db, arc) :
                            arc.key[l] \notin ExpenseKeys(db)}
           unlinked == Unlinked(db, arc)
<1>1. /\ \E f : new.linked = AddMissing(db.linked, f)
      /\ new.manual = AddMissing(db.manual, unlinked)
      /\ new.rates = AddMissing(db.rates, arc.rates)
      /\ new.dated = AddMissing(db.dated, arc.dated)
  BY DEF Merge
<1> HIDE DEF new
<1>2. ASSUME NEW p \in NewPeriods(db, arc)
      PROVE  IsInvoice(new.invoices[p])
  <2> DEFINE inv == arc.invoices[p]
             adj == [n \in {map[l] : l \in DOMAIN inv.adj} |->
                        inv.adj[CHOOSE l \in DOMAIN inv.adj : map[l] = n]]
  <2>1. IsInvoice(inv)
    BY DEF TypesOf, NewPeriods
  <2>2. new.invoices[p] = [inv EXCEPT !.adj = adj]
    BY DEF MergedBy, Imported, new
  <2>3. \A n \in DOMAIN adj : adj[n] \in Amounts
    <3>1. \A l \in DOMAIN inv.adj : inv.adj[l] \in Amounts
      BY <2>1 DEF IsInvoice, PartialFunction
    <3>2. QED
      BY <3>1
  <2>4. DOMAIN adj \subseteq LineIds
    <3>1. DOMAIN adj = LinesAt(new, p)
      BY DEF MergedBy, LinesAt, new
    <3>2. p \in DOMAIN new.invoices
      BY DEF MergedBy, NewPeriods, new
    <3>3. QED
      BY <3>1, <3>2 DEF BooksOf, new
  <2>5. adj \in [DOMAIN adj -> Amounts]
    BY <2>3
  <2> HIDE DEF adj
  <2>6. PartialFunction(adj, LineIds, Amounts)
    BY <2>4, <2>5 DEF PartialFunction
  <2> HIDE DEF inv
  <2>7. IsInvoice([inv EXCEPT !.adj = adj])
    BY <2>1, <2>6, InvoiceWithType
  <2>8. QED
    BY <2>2, <2>7
<1>3. \A p \in DOMAIN new.invoices : IsInvoice(new.invoices[p])
  BY <1>2 DEF MergedBy, TypesOf, NewPeriods, new
<1>4. PartialFunction(new.linked, LineIds, Expenses)
  <2>1. DOMAIN new.linked \subseteq LineIds
    BY DEF BooksOf, new
  <2>2. Joins(new.linked, db.linked, arc.linked, LinkedLines(db, arc), map)
    BY DEF MergedBy, new
  <2>3. /\ \A l \in DOMAIN db.linked : db.linked[l] \in Expenses
        /\ \A l \in LinkedLines(db, arc) : arc.linked[l] \in Expenses
    BY DEF TypesOf, PartialFunction, LinkedLines
  <2>4. \A l \in DOMAIN new.linked : new.linked[l] \in Expenses
    BY <2>2, <2>3 DEF Joins, Ids
  <2>5. new.linked = [l \in DOMAIN new.linked |-> new.linked[l]]
    BY <1>1 DEF AddMissing
  <2>6. QED
    BY <2>1, <2>4, <2>5 DEF PartialFunction
<1>5. /\ DOMAIN unlinked \subseteq Manual
      /\ \A e \in DOMAIN unlinked : unlinked[e] \in Entered
  <2>1. /\ \A e \in DOMAIN arc.manual : /\ e \in Manual
                                        /\ arc.manual[e] \in Entered
        /\ \A l \in DOMAIN arc.linked : arc.linked[l] \in Entered
    BY LinkedIsSpent DEF TypesOf, PartialFunction
  <2>2. \A l \in DOMAIN arc.linked : arc.key[l] \in Manual
    BY DEF KeysOf, ExpenseKeys, Range
  <2>3. unlinked = [e \in (DOMAIN arc.manual \ ExpenseKeys(db)) \cup {arc.key[l] : l \in skipped} |->
                        IF e \in DOMAIN arc.manual THEN arc.manual[e]
                        ELSE arc.linked[CHOOSE l \in skipped : arc.key[l] = e]]
    BY DEF Unlinked
  <2>4. DOMAIN unlinked \subseteq Manual
    BY <2>1, <2>2, <2>3
  <2>5. ASSUME NEW e \in DOMAIN unlinked
        PROVE  unlinked[e] \in Entered
    <3>1. CASE e \in DOMAIN arc.manual
      BY <2>1, <2>3, <3>1
    <3>2. CASE e \notin DOMAIN arc.manual
      <4>1. \E l \in skipped : arc.key[l] = e
        BY <2>3, <3>2
      <4>2. (CHOOSE l \in skipped : arc.key[l] = e) \in DOMAIN arc.linked
        BY <4>1
      <4>3. QED
        BY <2>1, <2>3, <3>2, <4>2
    <3>3. QED
      BY <3>1, <3>2
  <2>6. QED
    BY <2>4, <2>5
<1> HIDE DEF unlinked
<1>6. PartialFunction(new.manual, Manual, Entered)
  <2>1. /\ DOMAIN db.manual \subseteq Manual
        /\ \A e \in DOMAIN db.manual : db.manual[e] \in Entered
    BY DEF TypesOf, PartialFunction
  <2>2. QED
    BY <1>1, <1>5, <2>1 DEF AddMissing, PartialFunction
<1>7. PartialFunction(new.rates, Days, Rates) /\ PartialFunction(new.dated, Dated, Prices)
  BY <1>1 DEF AddMissing, TypesOf, PartialFunction
<1>8. QED
  BY <1>3, <1>4, <1>6, <1>7 DEF TypesOf, new

LEMMA MergeTotals ==
  ASSUME NEW db, TotalsOf(db), NEW arc, TotalsOf(arc), BooksOf(arc), TypesOf(arc),
         NEW new, NEW map, FreshMap(db, arc, map), MergedBy(db, arc, new, map)
  PROVE  TotalsOf(new)
<1>1. ASSUME NEW p \in NewPeriods(db, arc)
      PROVE  Current(new.invoices[p])
  <2> DEFINE inv == arc.invoices[p]
  <2>1. /\ InvoiceShape(inv) /\ Current(inv) /\ PartialFunction(inv.adj, LineIds, Amounts)
        /\ new.invoices[p] = Imported(inv, map)
    BY DEF BooksOf, TotalsOf, TypesOf, IsInvoice, NewPeriods, MergedBy
  <2>2. \A k, l \in DOMAIN inv.adj : map[k] = map[l] => k = l
    BY DEF FreshMap, NewLines, AdjustmentsOf
  <2> HIDE DEF inv
  <2>3. QED
    BY <2>1, <2>2, ImportedCurrent
<1>2. QED
  BY <1>1 DEF TotalsOf, MergedBy, NewPeriods

-----------------------------------------------------------------------------
(* The report of a database restored from an archive alone.                  *)

LEMMA SumAt ==
  ASSUME NEW db, NEW f
  PROVE  At(db)!Sum(f) = Sum(f)
<1>1. At(db)!Sum(f) = AllSums(f)[DOMAIN f]
  BY DEF At!Sum, At!FoldFunction, At!FoldFunctionOnSet, At!MapThenFoldSet,
         AllSums, Sums, First
<1>2. QED
  BY <1>1, SumIsOfAll

\* What the report makes of the expenses entered by hand, in a database.
PaidAt(db, m) ==
    LET own == At(db)!OwnExpenses(m)
    IN  [e \in {e \in DOMAIN own : At(db)!Converts(own[e])} |-> At(db)!InUah(own[e])]

LEMMA PaidAlike ==
  ASSUME NEW db, NEW arc, NEW m,
         DOMAIN db.manual = DOMAIN arc.manual,
         \A e \in DOMAIN arc.manual : db.manual[e] = arc.manual[e],
         \A e \in DOMAIN arc.manual : arc.manual[e] \in Entered,
         DOMAIN db.rates = DOMAIN arc.rates,
         \A day \in DOMAIN arc.rates : db.rates[day] = arc.rates[day]
  PROVE  PaidAt(db, m) = PaidAt(arc, m)
<1> DEFINE own == At(arc)!OwnExpenses(m)
<1>1. At(db)!OwnExpenses(m) = own
  BY DEF At!OwnExpenses, At!Restrict, Restrict
<1>2. \A date : At(db)!UpTo(date) = At(arc)!UpTo(date)
  BY DEF At!UpTo
<1>3. \A date : At(db)!HasRate(date) <=> At(arc)!HasRate(date)
  BY <1>2 DEF At!HasRate
<1>4. \A x : At(db)!Converts(x) <=> At(arc)!Converts(x)
  BY <1>3 DEF At!Converts
<1>5. ASSUME NEW date \in Days, At(arc)!HasRate(date)
      PROVE  At(db)!StoredRate(date) = At(arc)!StoredRate(date)
  <2> DEFINE past == At(arc)!UpTo(date)
             last == CHOOSE c \in past : \A other \in past : other <= c
  <2>1. date \in Nat /\ past \subseteq 1 .. date /\ past # {} /\ past \subseteq DOMAIN arc.rates
    BY <1>5 DEF Days, At!UpTo, At!HasRate
  <2>2. \E c \in past : \A other \in past : other <= c
    <3> HIDE DEF past
    <3>1. QED
      BY <2>1, LargestExists
  <2>3. last \in past
    BY <2>2
  <2>4. At(arc)!StoredRate(date) = arc.rates[last]
    BY DEF At!StoredRate
  <2>5. At(db)!StoredRate(date) = db.rates[last]
    <3>1. At(db)!UpTo(date) = past
      BY <1>2
    <3> HIDE DEF past
    <3>2. QED
      BY Zenon, <3>1 DEF At!StoredRate
  <2> HIDE DEF past, last
  <2>6. QED
    BY <2>1, <2>3, <2>4, <2>5
<1>6. \A e \in DOMAIN own : own[e] \in Entered
  BY DEF At!OwnExpenses, At!Restrict
<1> HIDE DEF own
<1>7. ASSUME NEW e \in DOMAIN own, At(arc)!Converts(own[e])
      PROVE  At(db)!InUah(own[e]) = At(arc)!InUah(own[e])
  <2>1. own[e].date \in Days
    BY <1>6 DEF Entered
  <2>2. CASE own[e].currency = "UAH"
    BY <2>2 DEF At!InUah
  <2>3. CASE own[e].currency # "UAH"
    <3>1. At(arc)!HasRate(own[e].date)
      BY <1>7, <2>3 DEF At!Converts
    <3>2. At(db)!StoredRate(own[e].date) = At(arc)!StoredRate(own[e].date)
      BY <1>5, <2>1, <3>1
    <3>3. QED
      BY <2>3, <3>2 DEF At!InUah
  <2>4. QED
    BY <2>2, <2>3
<1> DEFINE counted == {e \in DOMAIN own : At(arc)!Converts(own[e])}
<1>8. PaidAt(arc, m) = [e \in counted |-> At(arc)!InUah(own[e])]
  BY DEF PaidAt, own
<1>9. PaidAt(db, m) = [e \in counted |-> At(db)!InUah(own[e])]
  <2>1. PaidAt(db, m) = [e \in {e \in DOMAIN own : At(db)!Converts(own[e])} |-> At(db)!InUah(own[e])]
    BY <1>1 DEF PaidAt
  <2>2. {e \in DOMAIN own : At(db)!Converts(own[e])} = counted
    BY <1>4
  <2>3. QED
    BY <2>1, <2>2
<1>10. \A e \in counted : At(db)!InUah(own[e]) = At(arc)!InUah(own[e])
  BY <1>7
<1>11. QED
  BY <1>8, <1>9, <1>10

LEMMA RestoredReport ==
  ASSUME NEW arc, BooksOf(arc), KeysOf(arc), TypesOf(arc), NEW d
  PROVE  At(Merge(Nothing, arc))!Pnl(d) = At(arc)!Pnl(d)
<1> DEFINE new == Merge(Nothing, arc)
           lines == At(arc)!CountedLines(d)
           amounts == [l \in lines |-> arc.linked[l].amount]
           newLines == At(new)!CountedLines(d)
           newAmounts == [l \in newLines |-> new.linked[l].amount]
<1>1. BooksOf(Nothing) /\ KeysOf(Nothing) /\ ExpenseKeys(Nothing) = {}
  BY NothingIsSound
<1>2. PICK map : FreshMap(Nothing, arc, map) /\ MergedBy(Nothing, arc, new, map)
  BY <1>1, MergeIsMerged
<1>3. /\ new.manual = AddMissing(Nothing.manual, Unlinked(Nothing, arc))
      /\ new.rates = AddMissing(Nothing.rates, arc.rates)
  BY DEF Merge
<1> HIDE DEF new
<1>4. NewPeriods(Nothing, arc) = DOMAIN arc.invoices
  BY DEF NewPeriods, Nothing
<1>5. /\ \A p \in DOMAIN arc.invoices : LinesAt(arc, p) \subseteq NewLines(Nothing, arc)
      /\ DOMAIN arc.linked \subseteq NewLines(Nothing, arc)
  <2>1. \A p \in DOMAIN arc.invoices : LinesAt(arc, p) \subseteq NewLines(Nothing, arc)
    BY <1>4 DEF NewLines, AdjustmentsOf, LinesAt
  <2>2. \A l \in DOMAIN arc.linked : \E p \in DOMAIN arc.invoices : l \in LinesAt(arc, p)
    BY DEF BooksOf
  <2>3. QED
    BY <2>1, <2>2
<1>6. LinkedLines(Nothing, arc) = DOMAIN arc.linked
  BY <1>1, <1>5 DEF LinkedLines
<1>7. /\ DOMAIN new.linked = Ids(map, DOMAIN arc.linked)
      /\ \A l \in DOMAIN arc.linked : new.linked[map[l]] = arc.linked[l]
  BY <1>2, <1>6 DEF MergedBy, Joins, Nothing
<1>8. /\ DOMAIN new.invoices = DOMAIN arc.invoices
      /\ \A p \in DOMAIN arc.invoices :
            /\ new.invoices[p].status = arc.invoices[p].status
            /\ new.invoices[p].rentUah = arc.invoices[p].rentUah
            /\ \A l \in NewLines(Nothing, arc) :
                map[l] \in LinesAt(new, p) <=> l \in LinesAt(arc, p)
  <2>1. DOMAIN new.invoices = DOMAIN arc.invoices
    BY <1>2 DEF MergedBy, Nothing
  <2>2. ASSUME NEW p \in DOMAIN arc.invoices
        PROVE  /\ new.invoices[p].status = arc.invoices[p].status
               /\ new.invoices[p].rentUah = arc.invoices[p].rentUah
               /\ LinesAt(new, p) = {map[l] : l \in LinesAt(arc, p)}
    <3>1. \A k, l \in DOMAIN arc.invoices[p].adj : map[k] = map[l] => k = l
      BY <1>2, <1>5 DEF FreshMap, LinesAt
    <3>2. InvoiceShape(arc.invoices[p])
      BY DEF BooksOf
    <3>3. new.invoices[p] = Imported(arc.invoices[p], map)
      BY <1>2, <1>4 DEF MergedBy
    <3>4. LinesAt(new, p) = {map[l] : l \in LinesAt(arc, p)}
      BY <1>2, <1>4 DEF MergedBy
    <3>5. QED
      BY <3>1, <3>2, <3>3, <3>4, ImportedFields
  <2>3. \A k, l \in NewLines(Nothing, arc) : map[k] = map[l] => k = l
    BY <1>2 DEF FreshMap
  <2>4. QED
    BY <1>5, <2>1, <2>2, <2>3
<1>9. At(new)!Income(d) = At(arc)!Income(d)
  BY <1>8 DEF At!Income, At!Counted, At!Status
<1>10. \A p : At(new)!Counted(p) <=> At(arc)!Counted(p)
  BY <1>8 DEF At!Counted, At!Status
<1>11. \A l \in DOMAIN arc.linked : map[l] \in newLines <=> l \in lines
  BY <1>5, <1>7, <1>8, <1>10 DEF At!CountedLines, At!Counted, At!LinesOf, LinesAt, Ids
<1>12. /\ lines \subseteq DOMAIN arc.linked
       /\ newLines = {map[l] : l \in lines}
  <2>1. lines \subseteq DOMAIN arc.linked /\ newLines \subseteq DOMAIN new.linked
    BY DEF At!CountedLines
  <2> HIDE DEF lines, newLines
  <2>2. QED
    BY <1>7, <1>11, <2>1 DEF Ids
<1> HIDE DEF lines, newLines
<1>13. Sum(newAmounts) = Sum(amounts)
  <2>1. IsFiniteSet(DOMAIN amounts)
    BY <1>12, LineIdsFinite DEF TypesOf, PartialFunction
  <2>2. \A l \in DOMAIN amounts : amounts[l] \in Int
    BY <1>12 DEF TypesOf, PartialFunction, Expenses
  <2>3. \A k, l \in DOMAIN amounts : map[k] = map[l] => k = l
    BY <1>2, <1>5, <1>12 DEF FreshMap
  <2>4. DOMAIN newAmounts = {map[l] : l \in DOMAIN amounts}
    BY <1>12
  <2>5. \A l \in DOMAIN amounts : newAmounts[map[l]] = amounts[l]
    BY <1>7, <1>12
  <2> HIDE DEF amounts, newAmounts
  <2>6. QED
    BY <2>1, <2>2, <2>3, <2>4, <2>5, SumRenamed
<1>14. /\ DOMAIN new.manual = DOMAIN arc.manual
       /\ \A e \in DOMAIN arc.manual : new.manual[e] = arc.manual[e]
  <2>1. {l \in DOMAIN arc.linked \ NewLines(Nothing, arc) :
            arc.key[l] \notin ExpenseKeys(Nothing)} = {}
    BY <1>5
  <2>2. /\ DOMAIN Unlinked(Nothing, arc) = DOMAIN arc.manual
        /\ \A e \in DOMAIN arc.manual : Unlinked(Nothing, arc)[e] = arc.manual[e]
    BY <1>1, <2>1 DEF Unlinked
  <2>3. QED
    BY <1>3, <2>2 DEF AddMissing, Nothing
<1> DEFINE paid == PaidAt(arc, d)
           newPaid == PaidAt(new, d)
<1>15. newPaid = paid
  <2>1. /\ DOMAIN new.rates = DOMAIN arc.rates
        /\ \A day \in DOMAIN arc.rates : new.rates[day] = arc.rates[day]
    BY <1>3 DEF AddMissing, Nothing
  <2>2. \A e \in DOMAIN arc.manual : arc.manual[e] \in Entered
    BY DEF TypesOf, PartialFunction
  <2>3. QED
    BY <1>14, <2>1, <2>2, PaidAlike
<1>16. At(new)!ExpensesOf(d) = Sum(newAmounts) + Sum(newPaid)
  <2>1. At(new)!Sum(newAmounts) = Sum(newAmounts) /\ At(new)!Sum(newPaid) = Sum(newPaid)
    BY SumAt
  <2>2. At(new)!ExpensesOf(d) = At(new)!Sum(newAmounts) + At(new)!Sum(newPaid)
    BY Zenon DEF At!ExpensesOf, newAmounts, newLines, PaidAt, newPaid
  <2>3. QED
    BY <2>1, <2>2
<1>17. At(arc)!ExpensesOf(d) = Sum(amounts) + Sum(paid)
  <2>1. At(arc)!Sum(amounts) = Sum(amounts) /\ At(arc)!Sum(paid) = Sum(paid)
    BY SumAt
  <2>2. At(arc)!ExpensesOf(d) = At(arc)!Sum(amounts) + At(arc)!Sum(paid)
    BY Zenon DEF At!ExpensesOf, amounts, lines, PaidAt, paid
  <2>3. QED
    BY <2>1, <2>2
<1> HIDE DEF amounts, newAmounts, paid, newPaid
<1>18. At(new)!ExpensesOf(d) = At(arc)!ExpensesOf(d)
  BY <1>13, <1>15, <1>16, <1>17
<1>19. At(new)!Pnl(d) = At(arc)!Pnl(d)
  BY <1>9, <1>18 DEF At!Pnl
<1>20. QED
  BY <1>19 DEF new

-----------------------------------------------------------------------------
(* The steps.                                                                *)

\* A handler changes the expenses of lines or those entered by hand, never both.
LEMMA OneKindOfExpense ==
  ASSUME Next
  PROVE  linked' = linked \/ manual' = manual
BY DEF Next, CreateDraft, Update, UpdateReadings, UpdateAdjustments, DeleteDraft, Transition,
       Issue, RevertToDraft, MarkPaid, UnmarkPaid, DeleteExpense, PutExpense, FetchRate

LEMMA OwnerStepKeys ==
  ASSUME KeysOf(contents), ExpenseKeys(contents) \subseteq drawn, drawn \subseteq Manual,
         DOMAIN manual' \subseteq DOMAIN manual \cup Manual, OwnerStep
  PROVE  /\ KeysOf(contents') /\ ExpenseKeys(contents') \subseteq drawn'
         /\ drawn \subseteq drawn' /\ drawn' \subseteq Manual
<1> DEFINE new == DOMAIN linked' \ DOMAIN linked
<1>1. PICK fresh \in [new -> Manual \ drawn] :
        /\ IsInjective(fresh)
        /\ key' = [l \in DOMAIN linked' |-> IF l \in new THEN fresh[l] ELSE key[l]]
        /\ drawn' = drawn \cup Range(fresh) \cup DOMAIN manual'
  BY DEF OwnerStep
<1>2. (DOMAIN manual' \ DOMAIN manual) \cap drawn = {}
  BY DEF OwnerStep
<1>3. linked' = linked \/ manual' = manual
  BY OneKindOfExpense DEF OwnerStep
<1>4. /\ DOMAIN key = DOMAIN linked
      /\ \A k, l \in DOMAIN key : key[k] = key[l] => k = l
      /\ \A l \in DOMAIN key : key[l] \in drawn /\ key[l] \notin DOMAIN manual
      /\ DOMAIN manual \subseteq drawn
  BY DEF contents, KeysOf, ExpenseKeys, IsInjective, Range
<1>5. /\ \A l \in new : fresh[l] \in Manual /\ fresh[l] \notin drawn /\ fresh[l] \in drawn'
      /\ \A k, l \in new : fresh[k] = fresh[l] => k = l
  BY <1>1 DEF IsInjective, Range
<1>6. \A l \in DOMAIN key' : \/ l \in new /\ key'[l] = fresh[l]
                             \/ l \in DOMAIN key /\ key'[l] = key[l]
  BY <1>1, <1>4
<1>7. DOMAIN key' = DOMAIN linked'
  BY <1>1
<1>8. new # {} => manual' = manual
  BY <1>3
<1>9. \A l \in DOMAIN key' : key'[l] \in drawn' /\ key'[l] \notin DOMAIN manual'
  <2>1. \A l \in new : fresh[l] \notin DOMAIN manual'
    BY <1>4, <1>5, <1>8
  <2>2. \A l \in DOMAIN key : key[l] \notin DOMAIN manual'
    BY <1>2, <1>4
  <2>3. QED
    BY <1>1, <1>4, <1>5, <1>6, <2>1, <2>2
<1>10. \A k, l \in DOMAIN key' : key'[k] = key'[l] => k = l
  BY <1>4, <1>5, <1>6
<1>11. drawn \subseteq drawn' /\ DOMAIN manual' \subseteq drawn'
  BY <1>1
<1>12. drawn' \subseteq Manual
  BY <1>1, <1>4, <1>5 DEF Range
<1>13. QED
  BY <1>7, <1>9, <1>10, <1>11, <1>12 DEF contents, KeysOf, ExpenseKeys, IsInjective, Range

\* Expenses entered by hand are members of Manual.
LEMMA NextManual ==
  ASSUME Next
  PROVE  DOMAIN manual' \subseteq DOMAIN manual \cup Manual
BY DEF Next, CreateDraft, Update, UpdateReadings, UpdateAdjustments, DeleteDraft, Transition,
       Issue, RevertToDraft, MarkPaid, UnmarkPaid, DeleteExpense, PutExpense, FetchRate, Put,
       Restrict

LEMMA OwnerStepCInv ==
  ASSUME CInv, OwnerStep
  PROVE  CInv'
<1>1. BooksOf(contents) /\ KeysOf(contents) /\ ExpenseKeys(contents) \subseteq drawn
  BY DEF CInv
<1>2. Next /\ archives' = archives
  BY DEF OwnerStep
<1>3. BooksOf(contents')
  BY <1>1, <1>2, BooksSame, BooksSameNext, NextBooks
<1>4. /\ KeysOf(contents') /\ ExpenseKeys(contents') \subseteq drawn'
      /\ drawn \subseteq drawn' /\ drawn' \subseteq Manual
  BY <1>1, <1>2, NextManual, OwnerStepKeys DEF CInv
<1>5. key' = [l \in DOMAIN key' |-> key'[l]]
  BY DEF OwnerStep
<1>6. QED
  BY <1>2, <1>3, <1>4, <1>5 DEF CInv

LEMMA RestoreMerges ==
  ASSUME NEW arc, Restore(arc)
  PROVE  /\ contents' = Merge(contents, arc) /\ TopId(contents') <= MaxLine
         /\ drawn' = drawn /\ archives' = archives
<1> DEFINE db == Merge(contents, arc)
<1>1. /\ TopId(db) <= MaxLine
      /\ invoices' = db.invoices /\ linked' = db.linked /\ key' = db.key
      /\ manual' = db.manual /\ rates' = db.rates /\ dated' = db.dated
      /\ drawn' = drawn /\ archives' = archives
  BY DEF Restore
<1>2. db = [invoices |-> db.invoices, linked |-> db.linked, manual |-> db.manual,
            key |-> db.key, rates |-> db.rates, dated |-> db.dated]
  BY DEF Merge
<1> HIDE DEF db
<1>3. contents' = db
  BY <1>1, <1>2 DEF contents
<1>4. QED
  BY <1>1, <1>3 DEF db

LEMMA RestoreCInv ==
  ASSUME CInv, NEW arc \in archives, Restore(arc)
  PROVE  CInv'
<1> DEFINE db == contents
           new == Merge(db, arc)
<1>1. /\ BooksOf(db) /\ KeysOf(db) /\ ExpenseKeys(db) \subseteq drawn
      /\ BooksOf(arc) /\ KeysOf(arc) /\ ExpenseKeys(arc) \subseteq drawn
  BY DEF CInv
<1>2. contents' = new /\ TopId(contents') <= MaxLine /\ drawn' = drawn /\ archives' = archives
  BY RestoreMerges
<1> HIDE DEF db, new
<1>3. PICK map : FreshMap(db, arc, map) /\ MergedBy(db, arc, new, map)
  BY <1>1, MergeIsMerged DEF new
<1>4. BooksOf(new)
  BY <1>1, <1>2, <1>3, MergeBooks
<1>5. KeysOf(new) /\ ExpenseKeys(new) \subseteq drawn
  BY <1>1, <1>3, MergeKeys
<1>6. key' = [l \in DOMAIN key' |-> key'[l]]
  BY DEF Restore, Merge, AddMissing
<1>7. QED
  BY <1>1, <1>2, <1>4, <1>5, <1>6 DEF CInv

LEMMA InitCInv ==
  ASSUME ContentsInit
  PROVE  CInv
<1>1. /\ contents = Nothing /\ archives = {} /\ drawn = {}
      /\ key = [l \in DOMAIN key |-> key[l]]
  BY DEF ContentsInit, Init, contents, Nothing
<1>2. QED
  BY <1>1, NothingIsSound DEF CInv

LEMMA NextCInv ==
  ASSUME CInv, [ContentsNext]_contentsVars
  PROVE  CInv'
<1>1. CASE OwnerStep
  BY <1>1, OwnerStepCInv
<1>2. ASSUME NEW d \in Dated, NEW v \in Prices, StoreDated(d, v)
      PROVE  CInv'
  <2>1. /\ drawn' = drawn /\ archives' = archives /\ key' = key
        /\ contents'.invoices = contents.invoices /\ contents'.linked = contents.linked
        /\ contents'.manual = contents.manual /\ contents'.key = contents.key
    BY <1>2 DEF StoreDated, vars, contents
  <2>2. BooksOf(contents') /\ KeysOf(contents') /\ ExpenseKeys(contents') \subseteq drawn
    BY <2>1 DEF CInv, BooksOf, KeysOf, ExpenseKeys, LinesAt
  <2>3. QED
    BY <2>1, <2>2 DEF CInv
<1>3. CASE Backup
  <2>1. /\ contents' = contents /\ drawn' = drawn /\ archives' = archives \cup {contents}
        /\ key' = key
    BY <1>3 DEF Backup, vars, contents
  <2>2. QED
    BY <2>1 DEF CInv
<1>4. CASE Reinstall
  <2>1. /\ contents' = Nothing /\ drawn' = drawn /\ archives' = archives
        /\ key' = [l \in DOMAIN key' |-> key'[l]]
    BY <1>4 DEF Reinstall, contents, Nothing
  <2>2. QED
    BY <2>1, NothingIsSound DEF CInv
<1>5. ASSUME NEW arc \in archives, Restore(arc)
      PROVE  CInv'
  BY <1>5, RestoreCInv
<1>6. CASE UNCHANGED contentsVars
  <2>1. contents' = contents /\ drawn' = drawn /\ archives' = archives /\ key' = key
    BY <1>6 DEF contentsVars, vars, contents
  <2>2. QED
    BY <2>1 DEF CInv
<1>7. QED
  BY <1>1, <1>2, <1>3, <1>4, <1>5, <1>6 DEF ContentsNext

-----------------------------------------------------------------------------
(* Types and totals, of the database and of every archive.                   *)

\* An archive may be restored at any time: what holds of the contents holds of each.
DataInv ==
    /\ CInv
    /\ \A db \in archives \cup {contents} : TypesOf(db) /\ TotalsOf(db)
    /\ IsFiniteSet(archives) /\ Cardinality(archives) <= MaxArchives
    /\ work \in Works

LEMMA TypesSame ==
  ASSUME BooksOf(contents)
  PROVE  TypesOf(contents) <=> TypeOK /\ PartialFunction(dated, Dated, Prices)
BY DEF BooksOf, TypesOf, TypeOK, contents

LEMMA TypesSameNext ==
  ASSUME BooksOf(contents')
  PROVE  TypesOf(contents') <=> TypeOK' /\ PartialFunction(dated', Dated, Prices)
BY DEF BooksOf, TypesOf, TypeOK, contents

LEMMA TotalsSame ==
  /\ TotalsOf(contents) <=> TotalsCurrent
  /\ TotalsOf(contents') <=> TotalsCurrent'
BY DEF TotalsOf, TotalsCurrent, Current, contents

LEMMA NothingIsTyped == TypesOf(Nothing) /\ TotalsOf(Nothing)
BY DEF Nothing, TypesOf, TotalsOf, PartialFunction

LEMMA OwnerStepData ==
  ASSUME DataInv, OwnerStep, CInv'
  PROVE  TypesOf(contents') /\ TotalsOf(contents')
<1>1. /\ BooksOf(contents) /\ BooksOf(contents')
      /\ TypesOf(contents) /\ TotalsOf(contents)
  BY DEF DataInv, CInv
<1>2. Next /\ dated' = dated
  BY DEF OwnerStep
<1>3. TypeOK /\ PartialFunction(dated, Dated, Prices) /\ TotalsCurrent
  BY <1>1, TypesSame, TotalsSame
<1>4. Shape /\ LinesOK
  BY <1>1, BooksSame DEF Books
<1>5. TypeOK' /\ TotalsCurrent'
  BY <1>2, <1>3, <1>4, NextType, NextTotals
<1>6. QED
  BY <1>1, <1>2, <1>3, <1>5, TypesSameNext, TotalsSame

LEMMA RestoreData ==
  ASSUME DataInv, NEW arc \in archives, Restore(arc), CInv'
  PROVE  TypesOf(contents') /\ TotalsOf(contents')
<1> DEFINE db == contents
           new == Merge(db, arc)
<1>1. /\ BooksOf(db) /\ KeysOf(db) /\ TypesOf(db) /\ TotalsOf(db)
      /\ BooksOf(arc) /\ KeysOf(arc) /\ TypesOf(arc) /\ TotalsOf(arc)
      /\ ExpenseKeys(arc) \subseteq Manual
  BY DEF DataInv, CInv
<1>2. contents' = new
  BY RestoreMerges
<1>3. BooksOf(new)
  BY <1>2 DEF CInv
<1> HIDE DEF db
<1>4. PICK map : FreshMap(db, arc, map) /\ MergedBy(db, arc, new, map)
  BY <1>1, MergeIsMerged
<1>5. TypesOf(new)
  BY <1>1, <1>3, <1>4, MergeTypes
<1> HIDE DEF new
<1>6. TotalsOf(new)
  BY <1>1, <1>4, MergeTotals
<1>7. QED
  BY <1>2, <1>5, <1>6

LEMMA InitDataInv ==
  ASSUME ContentsInit
  PROVE  DataInv
<1>1. contents = Nothing /\ archives = {} /\ work \in Works
  BY DEF ContentsInit, Init, contents, Nothing
<1>2. IsFiniteSet({}) /\ Cardinality({}) = 0
  BY FS_EmptySet
<1>3. 0 <= MaxArchives
  BY WorksAssumption
<1>4. QED
  BY <1>1, <1>2, <1>3, InitCInv, NothingIsTyped DEF DataInv

LEMMA NextDataInv ==
  ASSUME DataInv, [ContentsNext]_contentsVars
  PROVE  DataInv'
<1>1. CInv'
  BY NextCInv DEF DataInv
<1>2. CASE OwnerStep
  <2>1. archives' = archives /\ work' = work
    BY <1>2 DEF OwnerStep
  <2>2. QED
    BY <1>1, <1>2, <2>1, OwnerStepData DEF DataInv
<1>3. ASSUME NEW d \in Dated, NEW v \in Prices, StoreDated(d, v)
      PROVE  DataInv'
  <2>1. /\ archives' = archives /\ work' = work /\ dated' = Put(dated, d, v)
        /\ contents'.invoices = contents.invoices /\ contents'.linked = contents.linked
        /\ contents'.manual = contents.manual /\ contents.dated = dated
        /\ contents'.dated = dated' /\ contents'.rates = contents.rates
    BY <1>3 DEF StoreDated, vars, contents
  <2>2. PartialFunction(dated, Dated, Prices)
    BY <2>1 DEF DataInv, TypesOf
  <2>3. PartialFunction(dated', Dated, Prices)
    BY <2>1, <2>2 DEF Put, PartialFunction
  <2>4. TypesOf(contents') /\ TotalsOf(contents')
    BY <2>1, <2>3 DEF DataInv, TypesOf, TotalsOf
  <2>5. QED
    BY <1>1, <2>1, <2>4 DEF DataInv
<1>4. CASE Backup
  <2>1. /\ contents' = contents /\ archives' = archives \cup {contents} /\ work' = work
        /\ Cardinality(archives) < MaxArchives
    BY <1>4 DEF Backup, vars, contents
  <2>2. IsFiniteSet(archives') /\ Cardinality(archives') <= MaxArchives
    <3>1. IsFiniteSet(archives) /\ Cardinality(archives) \in Nat
      BY FS_CardinalityType DEF DataInv
    <3>2. /\ IsFiniteSet(archives \cup {contents})
          /\ \/ Cardinality(archives \cup {contents}) = Cardinality(archives)
             \/ Cardinality(archives \cup {contents}) = Cardinality(archives) + 1
      BY <3>1, FS_AddElement
    <3>3. QED
      BY <2>1, <3>1, <3>2, WorksAssumption
  <2>3. QED
    BY <1>1, <2>1, <2>2 DEF DataInv
<1>5. CASE Reinstall
  <2>1. contents' = Nothing /\ archives' = archives /\ work' = work
    BY <1>5 DEF Reinstall, contents, Nothing
  <2>2. QED
    BY <1>1, <2>1, NothingIsTyped DEF DataInv
<1>6. ASSUME NEW arc \in archives, Restore(arc)
      PROVE  DataInv'
  <2>1. archives' = archives /\ work' = work
    BY <1>6 DEF Restore
  <2>2. QED
    BY <1>1, <1>6, <2>1, RestoreData DEF DataInv
<1>7. CASE UNCHANGED contentsVars
  <2>1. contents' = contents /\ archives' = archives /\ work' = work
    BY <1>7 DEF contentsVars, vars, contents
  <2>2. QED
    BY <1>1, <2>1 DEF DataInv
<1>8. QED
  BY <1>2, <1>3, <1>4, <1>5, <1>6, <1>7 DEF ContentsNext

-----------------------------------------------------------------------------
(* The theorems.                                                             *)

\* CInv is an inductive invariant of the handlers and the restore.
THEOREM ContentsInvariance == ContentsSpec => []CInv
BY InitCInv, NextCInv, PTL DEF ContentsSpec

\* The types and totals stay right of the database and of every archive.
THEOREM DataInvariance == ContentsSpec => []DataInv
BY InitDataInv, NextDataInv, PTL DEF ContentsSpec

\* For any number of invoices, lines, expenses and archives, and whatever is restored in
\* what order: an expense recorded from an adjustment has one line, the line's amount and
\* the month of its invoice, although a restore numbers the lines anew
\* (_merge_invoices, _merge_expenses).
THEOREM ExpensesMatchAfterRestores == ContentsSpec => []ExpensesMatchLines
<1>1. CInv => ExpensesMatchLines
  BY BooksSame DEF CInv, Books
<1>2. QED
  BY <1>1, ContentsInvariance, PTL

\* No restore makes a second expense of one that exists: every expense has a key of its
\* own, which is never drawn again.
THEOREM ExpenseKeysStayDistinct == ContentsSpec => []KeysOK
<1>1. ASSUME CInv
      PROVE  KeysOK
  <2>1. /\ DOMAIN key = DOMAIN linked /\ IsInjective(key)
        /\ Range(key) \cap DOMAIN manual = {}
        /\ Range(key) \cup DOMAIN manual \subseteq drawn
    <3>1. KeysOf(contents) /\ ExpenseKeys(contents) \subseteq drawn
      BY <1>1 DEF CInv
    <3>2. contents.key = key /\ contents.linked = linked /\ contents.manual = manual
      BY DEF contents
    <3>3. QED
      BY <3>1, <3>2 DEF KeysOf, ExpenseKeys
  <2>2. /\ \A l \in DOMAIN key : key[l] \in Manual
        /\ key = [l \in DOMAIN key |-> key[l]]
    BY <1>1, <2>1 DEF CInv, Range
  <2>3. key \in [DOMAIN linked -> Manual]
    BY <2>1, <2>2
  <2>4. QED
    BY <2>1, <2>3 DEF KeysOK
<1>2. QED
  BY <1>1, ContentsInvariance, PTL

\* The same archive, restored again, adds nothing, whatever else has been restored and
\* worked on in between: all it has is there (restore.py merges by keys).
THEOREM ContentsSettle == ContentsSpec => []RestoreSettles
<1>1. ASSUME CInv, NEW arc \in archives
      PROVE  Merge(Merge(contents, arc), arc) = Merge(contents, arc)
  <2>1. /\ BooksOf(contents) /\ KeysOf(contents) /\ BooksOf(arc) /\ KeysOf(arc)
    BY <1>1 DEF CInv
  <2>2. QED
    BY <2>1, MergeTwice
<1>2. CInv => RestoreSettles
  BY <1>1 DEF RestoreSettles
<1>3. QED
  BY <1>2, ContentsInvariance, PTL

\* Whatever is entered and restored, the rows have their types: a merged invoice is well
\* formed, with every line under an id within the bound, and no expense lacks a key.
THEOREM ContentsStayTyped == ContentsSpec => []ContentsTypeOK
<1>1. ASSUME DataInv, KeysOK
      PROVE  ContentsTypeOK
  <2>1. BooksOf(contents) /\ TypesOf(contents)
    BY <1>1 DEF DataInv, CInv
  <2>2. TypeOK /\ PartialFunction(dated, Dated, Prices)
    BY <2>1, TypesSame
  <2>3. QED
    BY <1>1, <2>2 DEF DataInv, CInv, ContentsTypeOK
<1>2. QED
  BY <1>1, DataInvariance, ExpenseKeysStayDistinct, PTL

\* Whatever is restored between the handlers' steps: the amounts and totals an invoice
\* has stored are those of its rent, rate, readings and adjustments. A restore takes them
\* from the archive and does not compute them (_merge_invoices), and its lines have other
\* ids than they had.
THEOREM TotalsCurrentAfterRestores == ContentsSpec => []TotalsCurrent
<1>1. DataInv => TotalsCurrent
  BY TotalsSame DEF DataInv
<1>2. QED
  BY <1>1, DataInvariance, PTL

\* A database restored from an archive alone reports the same income, expenses and result
\* for each month as the one the archive was made of, although its lines have other ids
\* (_merge_invoices, _merge_expenses; stats.py sums over the lines).
THEOREM RestoredReportsTheSame == ContentsSpec => []ReportRestored
<1>1. ASSUME DataInv, NEW arc \in archives, NEW d \in Periods
      PROVE  At(Merge(Nothing, arc))!Pnl(d) = At(arc)!Pnl(d)
  <2>1. BooksOf(arc) /\ KeysOf(arc) /\ TypesOf(arc)
    BY <1>1 DEF DataInv, CInv
  <2>2. QED
    BY <2>1, RestoredReport
<1>2. DataInv => ReportRestored
  BY <1>1 DEF ReportRestored
<1>3. QED
  BY <1>2, DataInvariance, PTL

-----------------------------------------------------------------------------
(* The import of a workbook: sums and lines.                                 *)

\* One more amount adds to a sum.
LEMMA SumPut ==
  ASSUME NEW f, IsFiniteSet(DOMAIN f), \A x \in DOMAIN f : f[x] \in Int,
         NEW x, x \notin DOMAIN f, NEW v \in Int,
         NEW h, DOMAIN h = DOMAIN f \cup {x}, h[x] = v, \A y \in DOMAIN f : h[y] = f[y]
  PROVE  Sum(h) = Sum(f) + v
<1> DEFINE D == DOMAIN f
           F == AllSums(f)
           G == AllSums(h)
           same == {s \in SUBSET D : G[s] = F[s]}
<1>1. IsFiniteSet(DOMAIN h) /\ \A y \in DOMAIN h : h[y] \in Int
  BY FS_AddElement
<1>2. /\ F[{}] = 0
      /\ \A s \in SUBSET D : F[s] \in Int
      /\ \A s \in SUBSET D : \A y \in s : F[s] = f[y] + F[s \ {y}]
  BY SumOfSet
<1>3. /\ G[{}] = 0
      /\ \A s \in SUBSET DOMAIN h : \A y \in s : G[s] = h[y] + G[s \ {y}]
  BY <1>1, SumOfSet
<1> HIDE DEF F, G
<1>4. ASSUME NEW s \in SUBSET D, \A y \in s : s \ {y} \in same
      PROVE  s \in same
  <2>1. CASE s = {}
    BY <1>2, <1>3, <2>1
  <2>2. CASE s # {}
    <3>1. PICK y \in s : TRUE
      BY <2>2
    <3>2. G[s \ {y}] = F[s \ {y}]
      BY <1>4
    <3>3. G[s] = h[y] + G[s \ {y}]
      BY <1>3
    <3>4. F[s] = f[y] + F[s \ {y}]
      BY <1>2
    <3>5. QED
      BY <3>2, <3>3, <3>4
  <2>3. QED
    BY <2>1, <2>2
<1>5. \A s \in SUBSET D : s \in same
  <2> HIDE DEF same
  <2>1. QED
    BY <1>4, SubsetInduction
<1>6. G[D] = F[D] /\ F[D] \in Int
  BY <1>2, <1>5
<1>7. G[DOMAIN h] = v + G[D]
  <2>1. DOMAIN h \ {x} = D /\ x \in DOMAIN h
    OBVIOUS
  <2>2. G[DOMAIN h] = h[x] + G[DOMAIN h \ {x}]
    BY <1>3, <2>1
  <2>3. QED
    BY <2>1, <2>2
<1>8. QED
  BY <1>6, <1>7, SumIsOfAll DEF F, G

\* TotalsAddUp, of one invoice.
AddsUp(inv) ==
    /\ inv.utilities = Utilities(inv.lines)
    /\ inv.grand = inv.rentUah + inv.utilities + inv.adjustments

\* The handlers compute totals that add up.
LEMMA CurrentAddsUp ==
  ASSUME NEW inv, InvoiceShape(inv), Current(inv)
  PROVE  AddsUp(inv)
<1> DEFINE lines == Amended(inv)
           rentUah == inv.rent * inv.rate
           utilities == Utilities(lines)
           adjustments == Sum(inv.adj)
           grand == rentUah + utilities + adjustments
<1>1. IsRecord(inv)
  BY DEF InvoiceShape
<1>2. inv = [inv EXCEPT !.lines = lines, !.rentUah = rentUah, !.utilities = utilities,
                        !.adjustments = adjustments, !.grand = grand]
  BY RecalculateTotals DEF Current, Totalled
<1>3. grand = rentUah + utilities + adjustments /\ utilities = Utilities(lines)
  OBVIOUS
<1> HIDE DEF lines, rentUah, utilities, adjustments, grand
<1>4. /\ inv.lines = lines /\ inv.rentUah = rentUah /\ inv.utilities = utilities
      /\ inv.adjustments = adjustments /\ inv.grand = grand
  BY ONLY <1>1, <1>2 DEF IsRecord
<1>5. QED
  BY <1>3, <1>4 DEF AddsUp

LEMMA StatusAddsUp ==
  ASSUME NEW inv, InvoiceShape(inv), NEW status
  PROVE  LET new == [inv EXCEPT !.status = status] IN
         InvoiceShape(new) /\ (AddsUp(inv) => AddsUp(new))
<1>1. IsRecord(inv)
  BY DEF InvoiceShape
<1> DEFINE new == [inv EXCEPT !.status = status]
<1>2. /\ IsRecord(new) /\ new.lines = inv.lines /\ new.utilities = inv.utilities
      /\ new.grand = inv.grand /\ new.rentUah = inv.rentUah
      /\ new.adjustments = inv.adjustments
  BY ONLY <1>1 DEF IsRecord
<1> HIDE DEF new
<1>3. QED
  BY <1>2 DEF InvoiceShape, AddsUp, new

-----------------------------------------------------------------------------
(* Tariffs.                                                                  *)

\* The tariff in force is one of those there are, of a date that has come.
LEMMA InForceIsTariff ==
  ASSUME NEW ts, DOMAIN ts \subseteq Periods, NEW p
  PROVE  \/ InForce(ts, p) = Missing /\ \A q \in DOMAIN ts : ~(q <= p)
         \/ \E q \in DOMAIN ts : q <= p /\ InForce(ts, p) = ts[q]
<1> DEFINE past == {q \in DOMAIN ts : q <= p}
           last == CHOOSE q \in past : \A r \in past : r <= q
<1>1. CASE past = {}
  BY <1>1 DEF InForce
<1>2. CASE past # {}
  <2>1. past \subseteq 1 .. MaxPeriod /\ MaxPeriod \in Nat
    BY BoundsAssumption DEF Periods
  <2>2. \E q \in past : \A r \in past : r <= q
    <3> HIDE DEF past
    <3>1. QED
      BY <1>2, <2>1, LargestExists
  <2>3. last \in past
    BY <2>2
  <2>4. InForce(ts, p) = ts[last]
    BY <1>2 DEF InForce
  <2> HIDE DEF last
  <2>5. QED
    BY <2>3, <2>4
<1>3. QED
  BY <1>1, <1>2

LEMMA PutTariff ==
  ASSUME NEW ts, PartialFunction(ts, Periods, Prices), NEW p \in Periods, NEW v \in Prices
  PROVE  /\ PartialFunction(Put(ts, p, v), Periods, Prices)
         /\ DOMAIN Put(ts, p, v) = DOMAIN ts \cup {p}
BY DEF Put, PartialFunction

\* The services and tariffs of a database, and of the apartment.
ServicesOf(db) ==
    /\ DOMAIN db.active \subseteq Services /\ db.active \in [DOMAIN db.active -> BOOLEAN]
    /\ DOMAIN db.tariffs = DOMAIN db.active
    /\ db.tariffs = [s \in DOMAIN db.tariffs |-> db.tariffs[s]]
    /\ \A s \in DOMAIN db.tariffs : PartialFunction(db.tariffs[s], Periods, Prices)

InvoicesOf(db) ==
    /\ DOMAIN db.invoices \subseteq Periods
    /\ \A p \in DOMAIN db.invoices : InvoiceShape(db.invoices[p]) /\ AddsUp(db.invoices[p])

Sound(db) ==
    /\ db = [invoices |-> db.invoices, active |-> db.active, tariffs |-> db.tariffs]
    /\ ServicesOf(db) /\ InvoicesOf(db)

LEMMA TariffsOfType ==
  ASSUME NEW db, ServicesOf(db), NEW s
  PROVE  PartialFunction(TariffsOf(db, s), Periods, Prices)
BY DEF ServicesOf, TariffsOf, NoTariffs, PartialFunction

\* Every month of a workbook that can be imported charges by a price.
LEMMA TariffForType ==
  ASSUME NEW db, ServicesOf(db), NEW book \in Workbooks, NEW p \in DOMAIN book.months,
         Importable(db, book, p), NEW s \in DOMAIN book.months[p].rows
  PROVE  TariffFor(db, book.months[p], p, s) \in Prices
<1> DEFINE sheet == book.months[p]
           tariff == TariffFor(db, sheet, p, s)
<1>1. tariff # Missing
  BY DEF Importable
<1>2. sheet.rows[s] \in Rows
  BY WorkbooksAssumption DEF IsBook, IsSheet, PartialFunction
<1>3. CASE s \in OneOffs(db, sheet)
  BY <1>3, PricesAssumption DEF TariffFor
<1>4. CASE s \notin OneOffs(db, sheet) /\ sheet.rows[s].tariff # Missing
  BY <1>2, <1>4 DEF TariffFor, Rows
<1>5. CASE s \notin OneOffs(db, sheet) /\ sheet.rows[s].tariff = Missing
  <2>1. s \in DOMAIN db.tariffs
    BY <1>5 DEF OneOffs, ServicesOf
  <2>2. PartialFunction(db.tariffs[s], Periods, Prices)
    BY <2>1 DEF ServicesOf
  <2>3. tariff = InForce(db.tariffs[s], p)
    BY <1>5 DEF TariffFor
  <2>4. QED
    BY <1>1, <2>2, <2>3, InForceIsTariff DEF PartialFunction
<1>6. QED
  BY <1>3, <1>4, <1>5

\* What a legacy row charged, or a tariff of that amount, is there afterwards.
LEMMA RecordedTariff ==
  ASSUME NEW db, ServicesOf(db), NEW book \in Workbooks, NEW p \in DOMAIN book.months,
         Importable(db, book, p), NEW s \in DOMAIN book.months[p].rows
  PROVE  LET ts == Recorded(db, book.months[p], p, s) IN
         /\ PartialFunction(ts, Periods, Prices)
         /\ DOMAIN TariffsOf(db, s) \subseteq DOMAIN ts
         /\ \E d \in DOMAIN ts : d <= p
<1> DEFINE ts == TariffsOf(db, s)
           tariff == TariffFor(db, book.months[p], p, s)
<1>1. /\ tariff \in Prices /\ PartialFunction(ts, Periods, Prices)
      /\ p \in Periods
  BY TariffForType, TariffsOfType, WorkbooksAssumption DEF IsBook
<1>2. Recorded(db, book.months[p], p, s) =
        IF p \in DOMAIN ts \/ InForce(ts, p) = tariff THEN ts ELSE Put(ts, p, tariff)
  BY DEF Recorded
<1>3. tariff # Missing
  BY DEF Importable
<1> HIDE DEF ts, tariff
<1>4. p <= p
  BY <1>1 DEF Periods
<1>5. CASE p \in DOMAIN ts
  BY <1>1, <1>2, <1>4, <1>5 DEF ts
<1>6. CASE InForce(ts, p) = tariff
  <2>1. \E q \in DOMAIN ts : q <= p
    BY <1>1, <1>3, <1>6, InForceIsTariff DEF PartialFunction
  <2>2. QED
    BY <1>1, <1>2, <1>6, <2>1 DEF ts
<1>7. CASE p \notin DOMAIN ts /\ InForce(ts, p) # tariff
  <2>1. /\ PartialFunction(Put(ts, p, tariff), Periods, Prices)
        /\ DOMAIN Put(ts, p, tariff) = DOMAIN ts \cup {p}
    BY <1>1, PutTariff
  <2>2. QED
    BY <1>2, <1>4, <1>7, <2>1 DEF ts
<1>8. QED
  BY <1>5, <1>6, <1>7

-----------------------------------------------------------------------------
(* A month's invoice.                                                        *)

LEMMA PaidInvoiceSound ==
  ASSUME NEW db, ServicesOf(db), NEW book \in Workbooks, NEW p \in DOMAIN book.months,
         Importable(db, book, p), NEW rent \in Rents
  PROVE  LET inv == PaidInvoice(db, book.months[p], p, rent) IN
         /\ InvoiceShape(inv) /\ AddsUp(inv)
         /\ DOMAIN inv.lines = DOMAIN book.months[p].rows
         /\ inv.rentUah \in Int /\ inv.adjustments = 0
         /\ \A s \in DOMAIN inv.lines : inv.lines[s].amount \in Int
<1> DEFINE sheet == book.months[p]
           usd == IF sheet.usd # Missing THEN sheet.usd ELSE rent
           uah == IF sheet.uah # Missing THEN sheet.uah ELSE usd * sheet.rate
           lines == [s \in DOMAIN sheet.rows |->
                        LineFrom(sheet.rows[s], TariffFor(db, sheet, p, s))]
           sum == Utilities(lines)
           rate == RateOf(sheet)
           noAdj == [l \in {} |-> 0]
           inv == [status |-> "paid", rent |-> usd, rate |-> rate, lines |-> lines,
                   adj |-> noAdj, rentUah |-> uah, utilities |-> sum, adjustments |-> 0,
                   grand |-> uah + sum]
<1>1. PaidInvoice(db, sheet, p, rent) = inv
  BY DEF PaidInvoice, Utilities
<1>2. /\ sheet.usd \in Rents \cup {Missing} /\ sheet.rate \in Rates \cup {Missing}
      /\ sheet.uah \in Int \cup {Missing}
      /\ PartialFunction(sheet.rows, Services, Rows)
  BY WorkbooksAssumption DEF IsBook, IsSheet
<1>3. sheet.uah = Missing => sheet.rate # Missing
  BY DEF Importable
<1>4. usd \in Int
  BY <1>2, DataAssumption
<1>5. uah \in Int
  <2> HIDE DEF usd
  <2>1. CASE sheet.uah = Missing
    <3>1. sheet.rate \in Int
      BY <1>2, <1>3, <2>1, DataAssumption
    <3>2. QED
      BY <1>4, <2>1, <3>1
  <2>2. CASE sheet.uah # Missing
    BY <1>2, <2>2
  <2>3. QED
    BY <2>1, <2>2
<1>6. ASSUME NEW s \in DOMAIN sheet.rows
      PROVE  IsLine(lines[s]) /\ lines[s].amount \in Int
  <2> DEFINE row == sheet.rows[s]
             tariff == TariffFor(db, sheet, p, s)
  <2>1. tariff \in Int
    BY TariffForType, DataAssumption
  <2>2. row \in Rows
    BY <1>2 DEF PartialFunction
  <2>3. lines[s] = LineFrom(row, tariff)
    OBVIOUS
  <2> HIDE DEF row, tariff, lines
  <2>4. row.amount # Missing => row.amount \in Int
    BY <2>2, DataAssumption DEF Rows
  <2>5. row.prev # Missing /\ row.curr # Missing => row.prev \in Int /\ row.curr \in Int
    BY <2>2, DataAssumption DEF Rows
  <2>6. IsLine(LineFrom(row, tariff))
    BY DEF LineFrom, IsLine
  <2>7. LineFrom(row, tariff).amount =
            IF row.amount # Missing THEN row.amount
            ELSE IF row.prev # Missing /\ row.curr # Missing
                 THEN (row.curr - row.prev) * tariff ELSE 0
    BY DEF LineFrom
  <2>8. LineFrom(row, tariff).amount \in Int
    BY <2>1, <2>4, <2>5, <2>7
  <2>9. QED
    BY <2>3, <2>6, <2>8
<1>7. DOMAIN lines = DOMAIN sheet.rows
  OBVIOUS
<1> DEFINE amounts == [s \in DOMAIN lines |-> lines[s].amount]
<1>8. sum \in Int
  <2> HIDE DEF lines
  <2>1. IsFiniteSet(Services) /\ DOMAIN lines \in SUBSET Services
    BY <1>2, <1>7, ServicesAssumption DEF Services, PartialFunction
  <2>2. IsFiniteSet(DOMAIN amounts) /\ \A s \in DOMAIN amounts : amounts[s] \in Int
    BY <1>6, <1>7, <2>1, FS_Subset
  <2> HIDE DEF amounts
  <2>3. Sum(amounts) \in Int
    BY <2>2, SumType
  <2>4. QED
    BY <2>3 DEF Utilities, amounts
<1>9. sum = Utilities(lines)
  OBVIOUS
<1> HIDE DEF usd, uah, lines, sum, rate, noAdj
<1>10. /\ IsRecord(inv) /\ inv.lines = lines /\ inv.rentUah = uah /\ inv.utilities = sum
       /\ inv.adjustments = 0 /\ inv.grand = uah + sum
  BY DEF IsRecord
<1> HIDE DEF inv
<1>11. AddsUp(inv)
  BY <1>5, <1>8, <1>9, <1>10 DEF AddsUp
<1>12. InvoiceShape(inv)
  BY <1>6, <1>7, <1>10 DEF InvoiceShape
<1>13. QED
  BY <1>1, <1>5, <1>6, <1>7, <1>10, <1>11, <1>12

\* A line for the difference to a legacy total adds to the sum and to the total.
LEMMA BookedSound ==
  ASSUME NEW inv, InvoiceShape(inv), AddsUp(inv), IsFiniteSet(DOMAIN inv.lines),
         \A s \in DOMAIN inv.lines : inv.lines[s].amount \in Int,
         inv.rentUah \in Int, inv.adjustments \in Int,
         NEW name, name \notin DOMAIN inv.lines, NEW amount \in Int
  PROVE  LET new == Booked(inv, name, amount) IN
         /\ InvoiceShape(new) /\ AddsUp(new)
         /\ DOMAIN new.lines = DOMAIN inv.lines \cup {name}
<1> DEFINE line == [prev |-> Missing, curr |-> Missing, price |-> 1, amount |-> amount]
           lines == Put(inv.lines, name, line)
           utilities == inv.utilities + amount
           grand == inv.grand + amount
           new == [inv EXCEPT !.lines = lines, !.utilities = utilities, !.grand = grand]
<1>1. IsRecord(inv)
  BY DEF InvoiceShape
<1>2. Booked(inv, name, amount) = new
  BY <1>1 DEF Booked, IsRecord
<1>3. /\ DOMAIN lines = DOMAIN inv.lines \cup {name} /\ lines[name] = line
      /\ \A s \in DOMAIN inv.lines : lines[s] = inv.lines[s]
  BY DEF Put
<1>4. IsLine(line) /\ line.amount = amount
  BY DEF IsLine
<1> HIDE DEF line, lines
<1> DEFINE f == [s \in DOMAIN inv.lines |-> inv.lines[s].amount]
           h == [s \in DOMAIN lines |-> lines[s].amount]
<1>5. Sum(h) = Sum(f) + amount
  <2>1. /\ DOMAIN f = DOMAIN inv.lines /\ \A s \in DOMAIN f : f[s] \in Int
        /\ DOMAIN h = DOMAIN f \cup {name} /\ h[name] = amount
        /\ \A s \in DOMAIN f : h[s] = f[s]
    BY <1>3, <1>4
  <2> HIDE DEF f, h
  <2>2. IsFiniteSet(DOMAIN f) /\ name \notin DOMAIN f
    BY <2>1
  <2>3. Sum(h) = Sum(f) + amount
    BY <2>1, <2>2, SumPut
  <2>4. QED
    BY <2>3
<1>6. Sum(f) \in Int
  <2>1. DOMAIN f = DOMAIN inv.lines /\ \A s \in DOMAIN f : f[s] \in Int
    OBVIOUS
  <2> HIDE DEF f
  <2>2. QED
    BY <2>1, SumType
<1>7. Utilities(inv.lines) = Sum(f) /\ Utilities(lines) = Sum(h)
  BY DEF Utilities
<1> HIDE DEF f, h
<1>8. inv.utilities \in Int /\ Utilities(lines) = inv.utilities + amount
  BY <1>5, <1>6, <1>7 DEF AddsUp
<1>9. grand = inv.rentUah + utilities + inv.adjustments
  BY <1>8 DEF AddsUp
<1>10. utilities = Utilities(lines)
  BY <1>8
<1> HIDE DEF utilities, grand
<1>11. /\ IsRecord(new) /\ new.lines = lines /\ new.utilities = utilities /\ new.grand = grand
       /\ new.rentUah = inv.rentUah /\ new.adjustments = inv.adjustments
  BY ONLY <1>1 DEF IsRecord
<1> HIDE DEF new
<1>12. InvoiceShape(new)
  BY <1>3, <1>4, <1>11 DEF InvoiceShape
<1>13. AddsUp(new)
  BY <1>9, <1>10, <1>11 DEF AddsUp
<1>14. QED
  BY <1>2, <1>3, <1>11, <1>12, <1>13

LEMMA MonthInvoiceSound ==
  ASSUME NEW db, ServicesOf(db), NEW book \in Workbooks, NEW p \in DOMAIN book.months,
         Importable(db, book, p), NEW rent \in Rents
  PROVE  LET inv == Completed(PaidInvoice(db, book.months[p], p, rent), book.months[p]) IN
         /\ InvoiceShape(inv) /\ AddsUp(inv)
         /\ DOMAIN book.months[p].rows \subseteq DOMAIN inv.lines
         /\ DOMAIN inv.lines \subseteq Services
<1> DEFINE sheet == book.months[p]
           inv == PaidInvoice(db, sheet, p, rent)
<1>1. /\ InvoiceShape(inv) /\ AddsUp(inv) /\ DOMAIN inv.lines = DOMAIN sheet.rows
      /\ inv.rentUah \in Int /\ inv.adjustments = 0
      /\ \A s \in DOMAIN inv.lines : inv.lines[s].amount \in Int
  BY PaidInvoiceSound
<1>2. /\ sheet.total \in Int \cup {Missing} /\ sheet.remainder \in Fixed \cup {Missing}
      /\ PartialFunction(sheet.rows, Services, Rows) /\ sheet.remainder \notin DOMAIN sheet.rows
  BY WorkbooksAssumption DEF IsBook, IsSheet
<1>3. IsFiniteSet(Services) /\ DOMAIN sheet.rows \in SUBSET Services /\ Fixed \subseteq Services
  BY <1>2, ServicesAssumption DEF Services, PartialFunction
<1>4. IsFiniteSet(DOMAIN inv.lines)
  BY <1>1, <1>3, FS_Subset
<1>5. inv.grand \in Int
  <2> DEFINE amounts == [s \in DOMAIN inv.lines |-> inv.lines[s].amount]
  <2>1. DOMAIN amounts = DOMAIN inv.lines /\ \A s \in DOMAIN amounts : amounts[s] \in Int
    BY <1>1
  <2>2. Utilities(inv.lines) = Sum(amounts)
    BY DEF Utilities
  <2> HIDE DEF amounts, inv
  <2>3. Sum(amounts) \in Int
    BY <1>4, <2>1, SumType
  <2>4. QED
    BY <1>1, <2>2, <2>3 DEF AddsUp
<1> HIDE DEF inv, sheet
<1> DEFINE books == sheet.total # Missing /\ sheet.remainder # Missing /\ sheet.total # inv.grand
<1>6. CASE books
  <2> DEFINE amount == sheet.total - inv.grand
             new == Booked(inv, sheet.remainder, amount)
  <2>1. amount \in Int
    BY <1>2, <1>5, <1>6
  <2>2. Completed(inv, sheet) = new
    BY <1>6 DEF Completed
  <2> HIDE DEF amount
  <2>3. /\ InvoiceShape(new) /\ AddsUp(new)
        /\ DOMAIN new.lines = DOMAIN inv.lines \cup {sheet.remainder}
    BY <1>1, <1>2, <1>4, <2>1, BookedSound
  <2>4. QED
    BY <1>1, <1>2, <1>3, <1>6, <2>2, <2>3 DEF inv, sheet
<1>7. CASE ~books
  <2>1. Completed(inv, sheet) = inv
    BY <1>7 DEF Completed
  <2>2. QED
    BY <1>1, <1>3, <2>1 DEF inv, sheet
<1>8. QED
  BY <1>6, <1>7

-----------------------------------------------------------------------------
(* The steps of an import.                                                   *)

LEMMA WithServicesSound ==
  ASSUME NEW db, Sound(db), NEW book \in Workbooks
  PROVE  LET new == WithServices(db, book) IN
         /\ Sound(new) /\ new.invoices = db.invoices
         /\ DOMAIN new.active = DOMAIN db.active \cup DOMAIN book.info
         /\ \A s \in DOMAIN book.info : DOMAIN book.info[s] \subseteq DOMAIN new.tariffs[s]
         /\ \A s \in DOMAIN book.info \ DOMAIN db.active :
                new.active[s] = (book.legacy => Appears(book, s))
<1> DEFINE known == DOMAIN db.active \cup DOMAIN book.info
           active1 == [s \in known |-> IF s \in DOMAIN db.active THEN db.active[s]
                                       ELSE book.legacy => Appears(book, s)]
           tariffs1 == [s \in known |->
                            IF s \in DOMAIN book.info THEN Added(TariffsOf(db, s), book.info[s])
                            ELSE db.tariffs[s]]
           new == [invoices |-> db.invoices, active |-> active1, tariffs |-> tariffs1]
<1>1. WithServices(db, book) = new
  <2>1. WithServices(db, book) = [db EXCEPT !.active = active1, !.tariffs = tariffs1]
    BY Zenon DEF WithServices
  <2>2. db = [invoices |-> db.invoices, active |-> db.active, tariffs |-> db.tariffs]
    BY DEF Sound
  <2> HIDE DEF active1, tariffs1
  <2> DEFINE changed == [db EXCEPT !.active = active1, !.tariffs = tariffs1]
  <2>3. DOMAIN db = {"invoices", "active", "tariffs"}
    BY ONLY <2>2
  <2>4. /\ DOMAIN changed = DOMAIN db /\ changed = [x \in DOMAIN changed |-> changed[x]]
        /\ changed.invoices = db.invoices /\ changed.active = active1
        /\ changed.tariffs = tariffs1
    BY ONLY <2>3
  <2> HIDE DEF changed
  <2>5. changed = new
    BY ONLY <2>3, <2>4
  <2>6. QED
    BY <2>1, <2>5 DEF changed
<1>2. /\ book.legacy \in BOOLEAN /\ DOMAIN book.info \subseteq Services
      /\ \A s \in DOMAIN book.info : PartialFunction(book.info[s], Periods, Prices)
  BY WorkbooksAssumption DEF IsBook
<1>3. ServicesOf(db) /\ InvoicesOf(db)
  BY DEF Sound
<1>4. known \subseteq Services
  BY <1>2, <1>3 DEF ServicesOf
<1>5. active1 \in [known -> BOOLEAN]
  <2>1. \A s \in DOMAIN db.active : db.active[s] \in BOOLEAN
    BY <1>3 DEF ServicesOf
  <2>2. \A s : (book.legacy => Appears(book, s)) \in BOOLEAN
    OBVIOUS
  <2>3. QED
    BY <2>1, <2>2
<1>6. ASSUME NEW s \in known
      PROVE  /\ PartialFunction(tariffs1[s], Periods, Prices)
             /\ s \in DOMAIN book.info => DOMAIN book.info[s] \subseteq DOMAIN tariffs1[s]
  <2>1. CASE s \in DOMAIN book.info
    <3> DEFINE ts == TariffsOf(db, s)
               columns == book.info[s]
    <3>1. tariffs1[s] = Added(ts, columns)
      BY <2>1
    <3>2. PartialFunction(ts, Periods, Prices) /\ PartialFunction(columns, Periods, Prices)
      BY <1>2, <1>3, <2>1, TariffsOfType
    <3> HIDE DEF ts, columns, tariffs1
    <3>3. DOMAIN Added(ts, columns) = DOMAIN ts \cup DOMAIN columns
      BY DEF Added
    <3>4. PartialFunction(Added(ts, columns), Periods, Prices)
      BY <3>2 DEF Added, PartialFunction
    <3>5. QED
      BY <3>1, <3>3, <3>4 DEF columns
  <2>2. CASE s \notin DOMAIN book.info
    BY <1>3, <2>2 DEF ServicesOf
  <2>3. QED
    BY <2>1, <2>2
<1>7. \A s \in DOMAIN book.info \ DOMAIN db.active :
            active1[s] = (book.legacy => Appears(book, s))
  BY Zenon
<1>8. DOMAIN active1 = known /\ DOMAIN tariffs1 = known
      /\ tariffs1 = [s \in DOMAIN tariffs1 |-> tariffs1[s]]
  OBVIOUS
<1> HIDE DEF active1, tariffs1, known
<1>9. new.invoices = db.invoices /\ new.active = active1 /\ new.tariffs = tariffs1
      /\ new = [invoices |-> new.invoices, active |-> new.active, tariffs |-> new.tariffs]
  OBVIOUS
<1> HIDE DEF new
<1>10. ServicesOf(new)
  BY <1>4, <1>5, <1>6, <1>8, <1>9 DEF ServicesOf
<1>11. InvoicesOf(new)
  BY <1>3, <1>9 DEF InvoicesOf
<1>12. Sound(new)
  BY <1>9, <1>10, <1>11 DEF Sound
<1>13. QED
  BY <1>1, <1>6, <1>7, <1>8, <1>9, <1>12 DEF known

LEMMA WithMonthSound ==
  ASSUME NEW db, Sound(db), NEW book \in Workbooks, NEW p \in DOMAIN book.months,
         Importable(db, book, p), p \notin DOMAIN db.invoices, NEW rent \in Rents
  PROVE  LET new == WithMonth(db, book, p, rent)
             rows == DOMAIN book.months[p].rows IN
         /\ Sound(new) /\ DOMAIN new.invoices = DOMAIN db.invoices \cup {p}
         /\ DOMAIN db.active \subseteq DOMAIN new.active
         /\ \A s \in DOMAIN db.active : /\ new.active[s] = db.active[s]
                                        /\ DOMAIN db.tariffs[s] \subseteq DOMAIN new.tariffs[s]
         /\ book.legacy => \A s \in rows \cap DOMAIN db.active :
                db.active[s] => \E d \in DOMAIN new.tariffs[s] : d <= p
<1> DEFINE sheet == book.months[p]
           inv == Completed(PaidInvoice(db, sheet, p, rent), sheet)
           known == DOMAIN db.active \cup DOMAIN inv.lines
           inUse(s) == s \in DOMAIN db.active /\ db.active[s]
           invoices1 == Put(db.invoices, p, inv)
           active1 == [s \in known |-> inUse(s)]
           tariffs1 == [s \in known |->
                          IF book.legacy /\ s \in DOMAIN sheet.rows /\ inUse(s)
                          THEN Recorded(db, sheet, p, s) ELSE TariffsOf(db, s)]
           new == [invoices |-> invoices1, active |-> active1, tariffs |-> tariffs1]
<1>1. WithMonth(db, book, p, rent) = new
  BY DEF WithMonth
<1>2. ServicesOf(db) /\ InvoicesOf(db)
  BY DEF Sound
<1>3. /\ InvoiceShape(inv) /\ AddsUp(inv) /\ DOMAIN sheet.rows \subseteq DOMAIN inv.lines
      /\ DOMAIN inv.lines \subseteq Services
  BY <1>2, MonthInvoiceSound
<1>4. p \in Periods
  BY WorkbooksAssumption DEF IsBook
<1> HIDE DEF inv
<1>5. known \subseteq Services
  BY <1>2, <1>3 DEF ServicesOf
<1>6. active1 \in [known -> BOOLEAN]
  BY Zenon
<1>7. \A s \in DOMAIN db.active : active1[s] = db.active[s]
  <2>1. \A s \in DOMAIN db.active : db.active[s] \in BOOLEAN
    BY <1>2 DEF ServicesOf
  <2>2. QED
    BY <2>1
<1>8. ASSUME NEW s \in known
      PROVE  /\ PartialFunction(tariffs1[s], Periods, Prices)
             /\ DOMAIN TariffsOf(db, s) \subseteq DOMAIN tariffs1[s]
             /\ book.legacy /\ s \in DOMAIN sheet.rows /\ inUse(s) =>
                    \E d \in DOMAIN tariffs1[s] : d <= p
  <2>1. CASE book.legacy /\ s \in DOMAIN sheet.rows /\ inUse(s)
    <3>1. tariffs1[s] = Recorded(db, sheet, p, s)
      BY <2>1
    <3> HIDE DEF tariffs1
    <3>2. /\ PartialFunction(Recorded(db, sheet, p, s), Periods, Prices)
          /\ DOMAIN TariffsOf(db, s) \subseteq DOMAIN Recorded(db, sheet, p, s)
          /\ \E d \in DOMAIN Recorded(db, sheet, p, s) : d <= p
      BY <1>2, <2>1, RecordedTariff
    <3>3. QED
      BY <3>1, <3>2
  <2>2. CASE ~(book.legacy /\ s \in DOMAIN sheet.rows /\ inUse(s))
    <3>1. tariffs1[s] = TariffsOf(db, s)
      BY <2>2
    <3> HIDE DEF tariffs1
    <3>2. QED
      BY <1>2, <2>2, <3>1, TariffsOfType
  <2>3. QED
    BY <2>1, <2>2
<1>9. /\ DOMAIN active1 = known /\ DOMAIN tariffs1 = known /\ DOMAIN db.active \subseteq known
      /\ tariffs1 = [s \in DOMAIN tariffs1 |-> tariffs1[s]]
  OBVIOUS
<1>10. /\ DOMAIN invoices1 = DOMAIN db.invoices \cup {p} /\ invoices1[p] = inv
       /\ \A q \in DOMAIN db.invoices : invoices1[q] = db.invoices[q]
  BY DEF Put
<1> HIDE DEF invoices1, active1, tariffs1, known
<1>11. new.invoices = invoices1 /\ new.active = active1 /\ new.tariffs = tariffs1
       /\ new = [invoices |-> new.invoices, active |-> new.active, tariffs |-> new.tariffs]
  OBVIOUS
<1> HIDE DEF new
<1>12. ServicesOf(new)
  BY <1>5, <1>6, <1>8, <1>9, <1>11 DEF ServicesOf
<1>13. InvoicesOf(new)
  BY <1>2, <1>3, <1>4, <1>10, <1>11 DEF InvoicesOf
<1>14. Sound(new)
  BY <1>11, <1>12, <1>13 DEF Sound
<1>15. \A s \in DOMAIN db.active : TariffsOf(db, s) = db.tariffs[s]
  BY <1>2 DEF TariffsOf, ServicesOf
<1>16. \A s \in DOMAIN db.active : DOMAIN db.tariffs[s] \subseteq DOMAIN new.tariffs[s]
  BY <1>8, <1>9, <1>11, <1>15
<1>17. book.legacy => \A s \in DOMAIN sheet.rows \cap DOMAIN db.active :
            db.active[s] => \E d \in DOMAIN new.tariffs[s] : d <= p
  BY <1>8, <1>9, <1>11
<1>18. QED
  BY <1>1, <1>7, <1>9, <1>10, <1>11, <1>14, <1>16, <1>17

-----------------------------------------------------------------------------
(* The months, one after the other.                                          *)

\* What month p makes of a database that is ok, or of a refusal.
Month(before, book, p, rent) ==
    IF ~before.ok \/ ~ToImport(before.db, book, p) THEN before
    ELSE IF Importable(before.db, book, p)
         THEN [ok |-> TRUE, db |-> WithMonth(before.db, book, p, rent)]
         ELSE [before EXCEPT !.ok = FALSE]

\* after says what the months up to n make of db.
Months(db, book, rent, n, after) ==
    after = [p \in 0 .. n |-> IF p = 0 THEN [ok |-> TRUE, db |-> WithServices(db, book)]
                              ELSE Month(after[p - 1], book, p, rent)]

After(db, book, rent) == CHOOSE after : Months(db, book, rent, MaxPeriod, after)

LEMMA ProgressIsAfter ==
  ASSUME NEW db, NEW book, NEW rent
  PROVE  Progress(db, book, rent) = After(db, book, rent)[MaxPeriod]
BY Zenon DEF Progress, After, Months, Month

\* Induction up to MaxPeriod: a set G of months has them all if it has 0 and with each
\* one the next.
LEMMA MonthInduction ==
  ASSUME NEW G, 0 \in G, \A n \in 1 .. MaxPeriod : n - 1 \in G => n \in G
  PROVE  \A n \in 0 .. MaxPeriod : n \in G
<1> DEFINE T == {n \in 0 .. MaxPeriod : n \notin G}
<1> SUFFICES ASSUME NEW b \in T
             PROVE  FALSE
  OBVIOUS
<1>1. T \subseteq Nat /\ T # {}
  BY BoundsAssumption
<1>2. PICK m \in T : \A n \in T : m <= n
  <2> HIDE DEF T
  <2>1. QED
    BY <1>1, LeastExists
<1>3. m \in 1 .. MaxPeriod
  BY BoundsAssumption
<1>4. m - 1 \notin T
  BY <1>2, <1>3
<1>5. m - 1 \in G
  BY <1>3, <1>4, BoundsAssumption
<1>6. QED
  BY <1>3, <1>5

LEMMA AfterExists ==
  ASSUME NEW db, NEW book, NEW rent
  PROVE  Months(db, book, rent, MaxPeriod, After(db, book, rent))
<1> DEFINE first == [ok |-> TRUE, db |-> WithServices(db, book)]
           G == {n \in 0 .. MaxPeriod : \E after : Months(db, book, rent, n, after)}
<1>1. 0 \in G
  <2> DEFINE after == [p \in 0 .. 0 |-> first]
  <2>1. after = [p \in 0 .. 0 |-> IF p = 0 THEN first ELSE Month(after[p - 1], book, p, rent)]
    OBVIOUS
  <2>2. Months(db, book, rent, 0, after)
    BY <2>1, Zenon DEF Months
  <2>3. 0 \in 0 .. MaxPeriod
    BY BoundsAssumption
  <2>4. QED
    BY <2>2, <2>3
<1>2. ASSUME NEW n \in 1 .. MaxPeriod, n - 1 \in G
      PROVE  n \in G
  <2>1. PICK f : Months(db, book, rent, n - 1, f)
    BY <1>2
  <2> DEFINE last == Month(f[n - 1], book, n, rent)
             after == [p \in 0 .. n |-> IF p = n THEN last ELSE f[p]]
  <2>2. n \in Nat /\ n # 0
    BY BoundsAssumption
  <2>3. f = [p \in 0 .. n - 1 |-> IF p = 0 THEN first ELSE Month(f[p - 1], book, p, rent)]
    BY <2>1, Zenon DEF Months
  <2> HIDE DEF first
  <2>4. ASSUME NEW p \in 0 .. n
        PROVE  after[p] = IF p = 0 THEN first ELSE Month(after[p - 1], book, p, rent)
    <3>1. CASE p = n
      <4>1. after[p - 1] = f[n - 1]
        BY <2>2, <3>1
      <4>2. after[p] = last
        BY <3>1
      <4>3. QED
        BY <2>2, <3>1, <4>1, <4>2
    <3>2. CASE p = 0
      BY <2>2, <2>3, <3>2
    <3>3. CASE p \in 1 .. n - 1
      <4>1. after[p - 1] = f[p - 1] /\ after[p] = f[p] /\ p # 0 /\ p \in 0 .. n - 1
        BY <2>2, <3>3
      <4>2. f[p] = Month(f[p - 1], book, p, rent)
        BY <2>3, <4>1
      <4>3. QED
        BY <4>1, <4>2
    <3>4. QED
      BY <2>2, <3>1, <3>2, <3>3
  <2>5. DOMAIN after = 0 .. n /\ after = [p \in DOMAIN after |-> after[p]]
    OBVIOUS
  <2> HIDE DEF after
  <2>6. after = [p \in 0 .. n |-> IF p = 0 THEN first ELSE Month(after[p - 1], book, p, rent)]
    BY <2>4, <2>5
  <2>7. Months(db, book, rent, n, after)
    BY <2>6, Zenon DEF Months, first
  <2>8. n \in 0 .. MaxPeriod
    BY <2>2
  <2>9. QED
    BY <2>7, <2>8
<1>3. \A n \in 0 .. MaxPeriod : n \in G
  <2> HIDE DEF G
  <2>1. QED
    BY <1>1, <1>2, MonthInduction
<1>4. MaxPeriod \in 0 .. MaxPeriod
  BY BoundsAssumption
<1>5. \E after : Months(db, book, rent, MaxPeriod, after)
  BY <1>3, <1>4
<1>6. QED
  BY <1>5, Zenon DEF After

\* What After says of each month.
LEMMA AfterMonth ==
  ASSUME NEW db, NEW book, NEW rent
  PROVE  LET after == After(db, book, rent) IN
         /\ after[0] = [ok |-> TRUE, db |-> WithServices(db, book)]
         /\ \A p \in 1 .. MaxPeriod : after[p] = Month(after[p - 1], book, p, rent)
<1> DEFINE after == After(db, book, rent)
           first == [ok |-> TRUE, db |-> WithServices(db, book)]
<1> HIDE DEF after
<1>1. after = [p \in 0 .. MaxPeriod |-> IF p = 0 THEN first
                                        ELSE Month(after[p - 1], book, p, rent)]
  <2>1. Months(db, book, rent, MaxPeriod, after)
    BY AfterExists DEF after
  <2>2. QED
    BY <2>1, Zenon DEF Months
<1> HIDE DEF first
<1>2. after[0] = first
  BY <1>1, BoundsAssumption
<1>3. ASSUME NEW p \in 1 .. MaxPeriod
      PROVE  after[p] = Month(after[p - 1], book, p, rent)
  <2>1. p \in 0 .. MaxPeriod /\ p # 0
    BY BoundsAssumption
  <2>2. QED
    BY <1>1, <2>1
<1>4. QED
  BY <1>2, <1>3 DEF after, first

-----------------------------------------------------------------------------
(* What an import has done by a month.                                       *)

\* now is what db has become, after the months of book up to n.
Grown(db, book, n, now) ==
    /\ now = [ok |-> now.ok, db |-> now.db] /\ now.ok \in BOOLEAN
    /\ Sound(now.db)
    /\ DOMAIN book.info \subseteq DOMAIN now.db.active
    /\ \A s \in DOMAIN book.info : DOMAIN book.info[s] \subseteq DOMAIN now.db.tariffs[s]
    /\ \A s \in DOMAIN book.info \ DOMAIN db.active :
            now.db.active[s] = (book.legacy => Appears(book, s))
    /\ DOMAIN now.db.invoices \subseteq DOMAIN db.invoices \cup 1 .. n
    /\ now.ok => \A p \in DOMAIN book.months : p <= n => p \in DOMAIN now.db.invoices

\* A legacy import that skips no month has left, up to n, a tariff for each service that
\* it takes into use and a month charges for.
Priced(db, book, n, now) ==
    book.legacy /\ now.ok /\ DOMAIN book.months \cap DOMAIN db.invoices = {} =>
        \A p \in DOMAIN book.months : p <= n =>
            \A s \in DOMAIN book.months[p].rows \cap (DOMAIN book.info \ DOMAIN db.active) :
                \E d \in DOMAIN now.db.tariffs[s] : d <= p

LEMMA GrownAtFirst ==
  ASSUME NEW db, Sound(db), NEW book \in Workbooks
  PROVE  LET now == [ok |-> TRUE, db |-> WithServices(db, book)] IN
         Grown(db, book, 0, now) /\ Priced(db, book, 0, now)
<1> DEFINE new == WithServices(db, book)
           now == [ok |-> TRUE, db |-> new]
<1>1. /\ Sound(new) /\ new.invoices = db.invoices
      /\ DOMAIN new.active = DOMAIN db.active \cup DOMAIN book.info
      /\ \A s \in DOMAIN book.info : DOMAIN book.info[s] \subseteq DOMAIN new.tariffs[s]
      /\ \A s \in DOMAIN book.info \ DOMAIN db.active :
            new.active[s] = (book.legacy => Appears(book, s))
  BY WithServicesSound
<1> HIDE DEF new
<1>2. now.ok = TRUE /\ now.db = new /\ now = [ok |-> now.ok, db |-> now.db]
  OBVIOUS
<1>3. \A p \in DOMAIN book.months : p \in Nat /\ p >= 1
  BY WorkbooksAssumption DEF IsBook, Periods
<1>4. \A p \in DOMAIN book.months : ~(p <= 0)
  BY <1>3
<1> HIDE DEF now
<1>5. Grown(db, book, 0, now)
  BY <1>1, <1>2, <1>4 DEF Grown
<1>6. Priced(db, book, 0, now)
  BY <1>4 DEF Priced
<1>7. QED
  BY <1>5, <1>6 DEF now, new

LEMMA GrownByMonth ==
  ASSUME NEW db, NEW book \in Workbooks, NEW rent \in Rents, NEW p \in 1 .. MaxPeriod,
         NEW before, Grown(db, book, p - 1, before), Priced(db, book, p - 1, before)
  PROVE  LET now == Month(before, book, p, rent) IN
         Grown(db, book, p, now) /\ Priced(db, book, p, now)
<1> DEFINE now == Month(before, book, p, rent)
<1>1. /\ p \in Nat /\ DOMAIN book.months \subseteq Nat
      /\ \A q \in DOMAIN book.months : q <= p => q = p \/ q <= p - 1
      /\ 1 .. p = 1 .. (p - 1) \cup {p}
  BY WorkbooksAssumption, BoundsAssumption DEF IsBook, Periods
<1>2. CASE ~before.ok
  <2>1. now = before
    BY <1>2 DEF Month
  <2> HIDE DEF now
  <2>2. QED
    BY <1>1, <1>2, <2>1 DEF Grown, Priced, now
<1>3. CASE before.ok /\ ~ToImport(before.db, book, p)
  <2>1. now = before
    BY <1>3 DEF Month
  <2>2. p \in DOMAIN book.months => p \in DOMAIN before.db.invoices
    BY <1>3 DEF ToImport
  <2>3. p \in DOMAIN book.months => p \in DOMAIN db.invoices
    BY <1>1, <2>2 DEF Grown
  <2> HIDE DEF now
  <2>4. Grown(db, book, p, now)
    BY <1>1, <2>1, <2>2 DEF Grown
  <2>5. Priced(db, book, p, now)
    BY <1>1, <2>1, <2>3 DEF Priced
  <2>6. QED
    BY <2>4, <2>5 DEF now
<1>4. CASE before.ok /\ ToImport(before.db, book, p) /\ ~Importable(before.db, book, p)
  <2>1. now = [before EXCEPT !.ok = FALSE]
    BY <1>4 DEF Month
  <2>2. before = [ok |-> before.ok, db |-> before.db]
    BY DEF Grown
  <2>3. now = [ok |-> FALSE, db |-> before.db]
    BY ONLY <2>1, <2>2
  <2>4. now.ok = FALSE /\ now.db = before.db /\ now = [ok |-> now.ok, db |-> now.db]
    BY <2>3
  <2> HIDE DEF now
  <2>5. QED
    BY <1>1, <2>4 DEF Grown, Priced, now
<1>5. CASE before.ok /\ ToImport(before.db, book, p) /\ Importable(before.db, book, p)
  <2> DEFINE old == before.db
             new == WithMonth(old, book, p, rent)
             rows == DOMAIN book.months[p].rows
  <2>1. now = [ok |-> TRUE, db |-> new]
    BY <1>5 DEF Month
  <2>2. Sound(old) /\ p \in DOMAIN book.months /\ p \notin DOMAIN old.invoices
    BY <1>5 DEF Grown, ToImport
  <2>3. /\ Sound(new) /\ DOMAIN new.invoices = DOMAIN old.invoices \cup {p}
        /\ DOMAIN old.active \subseteq DOMAIN new.active
        /\ \A s \in DOMAIN old.active : /\ new.active[s] = old.active[s]
                                        /\ DOMAIN old.tariffs[s] \subseteq DOMAIN new.tariffs[s]
        /\ book.legacy => \A s \in rows \cap DOMAIN old.active :
                old.active[s] => \E d \in DOMAIN new.tariffs[s] : d <= p
    BY <1>5, <2>2, WithMonthSound
  <2> HIDE DEF new
  <2>4. now.ok = TRUE /\ now.db = new /\ now = [ok |-> now.ok, db |-> now.db]
    BY <2>1
  <2> HIDE DEF now
  <2>5. /\ DOMAIN book.info \subseteq DOMAIN old.active
        /\ \A s \in DOMAIN book.info : DOMAIN book.info[s] \subseteq DOMAIN old.tariffs[s]
        /\ \A s \in DOMAIN book.info \ DOMAIN db.active :
                old.active[s] = (book.legacy => Appears(book, s))
        /\ DOMAIN old.invoices \subseteq DOMAIN db.invoices \cup 1 .. (p - 1)
        /\ \A q \in DOMAIN book.months : q <= p - 1 => q \in DOMAIN old.invoices
    BY <1>5 DEF Grown
  <2>6. Grown(db, book, p, now)
    BY <1>1, <2>3, <2>4, <2>5 DEF Grown
  <2>7. ASSUME book.legacy, DOMAIN book.months \cap DOMAIN db.invoices = {},
               NEW q \in DOMAIN book.months, q <= p,
               NEW s \in DOMAIN book.months[q].rows \cap (DOMAIN book.info \ DOMAIN db.active)
        PROVE  \E d \in DOMAIN now.db.tariffs[s] : d <= q
    <3>1. s \in DOMAIN old.active /\ old.active[s]
      <4>1. Appears(book, s)
        BY <2>7 DEF Appears
      <4>2. QED
        BY <2>5, <2>7, <4>1
    <3>2. CASE q = p
      BY <2>3, <2>4, <2>7, <3>1, <3>2
    <3>3. CASE q <= p - 1
      <4>1. \E d \in DOMAIN old.tariffs[s] : d <= q
        BY <1>5, <2>7, <3>3 DEF Priced
      <4>2. QED
        BY <2>3, <2>4, <3>1, <4>1
    <3>4. QED
      BY <1>1, <2>7, <3>2, <3>3
  <2>8. Priced(db, book, p, now)
    BY <2>7 DEF Priced
  <2>9. QED
    BY <2>6, <2>8 DEF now
<1>6. QED
  BY <1>2, <1>3, <1>4, <1>5

LEMMA ResultGrown ==
  ASSUME NEW db, Sound(db), NEW book \in Workbooks, NEW rent \in Rents, WellFormed(book)
  PROVE  /\ Grown(db, book, MaxPeriod, Result(db, book, rent))
         /\ Priced(db, book, MaxPeriod, Result(db, book, rent))
<1> DEFINE after == After(db, book, rent)
           G == {n \in 0 .. MaxPeriod :
                    Grown(db, book, n, after[n]) /\ Priced(db, book, n, after[n])}
<1>1. Result(db, book, rent) = after[MaxPeriod]
  BY ProgressIsAfter DEF Result
<1>2. /\ after[0] = [ok |-> TRUE, db |-> WithServices(db, book)]
      /\ \A p \in 1 .. MaxPeriod : after[p] = Month(after[p - 1], book, p, rent)
  BY AfterMonth
<1> HIDE DEF after
<1>3. 0 \in G
  <2>1. 0 \in 0 .. MaxPeriod
    BY BoundsAssumption
  <2>2. QED
    BY <1>2, <2>1, GrownAtFirst
<1>4. ASSUME NEW n \in 1 .. MaxPeriod, n - 1 \in G
      PROVE  n \in G
  <2>1. Grown(db, book, n - 1, after[n - 1]) /\ Priced(db, book, n - 1, after[n - 1])
    BY <1>4
  <2>2. after[n] = Month(after[n - 1], book, n, rent)
    BY <1>2
  <2>3. Grown(db, book, n, after[n]) /\ Priced(db, book, n, after[n])
    BY <2>1, <2>2, GrownByMonth
  <2>4. n \in 0 .. MaxPeriod
    BY BoundsAssumption
  <2>5. QED
    BY <2>3, <2>4
<1>5. MaxPeriod \in G
  <2>1. \A n \in 0 .. MaxPeriod : n \in G
    <3> HIDE DEF G
    <3>1. QED
      BY <1>3, <1>4, MonthInduction
  <2>2. MaxPeriod \in 0 .. MaxPeriod
    BY BoundsAssumption
  <2>3. QED
    BY <2>1, <2>2
<1>6. QED
  BY <1>1, <1>5

-----------------------------------------------------------------------------
(* Importing again.                                                          *)

\* Services and tariffs that are all known already stay as they are.
LEMMA ServicesKnown ==
  ASSUME NEW db, Sound(db), NEW book \in Workbooks,
         DOMAIN book.info \subseteq DOMAIN db.active,
         \A s \in DOMAIN book.info : DOMAIN book.info[s] \subseteq DOMAIN db.tariffs[s]
  PROVE  WithServices(db, book) = db
<1> DEFINE known == DOMAIN db.active \cup DOMAIN book.info
           active1 == [s \in known |-> IF s \in DOMAIN db.active THEN db.active[s]
                                       ELSE book.legacy => Appears(book, s)]
           tariffs1 == [s \in known |->
                            IF s \in DOMAIN book.info THEN Added(TariffsOf(db, s), book.info[s])
                            ELSE db.tariffs[s]]
<1>1. WithServices(db, book) = [db EXCEPT !.active = active1, !.tariffs = tariffs1]
  BY Zenon DEF WithServices
<1>2. /\ db = [invoices |-> db.invoices, active |-> db.active, tariffs |-> db.tariffs]
      /\ db.active = [s \in DOMAIN db.active |-> db.active[s]]
      /\ DOMAIN db.tariffs = DOMAIN db.active
      /\ db.tariffs = [s \in DOMAIN db.active |-> db.tariffs[s]]
      /\ \A s \in DOMAIN db.tariffs : PartialFunction(db.tariffs[s], Periods, Prices)
  BY DEF Sound, ServicesOf
<1>3. known = DOMAIN db.active
  OBVIOUS
<1> HIDE DEF known
<1>4. active1 = db.active
  BY <1>2, <1>3
<1>5. ASSUME NEW s \in DOMAIN db.active
      PROVE  tariffs1[s] = db.tariffs[s]
  <2> DEFINE ts == db.tariffs[s]
             columns == book.info[s]
  <2>1. CASE s \in DOMAIN book.info
    <3>1. tariffs1[s] = Added(ts, columns)
      BY <1>2, <1>3, <2>1 DEF TariffsOf
    <3>2. DOMAIN columns \subseteq DOMAIN ts /\ ts = [p \in DOMAIN ts |-> ts[p]]
      BY <1>2, <2>1 DEF PartialFunction
    <3> HIDE DEF ts, columns, tariffs1
    <3>3. Added(ts, columns) = ts
      BY <3>2 DEF Added
    <3>4. QED
      BY <3>1, <3>3 DEF ts
  <2>2. CASE s \notin DOMAIN book.info
    BY <1>3, <2>2
  <2>3. QED
    BY <2>1, <2>2
<1>6. DOMAIN tariffs1 = known /\ tariffs1 = [s \in DOMAIN tariffs1 |-> tariffs1[s]]
  OBVIOUS
<1> HIDE DEF active1, tariffs1
<1>7. tariffs1 = db.tariffs
  BY <1>2, <1>3, <1>5, <1>6
<1>8. [db EXCEPT !.active = db.active, !.tariffs = db.tariffs] = db
  BY ONLY <1>2
<1>9. QED
  BY <1>1, <1>4, <1>7, <1>8

LEMMA ImportedAgain ==
  ASSUME NEW db, Sound(db), NEW book \in Workbooks, NEW rent \in Rents, NEW later \in Rents,
         Result(db, book, rent).ok
  PROVE  Result(Result(db, book, rent).db, book, later) = Result(db, book, rent)
<1> DEFINE first == Result(db, book, rent)
           now == first.db
           after == After(now, book, later)
           G == {n \in 0 .. MaxPeriod : after[n] = first}
<1>1. WellFormed(book)
  BY DEF Result
<1>2. Grown(db, book, MaxPeriod, first)
  BY <1>1, ResultGrown
<1>3. Result(now, book, later) = after[MaxPeriod]
  BY <1>1, ProgressIsAfter DEF Result
<1> HIDE DEF first
<1>4. /\ first = [ok |-> TRUE, db |-> now] /\ first.ok /\ Sound(now)
      /\ DOMAIN book.info \subseteq DOMAIN now.active
      /\ \A s \in DOMAIN book.info : DOMAIN book.info[s] \subseteq DOMAIN now.tariffs[s]
      /\ \A p \in DOMAIN book.months : p <= MaxPeriod => p \in DOMAIN now.invoices
  BY <1>2 DEF Grown, first
<1>5. WithServices(now, book) = now
  BY <1>4, ServicesKnown
<1>6. \A p : ~ToImport(now, book, p)
  <2>1. \A p \in DOMAIN book.months : p <= MaxPeriod
    BY WorkbooksAssumption, BoundsAssumption DEF IsBook, Periods
  <2>2. QED
    BY <1>4, <2>1 DEF ToImport
<1>7. /\ after[0] = [ok |-> TRUE, db |-> WithServices(now, book)]
      /\ \A p \in 1 .. MaxPeriod : after[p] = Month(after[p - 1], book, p, later)
  BY AfterMonth
<1> HIDE DEF after, now
<1>8. 0 \in G
  BY <1>4, <1>5, <1>7, BoundsAssumption
<1>9. ASSUME NEW n \in 1 .. MaxPeriod, n - 1 \in G
      PROVE  n \in G
  <2>1. after[n] = Month(first, book, n, later)
    BY <1>7, <1>9
  <2>2. ~ToImport(first.db, book, n)
    BY <1>6 DEF now
  <2>3. Month(first, book, n, later) = first
    BY <2>2 DEF Month
  <2>4. n \in 0 .. MaxPeriod
    BY BoundsAssumption
  <2>5. QED
    BY <2>1, <2>3, <2>4
<1>10. after[MaxPeriod] = first
  <2>1. \A n \in 0 .. MaxPeriod : n \in G
    <3> HIDE DEF G
    <3>1. QED
      BY <1>8, <1>9, MonthInduction
  <2>2. MaxPeriod \in 0 .. MaxPeriod
    BY BoundsAssumption
  <2>3. QED
    BY <2>1, <2>2
<1>11. QED
  BY <1>3, <1>10 DEF now, first

LEMMA DraftReady ==
  ASSUME NEW db, Sound(db), NEW book \in Workbooks, NEW rent \in Rents, book.legacy,
         Result(db, book, rent).ok, DOMAIN book.months \cap DOMAIN db.invoices = {},
         NEW s \in DOMAIN book.info \ DOMAIN db.active, Result(db, book, rent).db.active[s]
  PROVE  InForce(Result(db, book, rent).db.tariffs[s], MaxPeriod) # Missing
<1> DEFINE after == Result(db, book, rent)
           ts == after.db.tariffs[s]
<1>1. WellFormed(book)
  BY DEF Result
<1>2. Grown(db, book, MaxPeriod, after) /\ Priced(db, book, MaxPeriod, after)
  BY <1>1, ResultGrown
<1> HIDE DEF after
<1>3. Appears(book, s)
  BY <1>2 DEF Grown, after
<1>4. PICK p \in DOMAIN book.months : s \in DOMAIN book.months[p].rows
  BY <1>3 DEF Appears
<1>5. p \in Nat /\ p <= MaxPeriod /\ MaxPeriod \in Nat
  BY WorkbooksAssumption, BoundsAssumption DEF IsBook, Periods
<1>6. \E d \in DOMAIN ts : d <= p
  BY <1>2, <1>4, <1>5 DEF Priced, after
<1>7. PartialFunction(ts, Periods, Prices)
  BY <1>2 DEF Grown, Sound, ServicesOf
<1> HIDE DEF ts
<1>8. DOMAIN ts \subseteq Periods /\ \A q \in DOMAIN ts : ts[q] \in Prices
  BY <1>7 DEF PartialFunction
<1>9. PICK d \in DOMAIN ts : d <= p
  BY <1>6
<1>10. d \in Int /\ d <= MaxPeriod
  BY <1>5, <1>8, <1>9 DEF Periods
<1>11. \E q \in DOMAIN ts : InForce(ts, MaxPeriod) = ts[q]
  BY <1>8, <1>10, InForceIsTariff
<1>12. QED
  BY <1>8, <1>11, PricesAssumption DEF ts, after

-----------------------------------------------------------------------------
(* Every step keeps the apartment's services, tariffs and invoices sound.    *)

LEMMA InvoicesAreShaped ==
  ASSUME InvoicesOf(database)
  PROVE  Shape
BY DEF InvoicesOf, database, Shape

\* An edit leaves the other invoices alone and computes the totals.
LEMMA UpdateAddsUp ==
  ASSUME Shape, NEW p \in DOMAIN invoices, Update(p)
  PROVE  \E new : /\ InvoiceShape(new) /\ AddsUp(new)
                  /\ invoices' = [invoices EXCEPT ![p] = new]
<1>1. PICK rate \in Rates, curr \in [MeteredLines(p) -> Readings \cup {Missing}] :
        \/ UpdateReadings(p, rate, curr)
        \/ \E kept \in SUBSET LinesOf(p), fresh \in 0 .. MaxLine :
            UpdateAdjustments(p, rate, curr, kept, fresh)
  BY DEF Update
<1> DEFINE edited == Edited(p, rate, curr)
<1>2. InvoiceShape(edited) /\ IsRecord(edited)
  BY EditedKeeps DEF Shape, InvoiceShape
<1>3. CASE UpdateReadings(p, rate, curr)
  <2>1. invoices' = [invoices EXCEPT ![p] = Recalculate(edited)]
    BY <1>3 DEF UpdateReadings
  <2> HIDE DEF edited
  <2>2. InvoiceShape(Recalculate(edited)) /\ Current(Recalculate(edited))
    BY <1>2, RecalculateKeeps
  <2>3. QED
    BY <2>1, <2>2, CurrentAddsUp
<1>4. CASE \E kept \in SUBSET LinesOf(p), fresh \in 0 .. MaxLine :
                UpdateAdjustments(p, rate, curr, kept, fresh)
  <2>1. PICK adj : invoices' = [invoices EXCEPT ![p] = Recalculate([edited EXCEPT !.adj = adj])]
    BY <1>4 DEF UpdateAdjustments
  <2> HIDE DEF edited
  <2> DEFINE adjusted == [edited EXCEPT !.adj = adj]
  <2>2. IsRecord(adjusted) /\ adjusted.lines = edited.lines
    BY <1>2, RecordWithAdjustments
  <2>3. invoices' = [invoices EXCEPT ![p] = Recalculate(adjusted)]
    BY <2>1
  <2> HIDE DEF adjusted
  <2>4. InvoiceShape(adjusted)
    BY <1>2, <2>2 DEF InvoiceShape
  <2>5. InvoiceShape(Recalculate(adjusted)) /\ Current(Recalculate(adjusted))
    BY <2>4, RecalculateKeeps
  <2>6. QED
    BY <2>3, <2>5, CurrentAddsUp
<1>5. QED
  BY <1>1, <1>3, <1>4

LEMMA TransitionAddsUp ==
  ASSUME Shape, NEW p \in DOMAIN invoices, AddsUp(invoices[p]), Transition(p)
  PROVE  \E new : /\ InvoiceShape(new) /\ AddsUp(new)
                  /\ invoices' = [invoices EXCEPT ![p] = new]
<1>1. InvoiceShape(invoices[p])
  BY DEF Shape
<1>2. CASE Issue(p)
  <2> DEFINE inv == Recalculate(invoices[p])
             new == [inv EXCEPT !.status = "issued"]
  <2>1. InvoiceShape(inv) /\ Current(inv)
    BY <1>1, RecalculateKeeps
  <2>2. invoices' = [invoices EXCEPT ![p] = new]
    BY <1>2 DEF Issue
  <2> HIDE DEF inv
  <2>3. InvoiceShape(new) /\ AddsUp(new)
    BY <2>1, CurrentAddsUp, StatusAddsUp
  <2>4. QED
    BY <2>2, <2>3
<1>3. ASSUME NEW status, invoices' = [invoices EXCEPT ![p].status = status]
      PROVE  \E new : /\ InvoiceShape(new) /\ AddsUp(new)
                      /\ invoices' = [invoices EXCEPT ![p] = new]
  <2> DEFINE inv == invoices[p]
             new == [inv EXCEPT !.status = status]
  <2>1. InvoiceShape(new) /\ AddsUp(new)
    <3> HIDE DEF inv
    <3>1. InvoiceShape(inv) /\ AddsUp(inv)
      BY <1>1 DEF inv
    <3>2. QED
      BY <3>1, StatusAddsUp
  <2>2. invoices' = [invoices EXCEPT ![p] = new]
    BY <1>3
  <2>3. QED
    BY <2>1, <2>2
<1>4. CASE RevertToDraft(p) \/ MarkPaid(p) \/ UnmarkPaid(p)
  BY <1>3, <1>4 DEF RevertToDraft, MarkPaid, UnmarkPaid
<1>5. QED
  BY <1>2, <1>4 DEF Transition

\* The owner's work on invoices.
LEMMA WorkKeepsInvoices ==
  ASSUME InvoicesOf(database), NEW p \in DOMAIN invoices,
         Update(p) \/ DeleteDraft(p) \/ Transition(p)
  PROVE  InvoicesOf(database)'
<1>1. Shape /\ DOMAIN invoices \subseteq Periods /\ AddsUp(invoices[p])
      /\ \A q \in DOMAIN invoices : InvoiceShape(invoices[q]) /\ AddsUp(invoices[q])
  BY InvoicesAreShaped DEF InvoicesOf, database
<1>2. ASSUME NEW new, InvoiceShape(new), AddsUp(new), invoices' = [invoices EXCEPT ![p] = new]
      PROVE  /\ DOMAIN invoices' \subseteq Periods
             /\ \A q \in DOMAIN invoices' : InvoiceShape(invoices'[q]) /\ AddsUp(invoices'[q])
  BY <1>1, <1>2
<1>3. ASSUME DeleteDraft(p)
      PROVE  /\ DOMAIN invoices' \subseteq Periods
             /\ \A q \in DOMAIN invoices' : InvoiceShape(invoices'[q]) /\ AddsUp(invoices'[q])
  BY <1>1, <1>3, DeleteDraftRemoves
<1>4. /\ DOMAIN invoices' \subseteq Periods
      /\ \A q \in DOMAIN invoices' : InvoiceShape(invoices'[q]) /\ AddsUp(invoices'[q])
  <2>1. CASE Update(p)
    BY <1>1, <1>2, <2>1, UpdateAddsUp
  <2>2. CASE Transition(p)
    BY <1>1, <1>2, <2>2, TransitionAddsUp
  <2>3. QED
    BY <1>3, <2>1, <2>2
<1>5. database'.invoices = invoices'
  BY DEF database
<1>6. QED
  BY <1>4, <1>5 DEF InvoicesOf

LEMMA CreateKeepsInvoices ==
  ASSUME InvoicesOf(database), NEW p \in Periods, NEW used, NEW rent, NEW rate,
         CreateDraft(p, used, rent, rate)
  PROVE  InvoicesOf(database)'
<1>1. Shape /\ DOMAIN invoices \subseteq Periods
      /\ \A q \in DOMAIN invoices : InvoiceShape(invoices[q]) /\ AddsUp(invoices[q])
  BY InvoicesAreShaped DEF InvoicesOf, database
<1>2. Creates(p)
  BY <1>1, CreateDraftCreates
<1>3. /\ DOMAIN invoices' = DOMAIN invoices \cup {p}
      /\ \A q \in DOMAIN invoices : invoices'[q] = invoices[q]
      /\ InvoiceShape(invoices'[p]) /\ Current(invoices'[p])
  BY <1>2 DEF Creates
<1>4. AddsUp(invoices'[p])
  BY <1>3, CurrentAddsUp
<1>5. database'.invoices = invoices'
  BY DEF database
<1>6. QED
  BY <1>1, <1>3, <1>4, <1>5 DEF InvoicesOf

LEMMA DatabaseIsRecord ==
  /\ database = [invoices |-> database.invoices, active |-> database.active,
                 tariffs |-> database.tariffs]
  /\ database.invoices = invoices /\ database.active = active /\ database.tariffs = tariffs
BY DEF database

\* The owner's work on services and tariffs.
LEMMA ServicesKept ==
  ASSUME ServicesOf(database),
         \/ \E s \in Own, on \in BOOLEAN : SetService(s, on)
         \/ \E s \in Own, p \in Periods, v \in OwnPrices : SetTariff(s, p, v)
  PROVE  ServicesOf(database)'
<1>1. /\ DOMAIN active \subseteq Services /\ active \in [DOMAIN active -> BOOLEAN]
      /\ DOMAIN tariffs = DOMAIN active
      /\ tariffs = [s \in DOMAIN tariffs |-> tariffs[s]]
      /\ \A s \in DOMAIN tariffs : PartialFunction(tariffs[s], Periods, Prices)
  BY DatabaseIsRecord DEF ServicesOf
<1>2. ASSUME NEW s \in Own, NEW on \in BOOLEAN, SetService(s, on)
      PROVE  /\ DOMAIN active' \subseteq Services /\ active' \in [DOMAIN active' -> BOOLEAN]
             /\ DOMAIN tariffs' = DOMAIN active'
             /\ tariffs' = [r \in DOMAIN tariffs' |-> tariffs'[r]]
             /\ \A r \in DOMAIN tariffs' : PartialFunction(tariffs'[r], Periods, Prices)
  <2> DEFINE ts == TariffsOf(database, s)
  <2>1. active' = Put(active, s, on) /\ tariffs' = Put(tariffs, s, ts)
    BY <1>2 DEF SetService
  <2>2. PartialFunction(ts, Periods, Prices)
    BY TariffsOfType
  <2>3. s \in Services
    BY OwnAssumption
  <2> HIDE DEF ts
  <2>4. /\ DOMAIN active' = DOMAIN active \cup {s} /\ active' \in [DOMAIN active' -> BOOLEAN]
    BY <1>1, <2>1 DEF Put
  <2>5. /\ DOMAIN tariffs' = DOMAIN tariffs \cup {s}
        /\ tariffs' = [r \in DOMAIN tariffs' |-> tariffs'[r]]
        /\ \A r \in DOMAIN tariffs' : tariffs'[r] = IF r = s THEN ts ELSE tariffs[r]
    BY <2>1 DEF Put
  <2>6. QED
    BY <1>1, <2>2, <2>3, <2>4, <2>5
<1>3. ASSUME NEW s \in Own, NEW p \in Periods, NEW v \in OwnPrices, SetTariff(s, p, v)
      PROVE  /\ DOMAIN active' \subseteq Services /\ active' \in [DOMAIN active' -> BOOLEAN]
             /\ DOMAIN tariffs' = DOMAIN active'
             /\ tariffs' = [r \in DOMAIN tariffs' |-> tariffs'[r]]
             /\ \A r \in DOMAIN tariffs' : PartialFunction(tariffs'[r], Periods, Prices)
  <2>1. /\ s \in DOMAIN tariffs /\ active' = active
        /\ tariffs' = [tariffs EXCEPT ![s] = Put(tariffs[s], p, v)]
    BY <1>1, <1>3 DEF SetTariff
  <2>2. PartialFunction(Put(tariffs[s], p, v), Periods, Prices)
    BY <1>1, <2>1, PutTariff, PricesAssumption
  <2>3. QED
    BY <1>1, <2>1, <2>2
<1>4. /\ DOMAIN active' \subseteq Services /\ active' \in [DOMAIN active' -> BOOLEAN]
      /\ DOMAIN tariffs' = DOMAIN active'
      /\ tariffs' = [r \in DOMAIN tariffs' |-> tariffs'[r]]
      /\ \A r \in DOMAIN tariffs' : PartialFunction(tariffs'[r], Periods, Prices)
  BY <1>2, <1>3
<1>5. database'.active = active' /\ database'.tariffs = tariffs'
  BY DEF database
<1>6. QED
  BY <1>4, <1>5 DEF ServicesOf

LEMMA SoundAtFirst == HistoryInit => Sound(database)
<1> SUFFICES ASSUME HistoryInit
             PROVE  Sound(database)
  OBVIOUS
<1>1. DOMAIN invoices = {}
  BY DEF HistoryInit, Init
<1>2. active = [s \in {} |-> TRUE] /\ tariffs = [s \in {} |-> [p \in {} |-> 0]]
  BY DEF HistoryInit
<1>3. DOMAIN active = {} /\ active \in [{} -> BOOLEAN] /\ DOMAIN tariffs = {}
      /\ tariffs = [s \in DOMAIN tariffs |-> tariffs[s]]
  BY <1>2
<1>4. QED
  BY <1>1, <1>3, DatabaseIsRecord DEF Sound, ServicesOf, InvoicesOf

LEMMA SoundByStep == Sound(database) /\ [HistoryNext]_historyVars => Sound(database)'
<1> SUFFICES ASSUME Sound(database), [HistoryNext]_historyVars
             PROVE  Sound(database)'
  OBVIOUS
<1>1. ServicesOf(database) /\ InvoicesOf(database)
  BY DEF Sound
<1>2. ASSUME ServicesOf(database)', InvoicesOf(database)'
      PROVE  Sound(database)'
  BY <1>2 DEF Sound, database
<1>3. ASSUME active' = active, tariffs' = tariffs
      PROVE  ServicesOf(database)'
  BY <1>1, <1>3 DEF ServicesOf, database
<1>4. ASSUME invoices' = invoices
      PROVE  InvoicesOf(database)'
  BY <1>1, <1>4 DEF InvoicesOf, database
<1>5. ASSUME NEW book \in Workbooks, NEW rent \in Rents, ImportHistory(book, rent)
      PROVE  Sound(database)'
  <2> DEFINE result == Result(database, book, rent)
  <2>1. /\ result.ok /\ invoices' = result.db.invoices
        /\ active' = result.db.active /\ tariffs' = result.db.tariffs
    BY <1>5 DEF ImportHistory
  <2>2. WellFormed(book)
    BY <2>1 DEF Result
  <2>3. Sound(result.db)
    BY <2>2, ResultGrown DEF Grown
  <2> HIDE DEF result
  <2>4. database' = [invoices |-> result.db.invoices, active |-> result.db.active,
                     tariffs |-> result.db.tariffs]
    BY <2>1 DEF database
  <2>5. database' = result.db
    BY <2>3, <2>4 DEF Sound
  <2>6. QED
    BY <2>3, <2>5 DEF Sound, ServicesOf, InvoicesOf
<1>6. ASSUME NEW p \in Periods, NEW rent \in Rents, NEW rate \in Rates, StartDraft(p, rent, rate)
      PROVE  Sound(database)'
  BY <1>1, <1>2, <1>3, <1>6, CreateKeepsInvoices DEF StartDraft
<1>7. ASSUME NEW p \in DOMAIN invoices, WorkOn(p)
      PROVE  Sound(database)'
  BY <1>1, <1>2, <1>3, <1>7, WorkKeepsInvoices DEF WorkOn
<1>8. ASSUME NEW s \in Own, NEW on \in BOOLEAN, SetService(s, on)
      PROVE  Sound(database)'
  BY <1>1, <1>2, <1>4, <1>8, ServicesKept DEF SetService, vars
<1>9. ASSUME NEW s \in Own, NEW p \in Periods, NEW v \in OwnPrices, SetTariff(s, p, v)
      PROVE  Sound(database)'
  BY <1>1, <1>2, <1>4, <1>9, ServicesKept DEF SetTariff, vars
<1>10. CASE UNCHANGED historyVars
  BY <1>2, <1>3, <1>4, <1>10 DEF historyVars, vars
<1>11. CASE HistoryNext
  BY <1>5, <1>6, <1>7, <1>8, <1>9, <1>11 DEF HistoryNext
<1>12. QED
  BY <1>10, <1>11

\* The inductive invariant of imports and of the owner's own work between them.
THEOREM ImportInvariance == HistorySpec => []Sound(database)
<1>1. HistoryInit => Sound(database)
  BY SoundAtFirst
<1>2. Sound(database) /\ [HistoryNext]_historyVars => Sound(database)'
  BY SoundByStep
<1>3. QED
  BY <1>1, <1>2, PTL DEF HistorySpec

\* The totals of an imported invoice are the sums of its lines and parts, with the line
\* for the difference to a legacy total as without it, and so are those of any other
\* invoice (importer.py computes them itself).
THEOREM ImportedTotalsAddUp == HistorySpec => []TotalsAddUp
<1>1. Sound(database) => TotalsAddUp
  BY DEF Sound, InvoicesOf, AddsUp, Utilities, TotalsAddUp, database
<1>2. QED
  BY <1>1, ImportInvariance, PTL

\* A workbook that was imported can be imported again and adds nothing, whatever the
\* apartment had before and whatever its rent is by then (_import_month skips months that
\* have an invoice, _import_services and _import_legacy_services dates that have a tariff).
THEOREM ImportingTwiceSettles == HistorySpec => []ImportSettles
<1>1. Sound(database) => ImportSettles
  BY ImportedAgain DEF ImportSettles
<1>2. QED
  BY <1>1, ImportInvariance, PTL

\* After a legacy import that skipped no month, each service that it took into use has a
\* tariff in force, so that the next month's draft can be created (_record_legacy_tariff).
THEOREM LegacyLeavesTariffs == HistorySpec => []LegacyDraftReady
<1>1. Sound(database) => LegacyDraftReady
  <2> SUFFICES ASSUME Sound(database), NEW book \in Workbooks, book.legacy, NEW rent \in Rents,
                      Result(database, book, rent).ok,
                      DOMAIN book.months \cap DOMAIN invoices = {},
                      NEW s \in DOMAIN book.info \ DOMAIN active,
                      Result(database, book, rent).db.active[s]
               PROVE  InForce(Result(database, book, rent).db.tariffs[s], MaxPeriod) # Missing
    BY Zenon DEF LegacyDraftReady
  <2>1. database.invoices = invoices /\ database.active = active
    BY DatabaseIsRecord
  <2>2. QED
    BY <2>1, DraftReady
<1>2. QED
  BY <1>1, ImportInvariance, PTL
=============================================================================
