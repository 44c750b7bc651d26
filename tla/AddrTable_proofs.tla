-------------------------- MODULE AddrTable_proofs --------------------------
(***************************************************************************)
(* Proofs about the address translation table, for every size of the table *)
(* and every set of addresses.  They assume that an entry for a long       *)
(* address alone does not take the place of an expired one (the known      *)
(* defect EvictsByIeee), and speak of the table until zb_address_update    *)
(* first redirects a part of a redirection again (tangled).                *)
(*                                                                         *)
(* The first part is about the algorithms on the array of references: what *)
(* the bisection of short_search and zb_add_short_addr_sorted returns and  *)
(* what the scan of del_short_sorted leaves.  They are recursive functions *)
(* over naturals, so that what they compute follows by induction on the    *)
(* length, here as the absence of a smallest counterexample.               *)
(*                                                                         *)
(* The second part is the inductive invariant TableInv.  Of the entries it *)
(* says that one out of use holds nothing, that a redirection is locked    *)
(* and leads to an entry in use which is not one, that the entries with    *)
(* one long address lead to one entry, and that a lock counter is the sum  *)
(* of the locks held on the entry and on all that are redirected to it; of *)
(* the array, that it is the sorted list of the entries with an address of *)
(* their own.  It is stated of any table t and locks h, so that each step  *)
(* of an operation that calls others keeps it; between them it may not     *)
(* hold of the array and the entries at once, and the lemmas say how far   *)
(* it does.                                                                *)
(***************************************************************************)
EXTENDS AddrTable, SequenceTheorems, WellFoundedInduction, TLAPS

-----------------------------------------------------------------------------
(* Induction, as a smallest counterexample.                                *)

LEMMA Smallest ==
  ASSUME NEW S \in SUBSET Nat, S # {}
  PROVE  \E m \in S : \A k \in S : m <= k
  <1> DEFINE R == OpToRel(<, Nat)
  <1>1. IsWellFoundedOn(R, Nat)  BY NatLessThanWellFounded
  <1>2. \A x, y \in Nat : <<y, x>> \in R <=> y < x  BY DEF OpToRel
  <1> HIDE DEF R
  <1>3. PICK m \in S : \A k \in S : <<k, m>> \notin R  BY <1>1, WFMin
  <1>4. \A k \in S : ~ (k < m)  BY <1>2, <1>3
  <1>5. \A k \in S : m <= k  BY <1>4
  <1> QED  BY <1>5

-----------------------------------------------------------------------------
(* The bisection.                                                          *)

LEMMA Middle ==
  ASSUME NEW l \in Nat, NEW r \in Nat, l < r
  PROVE  l + (r - l) \div 2 \in l..r - 1
  <1>1. PICK d \in Nat : d = r - l /\ d > 0  OBVIOUS
  <1>2. d \div 2 \in Nat /\ d \div 2 < d  BY <1>1, SMT
  <1> QED  BY <1>1, <1>2

\* One step of the bisection of 0..n for the first index where before is false.
Step(n, before, f) ==
  [w \in (0..n) \X (0..n) |->
     LET l == w[1]
         r == w[2]
         i == l + (r - l) \div 2
     IN IF l >= r THEN l ELSE IF before[i] THEN f[<<i + 1, r>>] ELSE f[<<l, i>>]]

LEMMA StepExists ==
  ASSUME NEW n \in Nat, NEW k \in 0..n, NEW before,
         \A i \in 0..n - 1 : before[i] <=> i < k
  PROVE  \E f : f = Step(n, before, f)
  <1> DEFINE V(l, r) == IF l >= r THEN l ELSE IF k < l THEN l ELSE IF k > r THEN r ELSE k
             g == [w \in (0..n) \X (0..n) |-> V(w[1], w[2])]
  <1>1. ASSUME NEW l \in 0..n, NEW r \in 0..n
        PROVE  g[<<l, r>>] = IF l >= r THEN l
                         ELSE LET i == l + (r - l) \div 2
                              IN IF before[i] THEN g[<<i + 1, r>>] ELSE g[<<l, i>>]
    <2>1. CASE l >= r  BY <2>1
    <2>2. CASE l < r
      <3>1. PICK i : i = l + (r - l) \div 2  OBVIOUS
      <3>2. i \in l..r - 1  BY <2>2, <3>1, Middle
      <3>3. i \in 0..n - 1 /\ i \in 0..n /\ i + 1 \in 0..n  BY <3>2
      <3>4. before[i] <=> i < k  BY <3>3
      <3>5. g[<<l, r>>] = V(l, r) /\ g[<<i + 1, r>>] = V(i + 1, r) /\ g[<<l, i>>] = V(l, i)  BY <3>3
      <3>6. V(l, r) = IF i < k THEN V(i + 1, r) ELSE V(l, i)  BY <2>2, <3>2
      <3> HIDE DEF g, V
      <3> QED  BY <2>2, <3>1, <3>4, <3>5, <3>6
    <2> QED  BY <2>1, <2>2
  <1>2. ASSUME NEW w \in (0..n) \X (0..n)
        PROVE  g[w] = LET l == w[1]
                          r == w[2]
                          i == l + (r - l) \div 2
                      IN IF l >= r THEN l ELSE IF before[i] THEN g[<<i + 1, r>>] ELSE g[<<l, i>>]
    <2>1. w[1] \in 0..n /\ w[2] \in 0..n /\ w = <<w[1], w[2]>>  OBVIOUS
    <2> HIDE DEF g
    <2> QED  BY <1>1, <2>1
  <1>3. g = [w \in (0..n) \X (0..n) |-> g[w]]  OBVIOUS
  <1> HIDE DEF g
  <1>4. g = Step(n, before, g)  BY <1>2, <1>3, Zenon DEF Step
  <1> QED  BY <1>4

LEMMA StepValue ==
  ASSUME NEW n \in Nat, NEW k \in 0..n, NEW before, NEW f,
         \A i \in 0..n - 1 : before[i] <=> i < k,
         f = Step(n, before, f)
  PROVE  f[<<0, n>>] = k
  <1> DEFINE Good(d) == \A l, r \in 0..n : l <= k /\ k <= r /\ r - l = d => f[<<l, r>>] = k
             Bad == {d \in Nat : ~ Good(d)}
  <1>1. \A l, r \in 0..n : f[<<l, r>>] = IF l >= r THEN l
                                     ELSE LET i == l + (r - l) \div 2
                                          IN IF before[i] THEN f[<<i + 1, r>>] ELSE f[<<l, i>>]
    BY DEF Step
  <1>2. ASSUME Bad # {} PROVE FALSE
    <2>1. PICK d \in Bad : \A e \in Bad : d <= e  BY <1>2, Smallest
    <2>2. \A e \in Nat : e < d => Good(e)
      <3> HIDE DEF Good
      <3> QED  BY <2>1
    <2>3. PICK l \in 0..n, r \in 0..n : l <= k /\ k <= r /\ r - l = d /\ f[<<l, r>>] # k  BY <2>1
    <2>4. l >= r => f[<<l, r>>] = l  BY <1>1
    <2>41. l < r  BY <2>3, <2>4
    <2>5. PICK i : i = l + (r - l) \div 2  OBVIOUS
    <2>6. i \in l..r - 1  BY <2>41, <2>5, Middle
    <2>7. f[<<l, r>>] = IF before[i] THEN f[<<i + 1, r>>] ELSE f[<<l, i>>]  BY <1>1, <2>41, <2>5
    <2>8. before[i] <=> i < k  BY <2>6
    <2>9. CASE i < k
      <3>1. i + 1 \in 0..n /\ r - (i + 1) \in Nat /\ r - (i + 1) < d /\ i + 1 <= k  BY <2>3, <2>6, <2>9
      <3>2. Good(r - (i + 1))  BY <2>2, <3>1
      <3>3. f[<<i + 1, r>>] = k  BY <2>3, <3>1, <3>2
      <3> QED  BY <2>3, <2>7, <2>8, <2>9, <3>3
    <2>10. CASE ~ (i < k)
      <3>1. i \in 0..n /\ i - l \in Nat /\ i - l < d /\ k <= i  BY <2>3, <2>6, <2>10
      <3>2. Good(i - l)  BY <2>2, <3>1
      <3>3. f[<<l, i>>] = k  BY <2>3, <3>1, <3>2
      <3> QED  BY <2>3, <2>7, <2>8, <2>10, <3>3
    <2> QED  BY <2>9, <2>10
  <1>3. Good(n)  BY <1>2
  <1> QED  BY <1>3

\* Where before holds exactly below k, the bisection finds k.
LEMMA BisectFinds ==
  ASSUME NEW n \in Nat, n > 1, NEW k \in 0..n, NEW before,
         \A i \in 0..n - 1 : before[i] <=> i < k
  PROVE  Bisect(n, before) = k
  <1> DEFINE f == CHOOSE f : f = Step(n, before, f)
  <1>1. Bisect(n, before) = f[<<0, n>>]  BY DEF Bisect, Step
  <1>2. f = Step(n, before, f)  BY StepExists
  <1> HIDE DEF f
  <1> QED  BY <1>1, <1>2, StepValue

-----------------------------------------------------------------------------
(* The sorted array.                                                       *)

Tables == [map : [Ref -> Entry], sorted : Seq(Ref)]

Refs(q) == {q[i] : i \in 1..Len(q)}

Increasing(m, q) == \A i, j \in 1..Len(q) : i < j => m[q[i]].addr < m[q[j]].addr

\* The array after element i was overwritten by those after it.
Moved(q, i) == [j \in 1..Len(q) |-> IF j < i \/ j = Len(q) THEN q[j] ELSE q[j + 1]]

Found(a, r, n, i) ==
  IF a.refs[i] # r THEN a
  ELSE [refs |-> [j \in 1..n |-> IF j < i \/ j = n THEN a.refs[j] ELSE a.refs[j + 1]],
        dec |-> a.dec + 1]

Scan(q, r, f) ==
  [i \in 0..Len(q) |-> IF i = 0 THEN [refs |-> q, dec |-> 0] ELSE Found(f[i - 1], r, Len(q), i)]

Scanned(q, p, i) == IF p <= i THEN [refs |-> Moved(q, p), dec |-> 1] ELSE [refs |-> q, dec |-> 0]

LEMMA ScanStep ==
  ASSUME NEW q \in Seq(Ref), NEW r \in Ref, NEW p \in 1..Len(q) + 1, NEW i \in 1..Len(q),
         \A j \in 1..Len(q) : q[j] = r <=> j = p
  PROVE  Found(Scanned(q, p, i - 1), r, Len(q), i) = Scanned(q, p, i)
  <1> DEFINE n == Len(q)
  <1>0. n \in Nat /\ i - 1 \in Nat /\ p \in Nat  OBVIOUS
  <1>1. CASE p <= i - 1
    <2>1. Scanned(q, p, i - 1) = [refs |-> Moved(q, p), dec |-> 1]  BY <1>1 DEF Scanned
    <2>2. Scanned(q, p, i) = [refs |-> Moved(q, p), dec |-> 1]  BY <1>0, <1>1 DEF Scanned
    <2>3. Moved(q, p)[i] = IF i < p \/ i = n THEN q[i] ELSE q[i + 1]  BY DEF Moved
    <2>4. Moved(q, p)[i] # r  BY <1>0, <1>1, <2>3
    <2> QED  BY <2>1, <2>2, <2>4 DEF Found
  <1>2. CASE p = i
    <2>1. Scanned(q, p, i - 1) = [refs |-> q, dec |-> 0]  BY <1>0, <1>2 DEF Scanned
    <2>2. Scanned(q, p, i) = [refs |-> Moved(q, p), dec |-> 1]  BY <1>0, <1>2 DEF Scanned
    <2>3. q[i] = r  BY <1>2
    <2>4. PICK a : a = Scanned(q, p, i - 1)  OBVIOUS
    <2>5. a.refs = q /\ a.dec = 0 /\ a.dec + 1 = 1  BY <2>1, <2>4
    <2>6. Found(a, r, n, i) = [refs |-> [j \in 1..n |-> IF j < i \/ j = n THEN q[j] ELSE q[j + 1]],
                               dec |-> 1]
      BY <2>3, <2>5 DEF Found
    <2>7. Found(a, r, n, i) = [refs |-> Moved(q, p), dec |-> 1]  BY <1>2, <2>6 DEF Moved
    <2> QED  BY <2>2, <2>4, <2>7
  <1>3. CASE p > i
    <2>1. Scanned(q, p, i - 1) = [refs |-> q, dec |-> 0]  BY <1>0, <1>3 DEF Scanned
    <2>2. Scanned(q, p, i) = [refs |-> q, dec |-> 0]  BY <1>0, <1>3 DEF Scanned
    <2>3. q[i] # r  BY <1>3
    <2> QED  BY <2>1, <2>2, <2>3 DEF Found
  <1> QED  BY <1>0, <1>1, <1>2, <1>3

LEMMA ScanExists ==
  ASSUME NEW q \in Seq(Ref), NEW r \in Ref, NEW p \in 1..Len(q) + 1,
         \A j \in 1..Len(q) : q[j] = r <=> j = p
  PROVE  \E f : f = Scan(q, r, f)
  <1> DEFINE g == [i \in 0..Len(q) |-> Scanned(q, p, i)]
  <1>0. Len(q) \in Nat  OBVIOUS
  <1>1. Scanned(q, p, 0) = [refs |-> q, dec |-> 0]  BY <1>0 DEF Scanned
  <1>2. ASSUME NEW i \in 0..Len(q)
        PROVE  g[i] = IF i = 0 THEN [refs |-> q, dec |-> 0] ELSE Found(g[i - 1], r, Len(q), i)
    <2>1. CASE i = 0  BY <1>1, <2>1
    <2>2. CASE i # 0
      <3>1. i \in 1..Len(q) /\ i - 1 \in 0..Len(q)  BY <2>2, <1>0
      <3>2. Found(Scanned(q, p, i - 1), r, Len(q), i) = Scanned(q, p, i)  BY <3>1, ScanStep
      <3> QED  BY <2>2, <3>1, <3>2
    <2> QED  BY <2>1, <2>2
  <1>3. g = [i \in 0..Len(q) |-> g[i]]  OBVIOUS
  <1> HIDE DEF g
  <1>4. g = Scan(q, r, g)  BY <1>2, <1>3, Zenon DEF Scan
  <1> QED  BY <1>4

LEMMA ScanValue ==
  ASSUME NEW q \in Seq(Ref), NEW r \in Ref, NEW p \in 1..Len(q) + 1, NEW f,
         \A j \in 1..Len(q) : q[j] = r <=> j = p,
         f = Scan(q, r, f)
  PROVE  f[Len(q)] = Scanned(q, p, Len(q))
  <1> DEFINE Bad == {i \in 0..Len(q) : f[i] # Scanned(q, p, i)}
  <1>0. Len(q) \in Nat  OBVIOUS
  <1>1. \A i \in 0..Len(q) : f[i] = IF i = 0 THEN [refs |-> q, dec |-> 0]
                                    ELSE Found(f[i - 1], r, Len(q), i)
    BY DEF Scan
  <1>2. ASSUME Bad # {} PROVE FALSE
    <2>1. Bad \in SUBSET Nat  BY <1>0
    <2>2. PICK i \in Bad : \A k \in Bad : i <= k  BY <1>2, <2>1, Smallest
    <2>3. i # 0  BY <1>0, <1>1, <2>2 DEF Scanned
    <2>4. i \in 1..Len(q) /\ i - 1 \in 0..Len(q) /\ i - 1 < i  BY <1>0, <2>2, <2>3
    <2>5. f[i - 1] = Scanned(q, p, i - 1)  BY <2>2, <2>4
    <2>6. f[i] = Scanned(q, p, i)  BY <1>1, <2>3, <2>4, <2>5, ScanStep
    <2> QED  BY <2>2, <2>6
  <1> QED  BY <1>0, <1>2

\* The places of an array that is in order differ.
LEMMA InPlace ==
  ASSUME NEW m \in [Ref -> Entry], NEW q \in Seq(Ref), NEW r, Increasing(m, q)
  PROVE  \E p \in 1..Len(q) + 1 : /\ \A j \in 1..Len(q) : q[j] = r <=> j = p
                                  /\ p = Len(q) + 1 <=> r \notin Refs(q)
  <1>0. Len(q) \in Nat  OBVIOUS
  <1>1. CASE r \notin Refs(q)
    <2>1. \A j \in 1..Len(q) : q[j] # r  BY <1>1 DEF Refs
    <2>2. Len(q) + 1 \in 1..Len(q) + 1 /\ \A j \in 1..Len(q) : j # Len(q) + 1  BY <1>0
    <2> QED  BY <1>1, <2>1, <2>2
  <1>2. CASE r \in Refs(q)
    <2>1. PICK p \in 1..Len(q) : q[p] = r  BY <1>2 DEF Refs
    <2>2. ASSUME NEW j \in 1..Len(q), q[j] = r PROVE j = p
      <3>1. m[r].addr \in Int
        BY <2>1, AddrConstants DEF Entry, Short, NoShort
      <3>2. ~ (j < p) /\ ~ (p < j)  BY <2>1, <2>2, <3>1 DEF Increasing
      <3> QED  BY <3>2
    <2>3. p \in 1..Len(q) + 1 /\ p # Len(q) + 1  BY <1>0
    <2> QED  BY <1>2, <2>1, <2>2, <2>3
  <1> QED  BY <1>1, <1>2

\* del_short_sorted takes the reference out and keeps the order.
LEMMA DelSortedIs ==
  ASSUME NEW t \in Tables, NEW m \in [Ref -> Entry], NEW r \in Ref, Increasing(m, t.sorted)
  PROVE  LET q == DelSorted(t, r).sorted
         IN /\ DelSorted(t, r) = [map |-> t.map, sorted |-> q]
            /\ q \in Seq(Ref)
            /\ Refs(q) = Refs(t.sorted) \ {r}
            /\ Increasing(m, q)
  <1> DEFINE q == t.sorted
             n == Len(q)
             f == CHOOSE f : f = Scan(q, r, f)
             x == DelSorted(t, r).sorted
  <1>0. q \in Seq(Ref) /\ n \in Nat /\ t = [map |-> t.map, sorted |-> q]  BY DEF Tables
  <1>1. PICK p \in 1..n + 1 : /\ \A j \in 1..n : q[j] = r <=> j = p
                              /\ p = n + 1 <=> r \notin Refs(q)
    BY <1>0, InPlace
  <1>2. DelSorted(t, r) = [t EXCEPT !.sorted = SubSeq(f[n].refs, 1, n - f[n].dec)]
    BY DEF DelSorted, Scan, Found
  <1>3. f = Scan(q, r, f)  BY <1>0, <1>1, ScanExists
  <1> HIDE DEF f
  <1>4. f[n] = Scanned(q, p, n)  BY <1>0, <1>1, <1>3, ScanValue
  <1>5. /\ DelSorted(t, r) = [map |-> t.map, sorted |-> x]
        /\ x = SubSeq(Scanned(q, p, n).refs, 1, n - Scanned(q, p, n).dec)
    BY <1>0, <1>2, <1>4
  <1>6. CASE p = n + 1
    <2>1. x = SubSeq(q, 1, n)  BY <1>0, <1>5, <1>6 DEF Scanned
    <2>2. x = q  BY <1>0, <2>1
    <2> QED  BY <1>0, <1>1, <1>5, <1>6, <2>2
  <1>7. CASE p \in 1..n
    <2>1. x = SubSeq(Moved(q, p), 1, n - 1)  BY <1>0, <1>5, <1>7 DEF Scanned
    <2>2. Moved(q, p) \in Seq(Ref) /\ Len(Moved(q, p)) = n
      <3>1. Moved(q, p) \in [1..n -> Ref]  BY <1>0, <1>7 DEF Moved
      <3> QED  BY <1>0, <3>1
    <2>3. /\ x \in Seq(Ref) /\ Len(x) = n - 1
          /\ \A j \in 1..n - 1 : x[j] = IF j < p THEN q[j] ELSE q[j + 1]
      <3>1. x \in Seq(Ref) /\ Len(x) = n - 1 /\ \A j \in 1..n - 1 : x[j] = Moved(q, p)[j]
        <4>1. PICK y : y = Moved(q, p)  OBVIOUS
        <4>2. y \in Seq(Ref) /\ Len(y) = n /\ n - 1 \in 0..n  BY <1>0, <1>7, <2>2, <4>1
        <4>3. x = SubSeq(y, 1, n - 1)  BY <2>1, <4>1
        <4> HIDE DEF x
        <4>4. 1 \in Int /\ n - 1 \in Int /\ \A j \in 1..n - 1 : y[j] \in Ref
          BY <1>0, <4>2, ElementOfSeq
        <4>5. /\ x \in Seq(Ref)
              /\ Len(x) = IF 1 <= n - 1 THEN n - 1 - 1 + 1 ELSE 0
              /\ \A j \in 1..n - 1 - 1 + 1 : x[j] = y[1 + j - 1]
          BY <4>3, <4>4, SubSeqProperties
        <4>6. Len(x) = n - 1
          <5>1. PICK k : k = n  OBVIOUS
          <5>2. k \in Nat /\ k >= 1  BY <1>0, <1>7, <5>1
          <5>3. (IF 1 <= k - 1 THEN k - 1 - 1 + 1 ELSE 0) = k - 1  BY <5>2
          <5> QED  BY <4>5, <5>1, <5>3
        <4>7. ASSUME NEW j \in 1..n - 1 PROVE x[j] = y[j]
          <5>1. j \in 1..n - 1 - 1 + 1 /\ 1 + j - 1 = j  BY <1>0
          <5> QED  BY <4>5, <5>1, Zenon
        <4> QED  BY <4>1, <4>5, <4>6, <4>7
      <3>2. \A j \in 1..n - 1 : Moved(q, p)[j] = IF j < p THEN q[j] ELSE q[j + 1]
        BY <1>0, <1>7 DEF Moved
      <3> HIDE DEF x
      <3> QED  BY <3>1, <3>2
    <2> HIDE DEF x
    <2>4. Increasing(m, x)
      <3>1. SUFFICES ASSUME NEW i \in 1..n - 1, NEW j \in 1..n - 1, i < j
                     PROVE  m[x[i]].addr < m[x[j]].addr
        BY <2>3 DEF Increasing
      <3>2. PICK k \in 1..n, l \in 1..n : k < l /\ x[i] = q[k] /\ x[j] = q[l]
        <4>1. x[i] = q[IF i < p THEN i ELSE i + 1] /\ x[j] = q[IF j < p THEN j ELSE j + 1]
          BY <2>3
        <4> QED  BY <1>0, <1>7, <3>1, <4>1, SMTT(30)
      <3> QED  BY <3>2 DEF Increasing
    <2>5. Refs(x) \subseteq Refs(q) \ {r}
      <3>1. SUFFICES ASSUME NEW j \in 1..n - 1 PROVE x[j] \in Refs(q) \ {r}
        BY <2>3 DEF Refs
      <3>2. PICK k \in 1..n : k # p /\ x[j] = q[k]
        <4>1. x[j] = q[IF j < p THEN j ELSE j + 1]  BY <2>3
        <4> QED  BY <1>0, <1>7, <4>1
      <3> QED  BY <1>1, <3>2 DEF Refs
    <2>6. Refs(q) \ {r} \subseteq Refs(x)
      <3>1. SUFFICES ASSUME NEW k \in 1..n, k # p PROVE q[k] \in Refs(x)
        BY <1>1, <1>7 DEF Refs
      <3>2. CASE k < p
        <4>1. k \in 1..n - 1 /\ x[k] = q[k]  BY <1>0, <1>7, <2>3, <3>2
        <4> QED  BY <2>3, <4>1 DEF Refs
      <3>3. CASE k > p
        <4>1. k - 1 \in 1..n - 1 /\ ~ (k - 1 < p) /\ (k - 1) + 1 = k  BY <1>0, <1>7, <3>3
        <4>2. x[k - 1] = q[k]  BY <2>3, <4>1
        <4> QED  BY <2>3, <4>1, <4>2 DEF Refs
      <3> QED  BY <1>7, <3>1, <3>2, <3>3
    <2>7. Refs(x) = Refs(q) \ {r}  BY <2>5, <2>6
    <2> QED  BY <1>5, <2>3, <2>4, <2>7 DEF x
  <1> QED  BY <1>0, <1>6, <1>7

\* Where a short address belongs in an array that is in order.
LEMMA Place ==
  ASSUME NEW m \in [Ref -> Entry], NEW q \in Seq(Ref), NEW s \in Int, Increasing(m, q)
  PROVE  \E k \in 0..Len(q) : \A i \in 0..Len(q) - 1 : m[q[i + 1]].addr < s <=> i < k
  <1> DEFINE n == Len(q)
             S == {i \in 0..n : i = n \/ ~ (m[q[i + 1]].addr < s)}
  <1>0. n \in Nat  OBVIOUS
  <1>1. S \in SUBSET Nat /\ n \in S  BY <1>0
  <1>2. PICK k \in S : \A i \in S : k <= i  BY <1>1, Smallest
  <1>3. k \in 0..n /\ (k = n \/ ~ (m[q[k + 1]].addr < s))  BY <1>2
  <1>4. ASSUME NEW i \in 0..n - 1 PROVE m[q[i + 1]].addr < s <=> i < k
    <2>1. i + 1 \in 1..n /\ q[i + 1] \in Ref  BY <1>0, ElementOfSeq
    <2>2. m[q[i + 1]].addr \in Int  BY <2>1, AddrConstants DEF Entry, Short, NoShort
    <2>3. CASE i < k
      <3>1. i \notin S  BY <1>0, <1>2, <1>3, <2>3
      <3>2. m[q[i + 1]].addr < s  BY <1>0, <3>1
      <3> QED  BY <2>3, <3>2
    <2>4. CASE k <= i
      <3>1. k \in 0..n - 1 /\ k # n /\ k + 1 \in 1..n /\ q[k + 1] \in Ref  BY <1>0, <1>3, <2>4, ElementOfSeq
      <3>2. ~ (m[q[k + 1]].addr < s)  BY <1>3, <3>1
      <3>3. m[q[k + 1]].addr \in Int  BY <3>1, AddrConstants DEF Entry, Short, NoShort
      <3>4. k = i \/ k + 1 < i + 1  BY <1>0, <1>3, <2>4
      <3>5. k = i \/ m[q[k + 1]].addr < m[q[i + 1]].addr  BY <2>1, <3>1, <3>4 DEF Increasing
      <3>6. ~ (m[q[i + 1]].addr < s)  BY <2>2, <3>2, <3>3, <3>5
      <3> QED  BY <1>0, <1>3, <2>4, <3>6
    <2> QED  BY <1>0, <1>3, <2>3, <2>4
  <1> QED  BY <1>3, <1>4

\* short_search finds the entry that has the short address, if one has.
LEMMA ShortSearchFinds ==
  ASSUME NEW t \in Tables, NEW s \in Short, Increasing(t.map, t.sorted)
  PROVE  LET r == ShortSearch(t, s)
         IN \/ r \in Refs(t.sorted) /\ t.map[r].addr = s
            \/ r = NoRef /\ \A x \in Refs(t.sorted) : t.map[x].addr # s
  <1> DEFINE q == t.sorted
             m == t.map
             n == Len(q)
             before == [i \in 0..n - 1 |-> s > AddrAt(t, i)]
             l == Bisect(n, before)
  <1>0. /\ m \in [Ref -> Entry] /\ q \in Seq(Ref) /\ n \in Nat /\ s \in Int
        /\ Increasing(m, q)
    BY AddrConstants DEF Tables, Short
  <1>1. PICK k \in 0..n : \A i \in 0..n - 1 : m[q[i + 1]].addr < s <=> i < k  BY <1>0, Place
  <1>2. \A i \in 0..n - 1 : q[i + 1] \in Ref /\ m[q[i + 1]].addr \in Int
    <2>1. SUFFICES ASSUME NEW i \in 0..n - 1 PROVE q[i + 1] \in Ref /\ m[q[i + 1]].addr \in Int
      OBVIOUS
    <2>2. i + 1 \in 1..n  BY <1>0
    <2>3. q[i + 1] \in Ref  BY <1>0, <2>2, ElementOfSeq
    <2> QED  BY <1>0, <2>3, AddrConstants DEF Entry, Short, NoShort
  <1>3. \A i \in 0..n - 1 : before[i] <=> i < k
    BY <1>0, <1>1, <1>2 DEF AddrAt
  <1>4. n > 1 => l = k  BY <1>0, <1>3, BisectFinds
  <1>5. n <= 1 => l = 0  BY <1>0 DEF Bisect
  <1>6. ShortSearch(t, s) = IF l < n /\ AddrAt(t, l) = s THEN q[l + 1] ELSE NoRef
    BY DEF ShortSearch
  <1>7. l \in 0..n /\ (l = k \/ n <= 1)  BY <1>0, <1>4, <1>5
  <1> HIDE DEF l, before
  <1>8. CASE l < n /\ AddrAt(t, l) = s
    <2>1. l + 1 \in 1..n /\ m[q[l + 1]].addr = s  BY <1>0, <1>7, <1>8 DEF AddrAt
    <2> QED  BY <1>6, <1>8, <2>1 DEF Refs
  <1>9. CASE ~ (l < n /\ AddrAt(t, l) = s)
    <2>1. SUFFICES ASSUME NEW j \in 1..n, m[q[j]].addr = s PROVE FALSE
      BY <1>6, <1>9 DEF Refs
    <2>2. PICK i \in 0..n - 1 : j = i + 1
      <3>1. j - 1 \in 0..n - 1 /\ j = (j - 1) + 1  BY <1>0
      <3> QED  BY <3>1
    <2>3. ~ (i < k)  BY <1>0, <1>1, <2>1, <2>2
    <2>4. i # l  BY <1>0, <1>9, <2>1, <2>2 DEF AddrAt
    <2>5. n > 1 /\ l = k  BY <1>0, <1>4, <1>5, <2>2, <2>4
    <2>6. k < i /\ k \in 0..n - 1 /\ k + 1 \in 1..n /\ k + 1 < j  BY <1>0, <2>2, <2>3, <2>4, <2>5
    <2>7. m[q[k + 1]].addr < m[q[j]].addr  BY <1>0, <2>6 DEF Increasing
    <2>8. m[q[k + 1]].addr < s  BY <2>1, <2>7
    <2>9. k < k  BY <1>1, <2>6, <2>8
    <2> QED  BY <2>9
  <1> QED  BY <1>8, <1>9

LEMMA Spliced ==
  ASSUME NEW q \in Seq(Ref), NEW r \in Ref, NEW k \in 0..Len(q)
  PROVE  LET x == SubSeq(q, 1, k) \o <<r>> \o SubSeq(q, k + 1, Len(q))
         IN /\ x \in Seq(Ref) /\ Len(x) = Len(q) + 1
            /\ \A j \in 1..Len(q) + 1 : x[j] = IF j <= k THEN q[j] ELSE IF j = k + 1 THEN r ELSE q[j - 1]
  <1> DEFINE n == Len(q)
             a == SubSeq(q, 1, k)
             b == SubSeq(q, k + 1, n)
             x == a \o <<r>> \o b
  <1>0. n \in Nat /\ k \in Nat /\ k <= n  OBVIOUS
  <1>1. a \in Seq(Ref) /\ Len(a) = k /\ \A j \in 1..k : a[j] = q[j]
    <2>1. 1 \in Int /\ k \in Int /\ \A j \in 1..k : q[j] \in Ref  BY <1>0, ElementOfSeq
    <2>2. /\ a \in Seq(Ref)
          /\ Len(a) = IF 1 <= k THEN k - 1 + 1 ELSE 0
          /\ \A j \in 1..k - 1 + 1 : a[j] = q[1 + j - 1]
      BY <2>1, SubSeqProperties
    <2> HIDE DEF a
    <2>3. Len(a) = k  BY <1>0, <2>2
    <2>4. ASSUME NEW j \in 1..k PROVE a[j] = q[j]
      <3>1. j \in 1..k - 1 + 1 /\ 1 + j - 1 = j  BY <1>0
      <3> QED  BY <2>2, <3>1, Zenon
    <2> QED  BY <2>2, <2>3, <2>4
  <1>2. b \in Seq(Ref) /\ Len(b) = n - k /\ \A j \in 1..n - k : b[j] = q[k + j]
    <2>1. k + 1 \in Int /\ n \in Int /\ \A j \in k + 1..n : q[j] \in Ref  BY <1>0, ElementOfSeq
    <2>2. /\ b \in Seq(Ref)
          /\ Len(b) = IF k + 1 <= n THEN n - (k + 1) + 1 ELSE 0
          /\ \A j \in 1..n - (k + 1) + 1 : b[j] = q[k + 1 + j - 1]
      BY <2>1, SubSeqProperties
    <2> HIDE DEF b, n
    <2>3. (IF k + 1 <= n THEN n - (k + 1) + 1 ELSE 0) = n - k  BY <1>0
    <2>4. ASSUME NEW j \in 1..n - k PROVE b[j] = q[k + j]
      <3>1. j \in 1..n - (k + 1) + 1 /\ k + 1 + j - 1 = k + j  BY <1>0
      <3> QED  BY <2>2, <3>1, Zenon
    <2> QED  BY <2>2, <2>3, <2>4
  <1> HIDE DEF a, b, n
  <1>3. <<r>> \in Seq(Ref) /\ Len(<<r>>) = 1 /\ <<r>>[1] = r  OBVIOUS
  <1>4. PICK y : y = a \o <<r>>  OBVIOUS
  <1>5. y \in Seq(Ref) /\ Len(y) = k + 1 /\ \A j \in 1..k + 1 : y[j] = IF j <= k THEN q[j] ELSE r
    BY <1>0, <1>1, <1>3, <1>4
  <1>6. x = y \o b  BY <1>4
  <1> HIDE DEF x
  <1>7. /\ x \in Seq(Ref) /\ Len(x) = n + 1
        /\ \A j \in 1..n + 1 : x[j] = IF j <= k + 1 THEN y[j] ELSE b[j - (k + 1)]
    <2>1. /\ x \in Seq(Ref) /\ Len(x) = Len(y) + Len(b)
          /\ \A j \in 1..Len(y) + Len(b) : x[j] = IF j <= Len(y) THEN y[j] ELSE b[j - Len(y)]
      BY <1>2, <1>5, <1>6, ConcatProperties
    <2>2. Len(y) + Len(b) = n + 1  BY <1>0, <1>2, <1>5
    <2> QED  BY <1>5, <2>1, <2>2
  <1>8. ASSUME NEW j \in 1..n + 1
        PROVE  x[j] = IF j <= k THEN q[j] ELSE IF j = k + 1 THEN r ELSE q[j - 1]
    <2>1. CASE j <= k + 1  BY <1>0, <1>5, <1>7, <2>1
    <2>2. CASE j > k + 1
      <3>1. j - (k + 1) \in 1..n - k /\ k + (j - (k + 1)) = j - 1  BY <1>0, <2>2
      <3>2. b[j - (k + 1)] = q[j - 1]  BY <1>2, <3>1
      <3> QED  BY <1>0, <1>7, <2>2, <3>2
    <2> QED  BY <1>0, <2>1, <2>2
  <1> QED  BY <1>7, <1>8 DEF x, a, b, n

HasAddr(m, r, s) == m[r].addr = s

\* zb_add_short_addr_sorted puts the reference in its place.
LEMMA AddSortedIs ==
  ASSUME NEW t \in Tables, NEW r \in Ref, NEW s \in Short, Increasing(t.map, t.sorted),
         HasAddr(t.map, r, s), \A y \in Refs(t.sorted) : t.map[y].addr # s
  PROVE  LET q == AddSorted(t, r, s).sorted
         IN /\ AddSorted(t, r, s) = [map |-> t.map, sorted |-> q]
            /\ q \in Seq(Ref)
            /\ Refs(q) = Refs(t.sorted) \cup {r}
            /\ Increasing(t.map, q)
  <1> DEFINE q == t.sorted
             m == t.map
             n == Len(q)
             before == [i \in 0..n - 1 |-> s >= AddrAt(t, i)]
             b == Bisect(n, before)
             l == IF b < n /\ s > AddrAt(t, b) THEN b + 1 ELSE b
             x == AddSorted(t, r, s).sorted
  <1> HIDE DEF x
  <1>0. /\ m \in [Ref -> Entry] /\ q \in Seq(Ref) /\ n \in Nat /\ s \in Int
        /\ Increasing(m, q) /\ t = [map |-> m, sorted |-> q]
    BY AddrConstants DEF Tables, Short
  <1>1. PICK k \in 0..n : \A i \in 0..n - 1 : m[q[i + 1]].addr < s <=> i < k  BY <1>0, Place
  <1>2. ASSUME NEW i \in 0..n - 1
        PROVE  AddrAt(t, i) \in Int /\ AddrAt(t, i) # s /\ (AddrAt(t, i) < s <=> i < k)
    <2>1. i + 1 \in 1..n  BY <1>0
    <2>2. q[i + 1] \in Ref /\ q[i + 1] \in Refs(q)  BY <1>0, <2>1, ElementOfSeq DEF Refs
    <2>3. m[q[i + 1]].addr \in Int  BY <1>0, <2>2, AddrConstants DEF Entry, Short, NoShort
    <2> QED  BY <1>1, <2>2, <2>3 DEF AddrAt
  <1>3. \A i \in 0..n - 1 : before[i] <=> i < k
    <2> SUFFICES ASSUME NEW i \in 0..n - 1 PROVE s >= AddrAt(t, i) <=> i < k
      OBVIOUS
    <2> QED  BY <1>0, <1>2
  <1>4. n > 1 => b = k  BY <1>0, <1>3, BisectFinds
  <1>5. n <= 1 => b = 0  BY <1>0 DEF Bisect
  <1>6. AddSorted(t, r, s) = [t EXCEPT !.sorted = SubSeq(q, 1, l) \o <<r>> \o SubSeq(q, l + 1, n)]
    BY DEF AddSorted
  <1> HIDE DEF b, before
  <1>7. l = k
    <2>1. CASE n > 1
      <3>1. k < n => ~ (s > AddrAt(t, k))
        <4>1. ASSUME k < n PROVE ~ (s > AddrAt(t, k))
          <5>1. k \in 0..n - 1 /\ ~ (k < k)  BY <1>0, <4>1
          <5> QED  BY <1>0, <1>2, <5>1
        <4> QED  BY <4>1
      <3> QED  BY <1>0, <1>4, <2>1, <3>1
    <2>2. CASE n = 1
      <3>1. 0 \in 0..n - 1 /\ (k = 0 \/ k = 1) /\ b = 0  BY <1>0, <1>5, <2>2
      <3>2. AddrAt(t, 0) \in Int /\ (AddrAt(t, 0) < s <=> 0 < k)  BY <1>2, <3>1
      <3> QED  BY <1>0, <2>2, <3>1, <3>2
    <2>3. CASE n = 0  BY <1>0, <1>5, <2>3
    <2>4. n \in Nat  BY <1>0
    <2> HIDE DEF l, n
    <2>5. n > 1 \/ n = 1 \/ n = 0  BY <2>4
    <2> QED  BY <2>1, <2>2, <2>3, <2>5
  <1> HIDE DEF l
  <1>8. /\ AddSorted(t, r, s) = [map |-> m, sorted |-> x]
        /\ x = SubSeq(q, 1, k) \o <<r>> \o SubSeq(q, k + 1, n)
    BY <1>0, <1>6, <1>7 DEF x
  <1>9. /\ x \in Seq(Ref) /\ Len(x) = n + 1
        /\ \A j \in 1..n + 1 : x[j] = IF j <= k THEN q[j] ELSE IF j = k + 1 THEN r ELSE q[j - 1]
    BY <1>0, <1>8, Spliced, ZenonT(30)
  <1>10. Refs(x) \subseteq Refs(q) \cup {r}
    <2> SUFFICES ASSUME NEW j \in 1..n + 1 PROVE x[j] \in Refs(q) \cup {r}
      BY <1>9 DEF Refs
    <2>1. CASE j <= k  BY <1>0, <1>9, <2>1 DEF Refs
    <2>2. CASE j = k + 1  BY <1>0, <1>9, <2>2
    <2>3. CASE j > k + 1
      <3>1. j - 1 \in 1..n  BY <1>0, <2>3
      <3> QED  BY <1>0, <1>9, <2>3, <3>1 DEF Refs
    <2> QED  BY <1>0, <2>1, <2>2, <2>3
  <1>11. Refs(q) \cup {r} \subseteq Refs(x)
    <2>1. r \in Refs(x)
      <3>1. k + 1 \in 1..n + 1 /\ x[k + 1] = r  BY <1>0, <1>9
      <3> QED  BY <1>9, <3>1 DEF Refs
    <2>2. ASSUME NEW j \in 1..n PROVE q[j] \in Refs(x)
      <3>1. CASE j <= k
        <4>1. j \in 1..n + 1 /\ x[j] = q[j]  BY <1>0, <1>9, <3>1
        <4> QED  BY <1>9, <4>1 DEF Refs
      <3>2. CASE j > k
        <4>1. j + 1 \in 1..n + 1 /\ ~ (j + 1 <= k) /\ j + 1 # k + 1 /\ (j + 1) - 1 = j  BY <1>0, <3>2
        <4>2. x[j + 1] = q[j]  BY <1>9, <4>1
        <4> QED  BY <1>9, <4>1, <4>2 DEF Refs
      <3> QED  BY <1>0, <3>1, <3>2
    <2> QED  BY <2>1, <2>2 DEF Refs
  <1>12. Increasing(m, x)
    <2> DEFINE A(j) == m[x[j]].addr
    <2>1. SUFFICES ASSUME NEW i \in 1..n + 1, NEW j \in 1..n + 1, i < j PROVE A(i) < A(j)
      BY <1>9 DEF Increasing
    <2>2. \A a, c \in 1..n : a < c => m[q[a]].addr < m[q[c]].addr  BY <1>0 DEF Increasing
    <2>3. ASSUME NEW c \in 1..n PROVE /\ m[q[c]].addr \in Int
                                      /\ c <= k => m[q[c]].addr < s
                                      /\ c > k => s < m[q[c]].addr
      <3>1. c - 1 \in 0..n - 1 /\ (c - 1) + 1 = c  BY <1>0
      <3>2. AddrAt(t, c - 1) = m[q[c]].addr  BY <3>1 DEF AddrAt
      <3> QED  BY <1>0, <1>2, <3>1, <3>2
    <2>4. m[r].addr = s  BY DEF HasAddr
    <2>5. CASE j <= k
      <3>1. i \in 1..n /\ j \in 1..n /\ x[i] = q[i] /\ x[j] = q[j]  BY <1>0, <1>9, <2>1, <2>5
      <3> QED  BY <2>1, <2>2, <3>1
    <2>6. CASE j = k + 1
      <3>1. i \in 1..n /\ i <= k /\ x[i] = q[i] /\ x[j] = r  BY <1>0, <1>9, <2>1, <2>6
      <3> QED  BY <2>3, <2>4, <3>1
    <2>7. CASE j > k + 1
      <3>1. j - 1 \in 1..n /\ j - 1 > k /\ x[j] = q[j - 1]  BY <1>0, <1>9, <2>7
      <3>2. CASE i <= k
        <4>1. i \in 1..n /\ x[i] = q[i] /\ i < j - 1  BY <1>0, <1>9, <3>1, <3>2
        <4> QED  BY <2>2, <3>1, <4>1
      <3>3. CASE i = k + 1
        <4>1. x[i] = r  BY <1>0, <1>9, <3>3
        <4> QED  BY <2>3, <2>4, <3>1, <4>1
      <3>4. CASE i > k + 1
        <4>1. i - 1 \in 1..n /\ x[i] = q[i - 1] /\ i - 1 < j - 1  BY <1>0, <1>9, <2>1, <3>4
        <4> QED  BY <2>2, <3>1, <4>1
      <3> QED  BY <1>0, <3>2, <3>3, <3>4
    <2> QED  BY <1>0, <2>5, <2>6, <2>7
  <1>13. Refs(x) = Refs(q) \cup {r}  BY <1>10, <1>11
  <1> QED  BY <1>8, <1>9, <1>12, <1>13 DEF x

-----------------------------------------------------------------------------
(* Sums over the references.                                               *)

SumOf(f, g) == [n \in 0..Size |-> IF n = 0 THEN 0 ELSE g[n - 1] + f[n - 1]]

LEMMA SumExists ==
  ASSUME NEW f \in [Ref -> Nat]
  PROVE  \E g : g = SumOf(f, g)
  <1> DEFINE Run(k) == \E g \in [0..k -> Nat] :
                         g[0] = 0 /\ \A n \in 1..k : g[n] = g[n - 1] + f[n - 1]
             Bad == {k \in 0..Size : ~ Run(k)}
  <1>0. Size \in Nat /\ \A n \in 1..Size : n - 1 \in Ref /\ f[n - 1] \in Nat
    <2>1. Size \in Nat /\ \A n \in 1..Size : n - 1 \in Ref  BY AddrConstants DEF Ref
    <2> QED  BY <2>1
  <1>1. ASSUME Bad # {} PROVE FALSE
    <2>1. Bad \in SUBSET Nat  BY <1>0
    <2>2. PICK k \in Bad : \A j \in Bad : k <= j  BY <1>1, <2>1, Smallest
    <2>3. k # 0
      <3>1. [n \in 0..0 |-> 0] \in [0..0 -> Nat] /\ [n \in 0..0 |-> 0][0] = 0  OBVIOUS
      <3>2. Run(0)
        <4>1. \A n \in 1..0 : FALSE  OBVIOUS
        <4> QED  BY <3>1, <4>1
      <3> QED  BY <2>2, <3>2
    <2>4. k - 1 \in 0..Size /\ k - 1 < k /\ k \in 1..Size  BY <1>0, <2>2, <2>3
    <2>5. Run(k - 1)  BY <2>2, <2>4
    <2>6. PICK g \in [0..k - 1 -> Nat] :
            g[0] = 0 /\ \A n \in 1..k - 1 : g[n] = g[n - 1] + f[n - 1]
      BY <2>5
    <2>7. k - 1 \in 0..k - 1 /\ g[k - 1] \in Nat  BY <2>4, <2>6
    <2> DEFINE x == g[k - 1] + f[k - 1]
               e == [n \in 0..k |-> IF n = k THEN x ELSE g[n]]
    <2>8. x \in Nat  BY <1>0, <2>4, <2>7
    <2> HIDE DEF x
    <2>9. \A n \in 0..k : n # k => n \in 0..k - 1  BY <2>4
    <2>10. e \in [0..k -> Nat]  BY <2>8, <2>9
    <2>11. e[0] = 0
      <3>1. 0 \in 0..k /\ 0 # k  BY <2>4
      <3> QED  BY <2>6, <3>1
    <2>12. ASSUME NEW n \in 1..k PROVE e[n] = e[n - 1] + f[n - 1]
      <3>1. n \in 0..k /\ n - 1 \in 0..k /\ n - 1 # k  BY <2>4
      <3>2. e[n - 1] = g[n - 1]  BY <3>1
      <3>3. CASE n = k  BY <3>1, <3>2, <3>3 DEF x
      <3>4. CASE n # k
        <4>1. n \in 1..k - 1 /\ e[n] = g[n]  BY <2>4, <3>1, <3>4
        <4> QED  BY <2>6, <3>2, <4>1
      <3> QED  BY <3>3, <3>4
    <2> HIDE DEF e
    <2>13. Run(k)  BY <2>10, <2>11, <2>12
    <2> QED  BY <2>2, <2>13
  <1>2. Run(Size)  BY <1>0, <1>1, SMTT(30)
  <1>3. PICK g \in [0..Size -> Nat] : g[0] = 0 /\ \A n \in 1..Size : g[n] = g[n - 1] + f[n - 1]
    BY <1>2
  <1>4. ASSUME NEW n \in 0..Size PROVE g[n] = IF n = 0 THEN 0 ELSE g[n - 1] + f[n - 1]
    <2>1. n = 0 \/ n \in 1..Size  BY <1>0
    <2> QED  BY <1>0, <1>3, <2>1
  <1>5. g = [n \in 0..Size |-> g[n]]  BY <1>3
  <1>6. g = SumOf(f, g)  BY <1>4, <1>5, Zenon DEF SumOf
  <1> QED  BY <1>6

\* The sum, with the sums of the first references.
LEMMA TotalIs ==
  ASSUME NEW f \in [Ref -> Nat]
  PROVE  \E g : /\ Total(f) = g[Size] /\ g[0] = 0
                /\ \A n \in 0..Size : g[n] \in Nat
                /\ \A n \in 1..Size : g[n] = g[n - 1] + f[n - 1]
  <1> DEFINE g == CHOOSE g : g = SumOf(f, g)
             Bad == {n \in 0..Size : g[n] \notin Nat}
  <1>1. Total(f) = g[Size]  BY DEF Total, SumOf
  <1>2. g = SumOf(f, g)  BY SumExists
  <1> HIDE DEF g
  <1>3. Size \in Nat /\ \A n \in 1..Size : n \in 0..Size /\ n # 0 /\ n - 1 \in Ref
    BY AddrConstants DEF Ref
  <1>4. \A n \in 0..Size : g[n] = IF n = 0 THEN 0 ELSE g[n - 1] + f[n - 1]  BY <1>2 DEF SumOf
  <1>5. g[0] = 0  BY <1>3, <1>4
  <1>6. \A n \in 1..Size : g[n] = g[n - 1] + f[n - 1]  BY <1>3, <1>4
  <1>7. ASSUME Bad # {} PROVE FALSE
    <2>1. Bad \in SUBSET Nat  BY <1>3
    <2>2. PICK k \in Bad : \A j \in Bad : k <= j  BY <1>7, <2>1, Smallest
    <2>3. k # 0  BY <1>5, <2>2
    <2>4. k \in 1..Size /\ k - 1 \in 0..Size /\ k - 1 < k  BY <1>3, <2>2, <2>3
    <2>5. g[k - 1] \in Nat  BY <2>2, <2>4
    <2>6. f[k - 1] \in Nat  BY <1>3, <2>4
    <2>7. g[k] \in Nat  BY <1>6, <2>4, <2>5, <2>6
    <2> QED  BY <2>2, <2>7
  <1> QED  BY <1>1, <1>5, <1>6, <1>7

LEMMA TotalType ==
  ASSUME NEW f \in [Ref -> Nat]
  PROVE  Total(f) \in Nat
  <1>1. Size \in 0..Size  BY AddrConstants
  <1> QED  BY <1>1, TotalIs

\* A sum changes as one of its parts does.
LEMMA TotalChanges ==
  ASSUME NEW f \in [Ref -> Nat], NEW e \in [Ref -> Nat], NEW r \in Ref, NEW d \in Int,
         e[r] = f[r] + d, \A x \in Ref : x # r => e[x] = f[x]
  PROVE  Total(e) = Total(f) + d
  <1>1. PICK g : /\ Total(f) = g[Size] /\ g[0] = 0
                 /\ \A n \in 0..Size : g[n] \in Nat
                 /\ \A n \in 1..Size : g[n] = g[n - 1] + f[n - 1]
    BY TotalIs
  <1>2. PICK k : /\ Total(e) = k[Size] /\ k[0] = 0
                 /\ \A n \in 0..Size : k[n] \in Nat
                 /\ \A n \in 1..Size : k[n] = k[n - 1] + e[n - 1]
    BY TotalIs
  <1> DEFINE Good(n) == k[n] = g[n] + (IF n > r THEN d ELSE 0)
             Bad == {n \in 0..Size : ~ Good(n)}
  <1>3. Size \in Nat /\ r \in Nat /\ r < Size  BY AddrConstants DEF Ref
  <1>4. ASSUME Bad # {} PROVE FALSE
    <2>1. Bad \in SUBSET Nat  BY <1>3
    <2>2. PICK n \in Bad : \A j \in Bad : n <= j  BY <1>4, <2>1, Smallest
    <2>3. n # 0  BY <1>1, <1>2, <1>3, <2>2
    <2>4. n \in 1..Size /\ n - 1 \in 0..Size /\ n - 1 < n /\ n - 1 \in Ref
      BY <1>3, <2>2, <2>3 DEF Ref
    <2>5. Good(n - 1)  BY <2>2, <2>4
    <2>6. k[n] = k[n - 1] + e[n - 1] /\ g[n] = g[n - 1] + f[n - 1]  BY <1>1, <1>2, <2>4
    <2>7. k[n - 1] \in Nat /\ g[n - 1] \in Nat /\ e[n - 1] \in Nat /\ f[n - 1] \in Nat
      BY <1>1, <1>2, <2>4
    <2>8. CASE n - 1 < r
      <3>1. e[n - 1] = f[n - 1] /\ ~ (n > r) /\ ~ (n - 1 > r)  BY <1>3, <2>4, <2>8
      <3> QED  BY <2>2, <2>5, <2>6, <2>7, <3>1
    <2>9. CASE n - 1 = r
      <3>1. e[n - 1] = f[n - 1] + d /\ n > r /\ ~ (n - 1 > r)  BY <1>3, <2>4, <2>9
      <3> QED  BY <2>2, <2>5, <2>6, <2>7, <3>1
    <2>10. CASE n - 1 > r
      <3>1. e[n - 1] = f[n - 1] /\ n > r /\ n - 1 > r  BY <1>3, <2>4, <2>10
      <3> QED  BY <2>2, <2>5, <2>6, <2>7, <3>1
    <2> QED  BY <1>3, <2>4, <2>8, <2>9, <2>10
  <1>5. Good(Size)  BY <1>3, <1>4
  <1> QED  BY <1>1, <1>2, <1>3, <1>5

LEMMA TotalZero ==
  ASSUME NEW f \in [Ref -> Nat], \A x \in Ref : f[x] = 0
  PROVE  Total(f) = 0
  <1>1. PICK g : /\ Total(f) = g[Size] /\ g[0] = 0
                 /\ \A n \in 1..Size : g[n] = g[n - 1] + f[n - 1]
    BY TotalIs
  <1> DEFINE Bad == {n \in 0..Size : g[n] # 0}
  <1>2. Size \in Nat  BY AddrConstants
  <1>3. ASSUME Bad # {} PROVE FALSE
    <2>1. Bad \in SUBSET Nat  BY <1>2
    <2>2. PICK n \in Bad : \A j \in Bad : n <= j  BY <1>3, <2>1, Smallest
    <2>3. n # 0  BY <1>1, <2>2
    <2>4. n \in 1..Size /\ n - 1 \in 0..Size /\ n - 1 < n /\ n - 1 \in Ref
      BY <1>2, <2>2, <2>3 DEF Ref
    <2>5. g[n - 1] = 0  BY <2>2, <2>4
    <2> QED  BY <1>1, <2>2, <2>4, <2>5
  <1> QED  BY <1>1, <1>2, <1>3

\* A sum is at least each of its parts.
LEMMA TotalAtLeast ==
  ASSUME NEW f \in [Ref -> Nat], NEW r \in Ref
  PROVE  Total(f) >= f[r]
  <1> DEFINE e == [f EXCEPT ![r] = 0]
  <1>1. e \in [Ref -> Nat] /\ e[r] = 0 /\ \A x \in Ref : x # r => e[x] = f[x]  OBVIOUS
  <1> HIDE DEF e
  <1>2. f[r] \in Nat  OBVIOUS
  <1>3. PICK d \in Int : d = - f[r]  BY <1>2
  <1>4. e[r] = f[r] + d  BY <1>1, <1>2, <1>3
  <1>5. Total(e) = Total(f) + d  BY <1>1, <1>4, TotalChanges
  <1>6. Total(e) \in Nat /\ Total(f) \in Nat  BY <1>1, TotalType
  <1> QED  BY <1>2, <1>3, <1>5, <1>6

-----------------------------------------------------------------------------
(* What holds of the table.                                                *)

\* The entries the array is to refer to.
Indexed(m) == {r \in Ref : /\ m[r].used /\ m[r].addr # NoShort
                           /\ m[r].redirect # "SHORT"}

Index(t) == Refs(t.sorted) = Indexed(t.map) /\ Increasing(t.map, t.sorted)

\* Entry x is redirected to entry r.
Target(m, x, r) == m[x].redirect # "NONE" /\ m[x].to = r

\* An entry that is not in use holds nothing but a pending deletion.
Clean(m) == \A r \in Ref : ~ m[r].used => m[r] = Dropped(m[r])

\* A redirection is locked, and leads to an entry that is not one.
Links(m) == \A r \in Ref : m[r].redirect # "NONE" =>
              /\ m[r].used /\ m[r].lock > 0
              /\ m[r].to \in Ref
              /\ m[m[r].to].used /\ m[m[r].to].redirect = "NONE"

Home(m, x) == IF m[x].redirect = "NONE" THEN x ELSE m[x].to

Matches(m, x, a) == m[x].used /\ m[x].ieee = a /\ m[x].redirect \in {"NONE", "IEEE"}

\* The entries that have a long address lead to one entry.
OneHome(m) == \A a \in Ieee, x, y \in Ref : Matches(m, x, a) /\ Matches(m, y, a) => Home(m, x) = Home(m, y)

HeldUsed(m, h) == \A r \in Ref : h[r] > 0 => m[r].used

\* The locks held on the entries redirected to r.
Shares(m, h, r) == [x \in Ref |-> IF Target(m, x, r) THEN h[x] ELSE 0]

\* An entry has the locks held on it and on those redirected to it.
LockSum(m, h) == \A r \in Ref : m[r].lock = h[r] + Total(Shares(m, h, r))

MapInv(m, h) == /\ m \in [Ref -> Entry] /\ h \in [Ref -> Nat]
                /\ Clean(m) /\ Links(m) /\ OneHome(m)
                /\ HeldUsed(m, h) /\ LockSum(m, h)

AInv(t, h) == t \in Tables /\ Index(t) /\ MapInv(t.map, h)

LEMMA SharesType ==
  ASSUME NEW m, NEW h \in [Ref -> Nat], NEW r \in Ref
  PROVE  /\ Shares(m, h, r) \in [Ref -> Nat]
         /\ \A x \in Ref : Shares(m, h, r)[x] = IF Target(m, x, r) THEN h[x] ELSE 0
         /\ Total(Shares(m, h, r)) \in Nat
  <1>1. /\ Shares(m, h, r) \in [Ref -> Nat]
        /\ \A x \in Ref : Shares(m, h, r)[x] = IF Target(m, x, r) THEN h[x] ELSE 0
    BY DEF Shares
  <1> QED  BY <1>1, TotalType

\* An entry that nothing is redirected to has the locks held on it, another has
\* more.
LEMMA LockOfNone ==
  ASSUME NEW m, NEW h \in [Ref -> Nat], NEW r \in Ref, \A x \in Ref : ~ Target(m, x, r)
  PROVE  h[r] + Total(Shares(m, h, r)) = h[r]
  <1>1. /\ Shares(m, h, r) \in [Ref -> Nat]
        /\ \A x \in Ref : Shares(m, h, r)[x] = IF Target(m, x, r) THEN h[x] ELSE 0
    BY SharesType
  <1>2. Total(Shares(m, h, r)) = 0  BY <1>1, TotalZero
  <1>3. h[r] \in Nat  OBVIOUS
  <1> QED  BY <1>2, <1>3

LEMMA LockOfTarget ==
  ASSUME NEW m, NEW h, MapInv(m, h), NEW x \in Ref, NEW r \in Ref, Target(m, x, r)
  PROVE  m[r].lock >= h[r] + h[x]
  <1>0. h \in [Ref -> Nat] /\ m[r].lock = h[r] + Total(Shares(m, h, r))  BY DEF MapInv, LockSum
  <1>1. /\ Shares(m, h, r) \in [Ref -> Nat] /\ Shares(m, h, r)[x] = h[x]
        /\ Total(Shares(m, h, r)) \in Nat
    BY <1>0, SharesType
  <1>2. Total(Shares(m, h, r)) >= h[x]  BY <1>1, TotalAtLeast
  <1>3. h[r] \in Nat /\ h[x] \in Nat  BY <1>0
  <1> QED  BY <1>0, <1>1, <1>2, <1>3

\* The same redirections and the same locks.
LEMMA SharesSame ==
  ASSUME NEW m, NEW n, NEW h, NEW g, NEW r \in Ref,
         \A x \in Ref : Target(n, x, r) <=> Target(m, x, r),
         \A x \in Ref : Target(m, x, r) => g[x] = h[x]
  PROVE  Shares(n, g, r) = Shares(m, h, r)
BY DEF Shares

\* A redirection has the locks held on it.
LEMMA SourceLock ==
  ASSUME NEW m, NEW h, MapInv(m, h), NEW x \in Ref, m[x].redirect # "NONE"
  PROVE  /\ m[x].used /\ m[x].lock = h[x] /\ h[x] > 0
         /\ m[x].to \in Ref /\ m[x].to # x
         /\ m[m[x].to].redirect = "NONE" /\ m[m[x].to].used
         /\ m[m[x].to].lock >= h[m[x].to] + h[x]
  <1>1. \A y \in Ref : ~ Target(m, y, x)  BY DEF MapInv, Links, Target
  <1>2. m[x].lock = h[x]  BY <1>1, LockOfNone DEF MapInv, LockSum
  <1>3. /\ m[x].used /\ m[x].lock > 0 /\ m[x].to \in Ref
        /\ m[m[x].to].redirect = "NONE" /\ m[m[x].to].used
    BY DEF MapInv, Links
  <1>4. Target(m, x, m[x].to)  BY DEF Target
  <1>5. m[m[x].to].lock >= h[m[x].to] + h[x]  BY <1>3, <1>4, LockOfTarget
  <1> QED  BY <1>2, <1>3, <1>5

\* An entry without a lock is held by nobody and has no part in a redirection.
LEMMA NoLock ==
  ASSUME NEW m, NEW h, MapInv(m, h), NEW r \in Ref, m[r].lock = 0
  PROVE  h[r] = 0 /\ m[r].redirect = "NONE" /\ \A x \in Ref : ~ Target(m, x, r)
  <1>0. h \in [Ref -> Nat]  BY DEF MapInv
  <1>1. ASSUME NEW x \in Ref, Target(m, x, r) PROVE FALSE
    <2>1. m[x].redirect # "NONE" /\ m[x].to = r  BY <1>1 DEF Target
    <2>2. h[x] > 0 /\ m[r].lock >= h[r] + h[x]  BY <2>1, SourceLock
    <2>3. h[x] \in Nat /\ h[r] \in Nat  BY <1>0
    <2> QED  BY <2>2, <2>3
  <1>2. h[r] = 0  BY <1>0, <1>1, LockOfNone DEF MapInv, LockSum
  <1>3. m[r].redirect = "NONE"
    <2>1. ASSUME m[r].redirect # "NONE" PROVE FALSE
      <3>1. h[r] > 0  BY <2>1, SourceLock
      <3> QED  BY <1>2, <3>1
    <2> QED  BY <2>1
  <1> QED  BY <1>1, <1>2, <1>3

LEMMA Unused ==
  ASSUME NEW m, NEW h, MapInv(m, h), NEW r \in Ref, ~ m[r].used
  PROVE  m[r].lock = 0 /\ m[r].redirect = "NONE" /\ m[r].addr = NoShort /\ m[r].ieee = Unknown
BY DEF MapInv, Clean, Dropped, NoEntry

\* Dropped keeps the entry's type.
LEMMA DroppedType ==
  ASSUME NEW e \in Entry
  PROVE  /\ Dropped(e) \in Entry /\ Dropped(Dropped(e)) = Dropped(e)
         /\ ~ Dropped(e).used /\ Dropped(e).redirect = "NONE" /\ Dropped(e).lock = 0
         /\ Dropped(e).addr = NoShort /\ Dropped(e).pending = e.pending
BY AddrConstants DEF Dropped, NoEntry, Entry, Short, NoShort

LEMMA NoEntryType ==
  NoEntry \in Entry /\ ~ NoEntry.used /\ NoEntry.redirect = "NONE" /\ NoEntry.lock = 0
    /\ Dropped(NoEntry) = NoEntry /\ NoEntry.addr = NoShort
BY AddrConstants DEF NoEntry, Entry, Short, NoShort, Dropped

-----------------------------------------------------------------------------
(* Changes to the entries.                                                 *)

\* Only locks change.
SameButLock(m, n) == \A x \in Ref : n[x] = [m[x] EXCEPT !.lock = n[x].lock]

LEMMA SameButLockFields ==
  ASSUME NEW m \in [Ref -> Entry], NEW n \in [Ref -> Entry], SameButLock(m, n), NEW x \in Ref
  PROVE  /\ n[x].ieee = m[x].ieee /\ n[x].addr = m[x].addr /\ n[x].redirect = m[x].redirect
         /\ n[x].to = m[x].to /\ n[x].used = m[x].used /\ n[x].pending = m[x].pending
  <1>1. m[x] \in Entry  OBVIOUS
  <1>2. n[x] = [m[x] EXCEPT !.lock = n[x].lock]  BY DEF SameButLock
  <1> QED  BY <1>1, <1>2 DEF Entry

LEMMA LocksChange ==
  ASSUME NEW m, NEW h, MapInv(m, h), NEW n \in [Ref -> Entry], NEW g \in [Ref -> Nat],
         SameButLock(m, n),
         \A x \in Ref : ~ m[x].used => n[x].lock = 0,
         \A x \in Ref : m[x].redirect # "NONE" => n[x].lock > 0,
         \A x \in Ref : g[x] > 0 => m[x].used,
         LockSum(n, g)
  PROVE  MapInv(n, g)
  <1>0. m \in [Ref -> Entry]  BY DEF MapInv
  <1>1. \A x \in Ref : /\ n[x].ieee = m[x].ieee /\ n[x].redirect = m[x].redirect
                       /\ n[x].to = m[x].to /\ n[x].used = m[x].used
    BY <1>0, SameButLockFields
  <1>2. Clean(n)
    <2> SUFFICES ASSUME NEW x \in Ref, ~ n[x].used PROVE n[x] = Dropped(n[x])
      BY DEF Clean
    <2>1. ~ m[x].used /\ n[x].lock = 0  BY <1>1
    <2>2. m[x] = Dropped(m[x])  BY <2>1 DEF MapInv, Clean
    <2>3. m[x] \in Entry /\ n[x] \in Entry  BY <1>0
    <2>4. n[x] = [m[x] EXCEPT !.lock = 0]  BY <2>1 DEF SameButLock
    <2>5. m[x].lock = 0  BY <2>2, <2>3, DroppedType
    <2>6. n[x] = m[x]  BY <2>3, <2>4, <2>5 DEF Entry
    <2> QED  BY <2>2, <2>6
  <1>3. Links(n)  BY <1>1 DEF MapInv, Links
  <1>6. OneHome(n)
    <2>1. \A x \in Ref : Home(n, x) = Home(m, x) /\ \A a \in Ieee : Matches(n, x, a) <=> Matches(m, x, a)
      BY <1>1 DEF Home, Matches
    <2> QED  BY <2>1 DEF MapInv, OneHome
  <1>7. HeldUsed(n, g)  BY <1>1 DEF HeldUsed
  <1> QED  BY <1>2, <1>3, <1>6, <1>7 DEF MapInv

\* An entry gets another pair, or is taken into use.
LEMMA PairChange ==
  ASSUME NEW m, NEW h, MapInv(m, h), NEW r \in Ref, NEW e \in Entry,
         e.used, e.redirect = m[r].redirect, e.lock = m[r].lock,
         e.redirect # "NONE" => e.to = m[r].to,
         e.ieee \in Ieee /\ e.redirect # "SHORT" =>
           \A x \in Ref : Matches(m, x, e.ieee) => Home(m, x) = Home(m, r)
  PROVE  MapInv([m EXCEPT ![r] = e], h)
  <1> DEFINE n == [m EXCEPT ![r] = e]
  <1>0. m \in [Ref -> Entry] /\ h \in [Ref -> Nat]  BY DEF MapInv
  <1>1. n \in [Ref -> Entry] /\ n[r] = e /\ \A x \in Ref : x # r => n[x] = m[x]  BY <1>0
  <1> HIDE DEF n
  <1>2. \A x \in Ref : /\ n[x].redirect = m[x].redirect /\ n[x].lock = m[x].lock
                       /\ m[x].used => n[x].used
                       /\ n[x].redirect # "NONE" => n[x].to = m[x].to
    BY <1>1
  <1>3. \A x, y \in Ref : Target(n, x, y) <=> Target(m, x, y)  BY <1>2 DEF Target
  <1>4. Clean(n)  BY <1>1 DEF MapInv, Clean
  <1>5. Links(n)
    <2> SUFFICES ASSUME NEW x \in Ref, n[x].redirect # "NONE"
                 PROVE  /\ n[x].used /\ n[x].lock > 0 /\ n[x].to \in Ref
                        /\ n[n[x].to].used /\ n[n[x].to].redirect = "NONE"
      BY DEF Links
    <2>1. m[x].redirect # "NONE" /\ n[x].to = m[x].to  BY <1>2
    <2>2. /\ m[x].used /\ m[x].lock > 0 /\ m[x].to \in Ref
          /\ m[m[x].to].used /\ m[m[x].to].redirect = "NONE"
      BY <2>1 DEF MapInv, Links
    <2> QED  BY <1>2, <2>1, <2>2
  <1>7. OneHome(n)
    <2>1. \A x \in Ref : Home(n, x) = Home(m, x)  BY <1>2 DEF Home
    <2> SUFFICES ASSUME NEW a \in Ieee, NEW x \in Ref, NEW y \in Ref, Matches(n, x, a), Matches(n, y, a)
                 PROVE  Home(m, x) = Home(m, y)
      BY <2>1 DEF OneHome
    <2>2. \A z \in Ref : z # r /\ Matches(n, z, a) => Matches(m, z, a)  BY <1>1 DEF Matches
    <2>3. Matches(n, r, a) => e.ieee = a /\ e.redirect # "SHORT"  BY <1>1 DEF Matches
    <2>4. CASE x = r /\ y # r  BY <2>2, <2>3, <2>4
    <2>5. CASE x # r /\ y = r  BY <2>2, <2>3, <2>5
    <2>6. CASE x # r /\ y # r  BY <2>2, <2>6 DEF MapInv, OneHome
    <2> QED  BY <2>4, <2>5, <2>6
  <1>8. HeldUsed(n, h)  BY <1>2 DEF MapInv, HeldUsed
  <1>9. LockSum(n, h)
    <2>1. \A x \in Ref : Shares(n, h, x) = Shares(m, h, x)  BY <1>3, SharesSame
    <2> QED  BY <1>2, <2>1 DEF MapInv, LockSum
  <1>10. MapInv(n, h)  BY <1>0, <1>1, <1>4, <1>5, <1>7, <1>8, <1>9 DEF MapInv
  <1> QED  BY <1>10 DEF n

\* An entry without a lock goes out of use.
LEMMA EntryDropped ==
  ASSUME NEW m, NEW h, MapInv(m, h), NEW r \in Ref, m[r].lock = 0
  PROVE  MapInv([m EXCEPT ![r] = Dropped(m[r])], h)
  <1> DEFINE n == [m EXCEPT ![r] = Dropped(m[r])]
  <1>0. m \in [Ref -> Entry] /\ h \in [Ref -> Nat] /\ m[r] \in Entry  BY DEF MapInv
  <1>1. n \in [Ref -> Entry] /\ n[r] = Dropped(m[r]) /\ \A x \in Ref : x # r => n[x] = m[x]
    BY <1>0, DroppedType
  <1> HIDE DEF n
  <1>2. h[r] = 0 /\ m[r].redirect = "NONE" /\ \A x \in Ref : ~ Target(m, x, r)  BY NoLock
  <1>3. ~ n[r].used /\ n[r].redirect = "NONE" /\ n[r].lock = 0 /\ n[r] = Dropped(n[r])
    BY <1>0, <1>1, DroppedType
  <1>4. \A x, y \in Ref : Target(n, x, y) <=> Target(m, x, y)  BY <1>1, <1>2, <1>3 DEF Target
  <1>5. Clean(n)  BY <1>1, <1>3 DEF MapInv, Clean
  <1>6. Links(n)
    <2> SUFFICES ASSUME NEW x \in Ref, n[x].redirect # "NONE"
                 PROVE  /\ n[x].used /\ n[x].lock > 0 /\ n[x].to \in Ref
                        /\ n[n[x].to].used /\ n[n[x].to].redirect = "NONE"
      BY DEF Links
    <2>1. x # r /\ n[x] = m[x]  BY <1>1, <1>3
    <2>2. /\ m[x].used /\ m[x].lock > 0 /\ m[x].to \in Ref
          /\ m[m[x].to].used /\ m[m[x].to].redirect = "NONE"
      BY <2>1 DEF MapInv, Links
    <2>3. m[x].to # r  BY <1>2, <2>1 DEF Target
    <2> QED  BY <1>1, <2>1, <2>2, <2>3
  <1>8. OneHome(n)
    <2>1. \A x \in Ref, a \in Ieee : Matches(n, x, a) => Matches(m, x, a) /\ Home(n, x) = Home(m, x)
      BY <1>1, <1>3 DEF Matches, Home
    <2> QED  BY <2>1 DEF MapInv, OneHome
  <1>9. HeldUsed(n, h)  BY <1>1, <1>2 DEF MapInv, HeldUsed
  <1>10. LockSum(n, h)
    <2>1. \A x \in Ref : n[x].lock = m[x].lock  BY <1>1, <1>3
    <2>2. \A x \in Ref : Shares(n, h, x) = Shares(m, h, x)  BY <1>4, SharesSame
    <2> QED  BY <2>1, <2>2 DEF MapInv, LockSum
  <1>11. MapInv(n, h)  BY <1>0, <1>1, <1>5, <1>6, <1>8, <1>9, <1>10 DEF MapInv
  <1> QED  BY <1>11 DEF n

-----------------------------------------------------------------------------
(* Locks.                                                                  *)

LEMMA BumpIs ==
  ASSUME NEW t \in Tables, NEW r \in Ref, NEW d \in Int, t.map[r].lock + d \in Nat
  PROVE  LET u == Bump(t, r, d)
         IN /\ u \in Tables /\ u.sorted = t.sorted
            /\ SameButLock(t.map, u.map)
            /\ u.map[r].lock = t.map[r].lock + d
            /\ \A x \in Ref : x # r => u.map[x] = t.map[x]
  <1> DEFINE e == [t.map[r] EXCEPT !.lock = @ + d]
             n == [t.map EXCEPT ![r] = e]
             u == Bump(t, r, d)
  <1>0. t.map \in [Ref -> Entry] /\ t.sorted \in Seq(Ref) /\ t.map[r] \in Entry  BY DEF Tables
  <1>1. e \in Entry /\ e.lock = t.map[r].lock + d /\ e = [t.map[r] EXCEPT !.lock = e.lock]
    BY <1>0 DEF Entry
  <1>2. u = [map |-> n, sorted |-> t.sorted]
    <2>1. u = [t EXCEPT !.map = n]  BY DEF Bump
    <2> HIDE DEF n, u
    <2> QED  BY <2>1 DEF Tables
  <1> HIDE DEF e
  <1>3. n \in [Ref -> Entry] /\ n[r] = e /\ \A x \in Ref : x # r => n[x] = t.map[x]  BY <1>0, <1>1
  <1> HIDE DEF n
  <1>4. \A x \in Ref : t.map[x] = [t.map[x] EXCEPT !.lock = t.map[x].lock]
    <2> SUFFICES ASSUME NEW y \in Entry PROVE y = [y EXCEPT !.lock = y.lock]
      BY <1>0
    <2> QED  BY DEF Entry
  <1>5. SameButLock(t.map, n)  BY <1>1, <1>3, <1>4 DEF SameButLock
  <1>6. u \in Tables /\ u.map = n /\ u.sorted = t.sorted  BY <1>0, <1>2, <1>3 DEF Tables
  <1> HIDE DEF u
  <1>7. /\ u \in Tables /\ u.sorted = t.sorted /\ SameButLock(t.map, u.map)
        /\ u.map[r].lock = t.map[r].lock + d
        /\ \A x \in Ref : x # r => u.map[x] = t.map[x]
    BY <1>1, <1>3, <1>5, <1>6
  <1> QED  BY <1>7 DEF u

LEMMA SameButLockTwice ==
  ASSUME NEW m \in [Ref -> Entry], NEW n \in [Ref -> Entry], NEW k \in [Ref -> Entry],
         SameButLock(m, n), SameButLock(n, k)
  PROVE  SameButLock(m, k)
  <1> SUFFICES ASSUME NEW x \in Ref PROVE k[x] = [m[x] EXCEPT !.lock = k[x].lock]
    BY DEF SameButLock
  <1>1. m[x] \in Entry /\ n[x] = [m[x] EXCEPT !.lock = n[x].lock] /\ k[x] = [n[x] EXCEPT !.lock = k[x].lock]
    BY DEF SameButLock
  <1>2. PICK v : v = n[x].lock  OBVIOUS
  <1>3. PICK w : w = k[x].lock  OBVIOUS
  <1>4. k[x] = [n[x] EXCEPT !.lock = w] /\ n[x] = [m[x] EXCEPT !.lock = v]  BY <1>1, <1>2, <1>3
  <1>5. [[m[x] EXCEPT !.lock = v] EXCEPT !.lock = w] = [m[x] EXCEPT !.lock = w]  BY <1>1 DEF Entry
  <1>6. k[x] = [m[x] EXCEPT !.lock = w]  BY <1>4, <1>5
  <1> QED  BY <1>3, <1>6

\* Locks do not disturb the array.
LEMMA IndexKept ==
  ASSUME NEW t \in Tables, NEW u \in Tables, Index(t), u.sorted = t.sorted,
         SameButLock(t.map, u.map)
  PROVE  Index(u)
  <1>0. t.map \in [Ref -> Entry] /\ u.map \in [Ref -> Entry] /\ t.sorted \in Seq(Ref)  BY DEF Tables
  <1>1. \A x \in Ref : /\ u.map[x].addr = t.map[x].addr /\ u.map[x].redirect = t.map[x].redirect
                       /\ u.map[x].used = t.map[x].used
    BY <1>0, SameButLockFields
  <1>2. Indexed(u.map) = Indexed(t.map)  BY <1>1 DEF Indexed
  <1>3. \A i \in 1..Len(t.sorted) : t.sorted[i] \in Ref  BY <1>0, ElementOfSeq
  <1>4. Increasing(u.map, u.sorted)  BY <1>1, <1>3 DEF Index, Increasing
  <1> QED  BY <1>2, <1>4 DEF Index

\* A lock is taken on an entry and on the one it is redirected to, or one
\* is let go of while others stay.
LEMMA LockMoves ==
  ASSUME NEW m, NEW h, MapInv(m, h), NEW r \in Ref, m[r].used,
         NEW d \in Int, h[r] + d \in Nat, m[r].redirect # "NONE" => h[r] + d > 0,
         NEW n \in [Ref -> Entry], SameButLock(m, n),
         n[r].lock = m[r].lock + d,
         \A x \in Ref : x # r => n[x].lock = IF m[r].redirect # "NONE" /\ x = m[r].to
                                             THEN m[x].lock + d ELSE m[x].lock
  PROVE  MapInv(n, [h EXCEPT ![r] = @ + d])
  <1> DEFINE g == [h EXCEPT ![r] = @ + d]
  <1>0. m \in [Ref -> Entry] /\ h \in [Ref -> Nat]  BY DEF MapInv
  <1>1. g \in [Ref -> Nat] /\ g[r] = h[r] + d /\ \A x \in Ref : x # r => g[x] = h[x]  BY <1>0
  <1> HIDE DEF g
  <1>2. \A x \in Ref : n[x].redirect = m[x].redirect /\ n[x].to = m[x].to /\ n[x].used = m[x].used
    BY <1>0, SameButLockFields
  <1>3. \A x, y \in Ref : Target(n, x, y) <=> Target(m, x, y)  BY <1>2 DEF Target
  <1>4. \A x \in Ref : ~ m[x].used => n[x].lock = 0
    <2> SUFFICES ASSUME NEW x \in Ref, ~ m[x].used PROVE n[x].lock = 0
      OBVIOUS
    <2>1. x # r /\ m[x].lock = 0  BY Unused
    <2>2. m[r].redirect # "NONE" => x # m[r].to  BY SourceLock
    <2> QED  BY <2>1, <2>2
  <1>5. ASSUME NEW x \in Ref, m[x].redirect # "NONE" PROVE n[x].lock > 0
    <2>1. m[x].lock = h[x] /\ h[x] > 0  BY <1>5, SourceLock
    <2>2. m[r].redirect # "NONE" => x # m[r].to  BY <1>5, SourceLock
    <2> QED  BY <1>0, <1>5, <2>1, <2>2
  <1>6. \A x \in Ref : g[x] > 0 => m[x].used  BY <1>1 DEF MapInv, HeldUsed
  <1>7. LockSum(n, g)
    <2> SUFFICES ASSUME NEW y \in Ref PROVE n[y].lock = g[y] + Total(Shares(n, g, y))
      BY DEF LockSum
    <2> DEFINE e == Shares(m, h, y)
               f == Shares(n, g, y)
    <2>1. /\ e \in [Ref -> Nat] /\ Total(e) \in Nat
          /\ \A x \in Ref : e[x] = IF Target(m, x, y) THEN h[x] ELSE 0
      BY <1>0, SharesType
    <2>2. /\ f \in [Ref -> Nat] /\ Total(f) \in Nat
          /\ \A x \in Ref : f[x] = IF Target(n, x, y) THEN g[x] ELSE 0
      BY <1>1, SharesType
    <2>3. m[y].lock = h[y] + Total(e) /\ h[y] \in Nat  BY <1>0 DEF MapInv, LockSum
    <2> HIDE DEF e, f
    <2>4. CASE Target(m, r, y)
      <3>1. m[r].redirect # "NONE" /\ m[r].to = y  BY <2>4 DEF Target
      <3>2. y # r  BY <3>1, SourceLock
      <3>3. f[r] = e[r] + d  BY <1>1, <1>3, <2>1, <2>2, <2>4
      <3>4. \A x \in Ref : x # r => f[x] = e[x]  BY <1>1, <1>3, <2>1, <2>2
      <3>5. Total(f) = Total(e) + d  BY <2>1, <2>2, <3>3, <3>4, TotalChanges
      <3>6. n[y].lock = m[y].lock + d /\ g[y] = h[y]  BY <1>1, <3>1, <3>2
      <3> QED  BY <2>1, <2>3, <3>5, <3>6 DEF f
    <2>5. CASE ~ Target(m, r, y)
      <3>1. f = e  BY <1>1, <1>3, <2>5, SharesSame DEF e, f
      <3>2. ~ (m[r].redirect # "NONE" /\ y = m[r].to)  BY <2>5 DEF Target
      <3>3. CASE y = r  BY <1>1, <2>1, <2>3, <3>1, <3>3 DEF f
      <3>4. CASE y # r
        <4>1. n[y].lock = m[y].lock /\ g[y] = h[y]  BY <1>1, <3>2, <3>4
        <4> QED  BY <2>3, <3>1, <4>1 DEF f
      <3> QED  BY <3>3, <3>4
    <2> QED  BY <2>4, <2>5
  <1>8. MapInv(n, g)  BY <1>1, <1>4, <1>5, <1>6, <1>7, LocksChange
  <1> QED  BY <1>8 DEF g

\* The two entries whose locks move.
Moves(t, r, d) ==
  IF t.map[r].redirect = "NONE" THEN Bump(t, r, d) ELSE Bump(Bump(t, r, d), t.map[r].to, d)

LEMMA MovesIs ==
  ASSUME NEW t, NEW h, AInv(t, h), NEW r \in Ref, t.map[r].used, NEW d \in Int, h[r] + d \in Nat
  PROVE  LET u == Moves(t, r, d)
             m == t.map
         IN /\ u \in Tables /\ u.sorted = t.sorted /\ Index(u)
            /\ SameButLock(m, u.map)
            /\ u.map[r].lock = m[r].lock + d
            /\ \A x \in Ref : x # r => u.map[x].lock = IF m[r].redirect # "NONE" /\ x = m[r].to
                                                       THEN m[x].lock + d ELSE m[x].lock
  <1> DEFINE u == Moves(t, r, d)
             m == t.map
  <1>0. t \in Tables /\ MapInv(m, h) /\ Index(t)  BY DEF AInv
  <1>1. m \in [Ref -> Entry] /\ h \in [Ref -> Nat]  BY <1>0 DEF MapInv
  <1>2. \A x \in Ref : m[x].lock \in Nat /\ h[x] \in Nat  BY <1>1 DEF Entry
  <1>3. m[r].lock + d \in Nat
    <2>1. m[r].lock = h[r] + Total(Shares(m, h, r))  BY <1>0 DEF MapInv, LockSum
    <2>2. Total(Shares(m, h, r)) \in Nat  BY <1>1, SharesType
    <2> QED  BY <1>2, <2>1, <2>2
  <1> DEFINE v == Bump(t, r, d)
  <1>4. /\ v \in Tables /\ v.sorted = t.sorted /\ SameButLock(m, v.map)
        /\ v.map[r].lock = m[r].lock + d
        /\ \A x \in Ref : x # r => v.map[x] = m[x]
    BY <1>0, <1>3, BumpIs
  <1> HIDE DEF v
  <1>5. v.map \in [Ref -> Entry]  BY <1>4 DEF Tables
  <1>6. CASE m[r].redirect = "NONE"
    <2>1. u = v  BY <1>6 DEF Moves, v
    <2>2. Index(v)  BY <1>0, <1>4, IndexKept
    <2> HIDE DEF u
    <2>3. /\ u \in Tables /\ u.sorted = t.sorted /\ Index(u)
          /\ SameButLock(m, u.map)
          /\ u.map[r].lock = m[r].lock + d
          /\ \A x \in Ref : x # r => u.map[x].lock = IF m[r].redirect # "NONE" /\ x = m[r].to
                                                     THEN m[x].lock + d ELSE m[x].lock
      BY <1>4, <1>6, <2>1, <2>2
    <2> QED  BY <2>3 DEF u
  <1>7. CASE m[r].redirect # "NONE"
    <2> DEFINE q == m[r].to
    <2>1. q \in Ref /\ q # r /\ m[q].lock >= h[q] + h[r]  BY <1>0, <1>7, SourceLock
    <2> HIDE DEF q
    <2>2. m[q].lock + d \in Nat  BY <1>2, <2>1
    <2>3. v.map[q].lock + d \in Nat  BY <1>4, <2>1, <2>2
    <2>4. u = Bump(v, q, d)  BY <1>7 DEF Moves, v, q
    <2> HIDE DEF u
    <2>5. /\ u \in Tables /\ u.sorted = v.sorted /\ SameButLock(v.map, u.map)
          /\ u.map[q].lock = v.map[q].lock + d
          /\ \A x \in Ref : x # q => u.map[x] = v.map[x]
      BY <1>4, <2>1, <2>3, <2>4, BumpIs
    <2>6. u.map \in [Ref -> Entry]  BY <2>5 DEF Tables
    <2>7. SameButLock(m, u.map)  BY <1>1, <1>4, <1>5, <2>5, <2>6, SameButLockTwice
    <2>8. Index(u)  BY <1>0, <1>4, <2>5, <2>7, IndexKept
    <2>9. u.map[r].lock = m[r].lock + d  BY <1>4, <2>1, <2>5
    <2>10. \A x \in Ref : x # r => u.map[x].lock = IF m[r].redirect # "NONE" /\ x = m[r].to
                                                   THEN m[x].lock + d ELSE m[x].lock
      BY <1>4, <1>7, <2>1, <2>5 DEF q
    <2> QED  BY <1>4, <2>5, <2>7, <2>8, <2>9, <2>10 DEF u
  <1> QED  BY <1>6, <1>7

\* zb_address_lock
LEMMA DoLockInv ==
  ASSUME NEW t, NEW h, AInv(t, h), NEW r \in Ref, t.map[r].used
  PROVE  /\ AInv(DoLock(t, r), [h EXCEPT ![r] = @ + 1])
         /\ SameButLock(t.map, DoLock(t, r).map)
  <1> DEFINE u == DoLock(t, r)
  <1>0. t \in Tables /\ MapInv(t.map, h)  BY DEF AInv
  <1>1. h[r] + 1 \in Nat /\ h[r] + 1 > 0 /\ 1 \in Int  BY <1>0 DEF MapInv
  <1>2. u = Moves(t, r, 1)  BY DEF DoLock, Moves
  <1> HIDE DEF u
  <1>3. /\ u \in Tables /\ u.sorted = t.sorted /\ Index(u)
        /\ SameButLock(t.map, u.map)
        /\ u.map[r].lock = t.map[r].lock + 1
        /\ \A x \in Ref : x # r => u.map[x].lock = IF t.map[r].redirect # "NONE" /\ x = t.map[r].to
                                                   THEN t.map[x].lock + 1 ELSE t.map[x].lock
    BY <1>1, <1>2, MovesIs
  <1>4. u.map \in [Ref -> Entry]  BY <1>3 DEF Tables
  <1>5. MapInv(u.map, [h EXCEPT ![r] = @ + 1])  BY <1>0, <1>1, <1>3, <1>4, LockMoves
  <1>6. AInv(u, [h EXCEPT ![r] = @ + 1])  BY <1>3, <1>5 DEF AInv
  <1> QED  BY <1>3, <1>6 DEF u

-----------------------------------------------------------------------------
(* The array follows the entries.                                          *)

\* A reference leaves the array as its entry stops being indexed.
LEMMA DelIndex ==
  ASSUME NEW u \in Tables, NEW m \in [Ref -> Entry], NEW n \in [Ref -> Entry], NEW r \in Ref,
         Refs(u.sorted) = Indexed(m), Increasing(m, u.sorted),
         Indexed(n) = Indexed(m) \ {r},
         \A x \in Ref : x # r => n[x].addr = m[x].addr
  PROVE  LET q == DelSorted(u, r).sorted
         IN /\ DelSorted(u, r) = [map |-> u.map, sorted |-> q]
            /\ [map |-> n, sorted |-> q] \in Tables
            /\ Index([map |-> n, sorted |-> q])
  <1> DEFINE q == DelSorted(u, r).sorted
  <1>1. /\ DelSorted(u, r) = [map |-> u.map, sorted |-> q]
        /\ q \in Seq(Ref) /\ Refs(q) = Refs(u.sorted) \ {r} /\ Increasing(m, q)
    BY DelSortedIs
  <1> HIDE DEF q
  <1>2. \A i \in 1..Len(q) : q[i] \in Ref /\ q[i] # r
    <2> SUFFICES ASSUME NEW i \in 1..Len(q) PROVE q[i] \in Ref /\ q[i] # r
      OBVIOUS
    <2>1. q[i] \in Refs(q)  BY DEF Refs
    <2> QED  BY <1>1, <2>1, ElementOfSeq
  <1>3. Increasing(n, q)  BY <1>1, <1>2 DEF Increasing
  <1>4. Refs(q) = Indexed(n)  BY <1>1
  <1>5. [map |-> n, sorted |-> q] \in Tables  BY <1>1 DEF Tables
  <1>6. Index([map |-> n, sorted |-> q])  BY <1>3, <1>4 DEF Index
  <1> QED  BY <1>1, <1>5, <1>6 DEF q

\* A reference enters the array as its entry starts being indexed.
LEMMA AddIndex ==
  ASSUME NEW u \in Tables, NEW m \in [Ref -> Entry], NEW r \in Ref, NEW s \in Short,
         Refs(u.sorted) = Indexed(m), Increasing(m, u.sorted),
         r \notin Indexed(m), Indexed(u.map) = Indexed(m) \cup {r}, HasAddr(u.map, r, s),
         \A x \in Ref : x # r => u.map[x].addr = m[x].addr,
         \A x \in Indexed(m) : m[x].addr # s
  PROVE  /\ AddSorted(u, r, s).map = u.map
         /\ AddSorted(u, r, s) \in Tables
         /\ Index(AddSorted(u, r, s))
  <1> DEFINE v == AddSorted(u, r, s)
             q == v.sorted
  <1>0. u.sorted \in Seq(Ref) /\ u.map \in [Ref -> Entry]  BY DEF Tables
  <1>1. \A x \in Refs(u.sorted) : x \in Ref /\ x # r  BY DEF Indexed
  <1>2. \A i \in 1..Len(u.sorted) : u.sorted[i] \in Ref /\ u.sorted[i] # r  BY <1>1 DEF Refs
  <1>3. Increasing(u.map, u.sorted)  BY <1>2 DEF Increasing
  <1>4. \A y \in Refs(u.sorted) : u.map[y].addr # s  BY <1>1
  <1>5. /\ v = [map |-> u.map, sorted |-> q]
        /\ q \in Seq(Ref) /\ Refs(q) = Refs(u.sorted) \cup {r} /\ Increasing(u.map, q)
    BY <1>3, <1>4, AddSortedIs
  <1> HIDE DEF v
  <1>6. v.map = u.map /\ v \in Tables  BY <1>0, <1>5 DEF Tables
  <1>7. Refs(v.sorted) = Indexed(v.map)  BY <1>5, <1>6
  <1>8. Index(v)  BY <1>5, <1>6, <1>7 DEF Index
  <1> QED  BY <1>6, <1>8 DEF v

-----------------------------------------------------------------------------
(* Deletions.                                                              *)

\* What the holder of a reference reads of the entry.
Kept(m, n, x) == /\ n[x].ieee = m[x].ieee /\ n[x].addr = m[x].addr
                 /\ n[x].redirect = m[x].redirect /\ n[x].to = m[x].to

\* A locked entry that stays in use stays what it is.
KeepsLocked(m, n) == \A x \in Ref : m[x].lock > 0 /\ n[x].used => Kept(m, n, x)

LEMMA PendingType ==
  ASSUME NEW e \in Entry, NEW b \in BOOLEAN
  PROVE  LET f == [e EXCEPT !.pending = b]
         IN /\ f \in Entry
            /\ f.ieee = e.ieee /\ f.addr = e.addr /\ f.redirect = e.redirect /\ f.to = e.to
            /\ f.lock = e.lock /\ f.used = e.used
  <1> DEFINE f == [e EXCEPT !.pending = b]
  <1>1. f.ieee = e.ieee /\ f.addr = e.addr /\ f.redirect = e.redirect /\ f.to = e.to
        /\ f.lock = e.lock /\ f.used = e.used /\ f.pending = b
    BY DEF Entry
  <1>2. f = [ieee |-> e.ieee, addr |-> e.addr, redirect |-> e.redirect, to |-> e.to,
             lock |-> e.lock, used |-> e.used, pending |-> b]
    BY DEF Entry
  <1>3. f \in Entry  BY <1>2 DEF Entry
  <1> QED  BY <1>1, <1>3

Marked(t, r, b) == [t EXCEPT !.map[r].pending = b]

\* Whether a deletion is pending matters to no other entry.
LEMMA PendingInv ==
  ASSUME NEW t, NEW h, AInv(t, h), NEW r \in Ref, t.map[r].used, NEW b \in BOOLEAN
  PROVE  LET u == Marked(t, r, b)
         IN /\ AInv(u, h)
            /\ \A x \in Ref : x # r => u.map[x] = t.map[x]
            /\ \A x \in Ref : u.map[x].used = t.map[x].used /\ u.map[x].lock = t.map[x].lock
                            /\ Kept(t.map, u.map, x)
  <1> DEFINE m == t.map
             e == [m[r] EXCEPT !.pending = b]
             n == [m EXCEPT ![r] = e]
             u == Marked(t, r, b)
  <1>0. /\ t \in Tables /\ m \in [Ref -> Entry] /\ t.sorted \in Seq(Ref) /\ m[r] \in Entry
        /\ MapInv(m, h) /\ Index(t)
    BY DEF AInv, Tables
  <1>1. u = [t EXCEPT !.map = n]  BY DEF Marked
  <1>2. /\ e \in Entry
        /\ e.ieee = m[r].ieee /\ e.addr = m[r].addr /\ e.redirect = m[r].redirect /\ e.to = m[r].to
        /\ e.lock = m[r].lock /\ e.used = m[r].used
    BY <1>0, PendingType
  <1> HIDE DEF e, u
  <1>3. /\ n \in [Ref -> Entry] /\ n[r] = e /\ \A x \in Ref : x # r => n[x] = m[x]  BY <1>0, <1>2
  <1>4. MapInv(n, h)
    <2>1. ASSUME e.ieee \in Ieee, e.redirect # "SHORT", NEW x \in Ref, Matches(m, x, e.ieee)
          PROVE  Home(m, x) = Home(m, r)
      <3>1. m[r].redirect \in {"NONE", "SHORT", "IEEE"}  BY <1>0 DEF Entry
      <3>2. Matches(m, r, e.ieee)  BY <1>2, <2>1, <3>1 DEF Matches
      <3> QED  BY <1>0, <2>1, <3>2 DEF MapInv, OneHome
    <2> QED  BY <1>0, <1>2, <2>1, PairChange
  <1> HIDE DEF n
  <1>5. u = [map |-> n, sorted |-> t.sorted] /\ u \in Tables  BY <1>0, <1>1, <1>3 DEF Tables
  <1>6. \A x \in Ref : /\ n[x].addr = m[x].addr /\ n[x].redirect = m[x].redirect
                       /\ n[x].used = m[x].used /\ n[x].lock = m[x].lock /\ Kept(m, n, x)
    BY <1>2, <1>3 DEF Kept
  <1>7. Indexed(n) = Indexed(m)  BY <1>6 DEF Indexed
  <1>8. Increasing(n, t.sorted)
    <2>1. \A i \in 1..Len(t.sorted) : t.sorted[i] \in Ref  BY <1>0, ElementOfSeq
    <2> QED  BY <1>0, <1>6, <2>1 DEF Index, Increasing
  <1>9. Index(u)  BY <1>0, <1>5, <1>7, <1>8 DEF Index
  <1>10. AInv(u, h) /\ u.map = n  BY <1>4, <1>5, <1>9 DEF AInv
  <1> QED  BY <1>3, <1>6, <1>10 DEF u, e

\* What a table is once an entry was taken out of it.
Without(t, r) == [DelSorted(t, r) EXCEPT !.map[r] = Dropped(t.map[r])]

LEMMA WithoutIs ==
  ASSUME NEW t \in Tables, Index(t), NEW r \in Ref
  PROVE  LET u == Without(t, r)
         IN /\ u \in Tables /\ Index(u)
            /\ u.map = [t.map EXCEPT ![r] = Dropped(t.map[r])]
            /\ u.map[r] = Dropped(t.map[r]) /\ ~ u.map[r].used
            /\ \A x \in Ref : x # r => u.map[x] = t.map[x]
  <1> DEFINE m == t.map
             n == [m EXCEPT ![r] = Dropped(m[r])]
             q == DelSorted(t, r).sorted
             u == Without(t, r)
  <1>0. m \in [Ref -> Entry] /\ m[r] \in Entry  BY DEF Tables
  <1>1. /\ n \in [Ref -> Entry] /\ n[r] = Dropped(m[r]) /\ ~ n[r].used
        /\ \A x \in Ref : x # r => n[x] = m[x]
    BY <1>0, DroppedType
  <1>2. Refs(t.sorted) = Indexed(m) /\ Increasing(m, t.sorted)  BY DEF Index
  <1>3. u = [DelSorted(t, r) EXCEPT !.map = [@ EXCEPT ![r] = Dropped(m[r])]]  BY DEF Without
  <1> HIDE DEF n, q, u
  <1>4. Indexed(n) = Indexed(m) \ {r}  BY <1>1 DEF Indexed
  <1>5. \A x \in Ref : x # r => n[x].addr = m[x].addr  BY <1>1
  <1>6. /\ DelSorted(t, r) = [map |-> m, sorted |-> q]
        /\ [map |-> n, sorted |-> q] \in Tables /\ Index([map |-> n, sorted |-> q])
    BY <1>0, <1>1, <1>2, <1>4, <1>5, DelIndex DEF q
  <1>7. u = [map |-> n, sorted |-> q]  BY <1>3, <1>6 DEF n
  <1>8. u.map = n  BY <1>7
  <1>9. u \in Tables /\ Index(u)  BY <1>6, <1>7
  <1> QED  BY <1>1, <1>8, <1>9 DEF n, u

\* zb_address_delete
LEMMA DoDeleteInv ==
  ASSUME NEW t, NEW h, AInv(t, h), NEW r \in Ref
  PROVE  LET u == DoDelete(t, r)
         IN /\ AInv(u, h)
            /\ \A x \in Ref : x # r => u.map[x] = t.map[x]
            /\ KeepsLocked(t.map, u.map)
            /\ t.map[r].lock = 0 => ~ u.map[r].used
  <1> DEFINE u == DoDelete(t, r)
             m == t.map
  <1>0. t \in Tables /\ m \in [Ref -> Entry] /\ m[r] \in Entry /\ MapInv(m, h) /\ Index(t)
    BY DEF AInv, Tables
  <1>1. CASE ~ m[r].used
    <2>1. u = t  BY <1>1 DEF DoDelete
    <2> QED  BY <1>1, <2>1 DEF KeepsLocked, Kept
  <1>2. CASE m[r].used /\ m[r].lock > 0
    <2>1. PICK b \in BOOLEAN : b = TRUE  OBVIOUS
    <2>2. u = Marked(t, r, b)  BY <1>2, <2>1, Zenon DEF DoDelete, Marked
    <2> HIDE DEF u
    <2> DEFINE v == Marked(t, r, b)
    <2>21. t.map[r].used  BY <1>2
    <2>22. /\ AInv(v, h)
           /\ \A x \in Ref : x # r => v.map[x] = t.map[x]
           /\ \A x \in Ref : v.map[x].used = t.map[x].used /\ v.map[x].lock = t.map[x].lock
                           /\ Kept(t.map, v.map, x)
      BY <2>21, PendingInv
    <2> HIDE DEF v
    <2>23. u = v  BY <2>2 DEF v
    <2>3. /\ AInv(u, h)
          /\ \A x \in Ref : x # r => u.map[x] = m[x]
          /\ \A x \in Ref : Kept(m, u.map, x)
      BY <2>22, <2>23
    <2>4. m[r].lock # 0  BY <1>2
    <2> QED  BY <2>3, <2>4 DEF KeepsLocked, u
  <1>3. CASE m[r].used /\ ~ (m[r].lock > 0)
    <2>1. m[r].lock = 0  BY <1>0, <1>3 DEF Entry
    <2>2. u = Without(t, r)  BY <1>3 DEF DoDelete, Without
    <2> HIDE DEF u
    <2>3. /\ u \in Tables /\ Index(u)
          /\ u.map = [t.map EXCEPT ![r] = Dropped(t.map[r])]
          /\ ~ u.map[r].used
          /\ \A x \in Ref : x # r => u.map[x] = m[x]
      BY <1>0, <2>2, WithoutIs
    <2>4. MapInv(u.map, h)  BY <1>0, <2>1, <2>3, EntryDropped
    <2>5. AInv(u, h)  BY <2>3, <2>4 DEF AInv
    <2>6. KeepsLocked(m, u.map)  BY <2>3 DEF KeepsLocked, Kept
    <2> QED  BY <2>3, <2>5, <2>6 DEF u
  <1> QED  BY <1>1, <1>2, <1>3

\* A redirection goes with its last lock.
LEMMA RedirectionDropped ==
  ASSUME NEW m, NEW h, MapInv(m, h), NEW r \in Ref, m[r].redirect # "NONE", h[r] = 1,
         NEW n \in [Ref -> Entry], n[r] = Dropped(m[r]),
         NEW k \in [Ref -> Entry], SameButLock(m, k),
         \A x \in Ref : x # r => n[x] = k[x],
         \A x \in Ref : x # r => k[x].lock = IF x = m[r].to THEN m[x].lock + -1 ELSE m[x].lock
  PROVE  MapInv(n, [h EXCEPT ![r] = @ + -1])
  <1> DEFINE g == [h EXCEPT ![r] = @ + -1]
             q == m[r].to
  <1>0. m \in [Ref -> Entry] /\ h \in [Ref -> Nat] /\ m[r] \in Entry  BY DEF MapInv
  <1>1. g \in [Ref -> Nat] /\ g[r] = 0 /\ \A x \in Ref : x # r => g[x] = h[x]
    <2>1. h[r] + -1 = 0 /\ 0 \in Nat  OBVIOUS
    <2> QED  BY <1>0, <2>1
  <1> HIDE DEF g
  <1>2. q \in Ref /\ q # r /\ m[q].redirect = "NONE" /\ m[q].used /\ Target(m, r, q)
    BY SourceLock DEF Target
  <1> HIDE DEF q
  <1>3. ~ n[r].used /\ n[r].redirect = "NONE" /\ n[r].lock = 0 /\ n[r] = Dropped(n[r])
    BY <1>0, DroppedType
  <1>4. \A x \in Ref : x # r => /\ n[x].ieee = m[x].ieee /\ n[x].redirect = m[x].redirect
                                /\ n[x].to = m[x].to /\ n[x].used = m[x].used
    BY <1>0, SameButLockFields
  <1>5. \A x \in Ref : x # r => n[x].lock = IF x = q THEN m[x].lock + -1 ELSE m[x].lock
    BY DEF q
  <1>7. \A x, y \in Ref : Target(n, x, y) <=> x # r /\ Target(m, x, y)
    BY <1>3, <1>4 DEF Target
  <1>8. \A x \in Ref : ~ Target(n, x, r)
    <2>1. ASSUME NEW x \in Ref, Target(m, x, r) PROVE FALSE  BY <2>1, SourceLock DEF Target
    <2> QED  BY <1>7, <2>1
  <1>9. Clean(n)
    <2> SUFFICES ASSUME NEW x \in Ref, ~ n[x].used PROVE n[x] = Dropped(n[x])
      BY DEF Clean
    <2>1. CASE x = r  BY <1>3, <2>1
    <2>2. CASE x # r
      <3>1. ~ m[x].used /\ x # q  BY <1>2, <1>4, <2>2
      <3>2. m[x] = Dropped(m[x]) /\ m[x] \in Entry  BY <1>0, <3>1 DEF MapInv, Clean
      <3>3. k[x] = [m[x] EXCEPT !.lock = k[x].lock] /\ k[x].lock = m[x].lock
        BY <2>2, <3>1 DEF SameButLock, q
      <3>4. k[x] = m[x]  BY <3>2, <3>3 DEF Entry
      <3> QED  BY <2>2, <3>2, <3>4
    <2> QED  BY <2>1, <2>2
  <1>10. Links(n)
    <2> SUFFICES ASSUME NEW x \in Ref, n[x].redirect # "NONE"
                 PROVE  /\ n[x].used /\ n[x].lock > 0 /\ n[x].to \in Ref
                        /\ n[n[x].to].used /\ n[n[x].to].redirect = "NONE"
      BY DEF Links
    <2>1. x # r /\ m[x].redirect # "NONE" /\ n[x].to = m[x].to  BY <1>3, <1>4
    <2>2. /\ m[x].used /\ m[x].lock > 0 /\ m[x].to \in Ref
          /\ m[m[x].to].used /\ m[m[x].to].redirect = "NONE"
      BY <2>1 DEF MapInv, Links
    <2>3. m[x].to # r /\ x # q  BY <1>2, <2>1, <2>2
    <2> QED  BY <1>4, <1>5, <2>1, <2>2, <2>3
  <1>12. OneHome(n)
    <2>1. \A x \in Ref, a \in Ieee : Matches(n, x, a) => Matches(m, x, a) /\ Home(n, x) = Home(m, x)
      BY <1>3, <1>4 DEF Matches, Home
    <2> QED  BY <2>1 DEF MapInv, OneHome
  <1>13. HeldUsed(n, g)
    <2> SUFFICES ASSUME NEW x \in Ref, g[x] > 0 PROVE n[x].used
      BY DEF HeldUsed
    <2>1. x # r /\ h[x] > 0  BY <1>1
    <2> QED  BY <1>4, <2>1 DEF MapInv, HeldUsed
  <1>14. LockSum(n, g)
    <2> SUFFICES ASSUME NEW y \in Ref PROVE n[y].lock = g[y] + Total(Shares(n, g, y))
      BY DEF LockSum
    <2> DEFINE e == Shares(m, h, y)
               f == Shares(n, g, y)
    <2>1. /\ e \in [Ref -> Nat] /\ Total(e) \in Nat
          /\ \A x \in Ref : e[x] = IF Target(m, x, y) THEN h[x] ELSE 0
      BY <1>0, SharesType, ZenonT(30)
    <2>2. /\ f \in [Ref -> Nat] /\ Total(f) \in Nat
          /\ \A x \in Ref : f[x] = IF Target(n, x, y) THEN g[x] ELSE 0
      BY <1>1, SharesType
    <2>3. m[y].lock = h[y] + Total(e) /\ h[y] \in Nat  BY <1>0 DEF MapInv, LockSum
    <2> HIDE DEF e, f
    <2>4. CASE y = r
      <3>1. g[y] + Total(Shares(n, g, y)) = g[y]  BY <1>1, <1>8, <2>4, LockOfNone
      <3> QED  BY <1>1, <1>3, <2>4, <3>1
    <2>5. CASE y = q
      <3>1. e[r] = 1 /\ f[r] = 0  BY <1>2, <1>7, <2>1, <2>2, <2>5
      <3>2. \A x \in Ref : x # r => f[x] = e[x]  BY <1>1, <1>7, <2>1, <2>2
      <3>3. f[r] = e[r] + -1 /\ -1 \in Int  BY <3>1
      <3>4. Total(f) = Total(e) + -1  BY <2>1, <2>2, <3>2, <3>3, TotalChanges
      <3>5. n[y].lock = m[y].lock + -1 /\ g[y] = h[y]  BY <1>1, <1>2, <1>5, <2>5
      <3> QED  BY <2>1, <2>3, <3>4, <3>5 DEF f
    <2>6. CASE y # r /\ y # q
      <3>1. ~ Target(m, r, y)  BY <2>6 DEF Target, q
      <3>2. \A x \in Ref : /\ Target(n, x, y) <=> Target(m, x, y)
                           /\ Target(m, x, y) => g[x] = h[x]
        BY <1>1, <1>7, <3>1
      <3>3. f = e  BY <3>2, SharesSame DEF e, f
      <3>4. n[y].lock = m[y].lock /\ g[y] = h[y]  BY <1>1, <1>5, <2>6
      <3> QED  BY <2>3, <3>3, <3>4 DEF f
    <2> QED  BY <2>4, <2>5, <2>6
  <1>15. MapInv(n, g)  BY <1>1, <1>9, <1>10, <1>12, <1>13, <1>14 DEF MapInv
  <1> QED  BY <1>15 DEF g

\* zb_address_unlock
LEMMA DoUnlockInv ==
  ASSUME NEW t, NEW h, AInv(t, h), NEW r \in Ref, h[r] > 0
  PROVE  /\ AInv(DoUnlock(t, r), [h EXCEPT ![r] = @ + -1])
         /\ KeepsLocked(t.map, DoUnlock(t, r).map)
  <1> DEFINE m == t.map
             g == [h EXCEPT ![r] = @ + -1]
             v == Moves(t, r, -1)
             last == m[r].redirect # "NONE" /\ ~ (m[r].lock > 1)
             q == m[r].to
             u == IF last THEN DoDelete(v, r) ELSE v
             z == IF last THEN WayLost(u, q) ELSE u
             w == DoUnlock(t, r)
  <1>0. /\ t \in Tables /\ m \in [Ref -> Entry] /\ m[r] \in Entry /\ h \in [Ref -> Nat]
        /\ MapInv(m, h) /\ Index(t)
    BY DEF AInv, Tables, MapInv
  <1>1. m[r].used  BY <1>0 DEF MapInv, HeldUsed
  <1>2. h[r] + -1 \in Nat /\ -1 \in Int  BY <1>0
  <1>3. w = IF z.map[r].lock = 0 /\ z.map[r].pending THEN DoDelete(z, r) ELSE z
    BY DEF DoUnlock, Moves
  <1>4. /\ v \in Tables /\ v.sorted = t.sorted /\ Index(v)
        /\ SameButLock(m, v.map)
        /\ v.map[r].lock = m[r].lock + -1
        /\ \A x \in Ref : x # r => v.map[x].lock = IF m[r].redirect # "NONE" /\ x = m[r].to
                                                   THEN m[x].lock + -1 ELSE m[x].lock
    BY <1>1, <1>2, MovesIs
  <1> HIDE DEF v, w, z
  <1>5. v.map \in [Ref -> Entry]  BY <1>4 DEF Tables
  <1>6. \A x \in Ref : Kept(m, v.map, x) /\ v.map[x].used = m[x].used
    BY <1>0, <1>4, <1>5, SameButLockFields DEF Kept
  <1>7. CASE last
    <2>1. m[r].lock = h[r] /\ h[r] = 1  BY <1>0, <1>7, SourceLock
    <2>2. v.map[r].lock = 0 /\ v.map[r].used  BY <1>1, <1>4, <1>6, <2>1
    <2>3. DoDelete(v, r) = Without(v, r)  BY <2>2 DEF DoDelete, Without
    <2>4. u = Without(v, r)  BY <1>7, <2>3
    <2> HIDE DEF u
    <2>5. /\ u \in Tables /\ Index(u)
          /\ u.map[r] = Dropped(v.map[r]) /\ ~ u.map[r].used
          /\ \A x \in Ref : x # r => u.map[x] = v.map[x]
      BY <1>4, <2>4, WithoutIs
    <2>6. u.map \in [Ref -> Entry]  BY <2>5 DEF Tables
    <2>7. u.map[r] = Dropped(m[r])
      <3>1. v.map[r].pending = m[r].pending  BY <1>0, <1>4, <1>5, SameButLockFields
      <3> QED  BY <2>5, <3>1 DEF Dropped
    <2>8. MapInv(u.map, g)
      <3>1. \A x \in Ref : x # r => v.map[x].lock = IF x = m[r].to THEN m[x].lock + -1 ELSE m[x].lock
        BY <1>4, <1>7
      <3> QED  BY <1>0, <1>4, <1>5, <1>7, <2>1, <2>5, <2>6, <2>7, <3>1, RedirectionDropped, ZenonT(30)
    <2>9. AInv(u, g)  BY <2>5, <2>8 DEF AInv
    <2>10. DoDelete(u, r) = u  BY <2>5 DEF DoDelete
    <2>11. z = u
      <3>1. /\ q \in Ref /\ m[r].redirect # "NONE" /\ m[q].redirect = "NONE"
        BY <1>0, <1>7 DEF MapInv, Links
      <3>2. q # r /\ v.map[q].redirect = m[q].redirect
        BY <1>0, <1>4, <1>5, <3>1, SameButLockFields
      <3>3. u.map[q].redirect = "NONE"  BY <2>5, <3>1, <3>2
      <3> QED  BY <1>7, <3>3 DEF z, WayLost
    <2>13. w = u  BY <1>3, <2>10, <2>11
    <2>12. KeepsLocked(m, u.map)  BY <1>6, <2>5 DEF KeepsLocked, Kept
    <2> QED  BY <2>9, <2>12, <2>13 DEF w
  <1>8. CASE ~ last
    <2>1. u = v /\ z = v  BY <1>8 DEF z
    <2>2. m[r].redirect # "NONE" => h[r] + -1 > 0
      <3>1. ASSUME m[r].redirect # "NONE" PROVE h[r] + -1 > 0
        <4>1. m[r].lock = h[r] /\ m[r].lock > 1  BY <1>0, <1>8, <3>1, SourceLock
        <4> QED  BY <1>0, <4>1
      <3> QED  BY <3>1
    <2>3. MapInv(v.map, g)  BY <1>0, <1>1, <1>2, <1>4, <1>5, <2>2, LockMoves
    <2> HIDE DEF u, g
    <2>4. AInv(v, g)  BY <1>4, <2>3 DEF AInv
    <2>5. KeepsLocked(m, v.map)  BY <1>6 DEF KeepsLocked
    <2>6. CASE v.map[r].lock = 0 /\ v.map[r].pending
      <3>1. w = DoDelete(v, r)  BY <1>3, <2>1, <2>6
      <3>2. /\ AInv(w, g) /\ \A x \in Ref : x # r => w.map[x] = v.map[x]
            /\ ~ w.map[r].used
        BY <2>4, <2>6, <3>1, DoDeleteInv
      <3>3. KeepsLocked(m, w.map)  BY <1>6, <3>2 DEF KeepsLocked, Kept
      <3> QED  BY <3>2, <3>3 DEF w, g
    <2>7. CASE ~ (v.map[r].lock = 0 /\ v.map[r].pending)
      <3>1. w = v  BY <1>3, <2>1, <2>7
      <3> QED  BY <2>4, <2>5, <3>1 DEF w, g
    <2> QED  BY <2>6, <2>7
  <1> QED  BY <1>7, <1>8

-----------------------------------------------------------------------------
(* New entries and new pairs.                                              *)

Placed(n, w, r, s) == AddSorted([map |-> n, sorted |-> w.sorted], r, s)

\* A reference is taken out of the array, if it is there, and put where its
\* new short address belongs.
LEMMA Reindexed ==
  ASSUME NEW u \in Tables, NEW m \in [Ref -> Entry], NEW n \in [Ref -> Entry],
         NEW r \in Ref, NEW s \in Short, NEW w,
         Refs(u.sorted) = Indexed(m), Increasing(m, u.sorted),
         w = DelSorted(u, r) \/ (w = u /\ r \notin Indexed(m)),
         \A x \in Ref : x # r => n[x] = m[x],
         n[r].used, HasAddr(n, r, s), n[r].redirect # "SHORT",
         \A x \in Indexed(m) : x # r => m[x].addr # s
  PROVE  LET v == Placed(n, w, r, s)
         IN v.map = n /\ v \in Tables /\ Index(v) /\ w.map = u.map
  <1> DEFINE k == [m EXCEPT ![r] = Dropped(m[r])]
             z == [map |-> n, sorted |-> w.sorted]
  <1>0. u.map \in [Ref -> Entry] /\ u.sorted \in Seq(Ref)  BY DEF Tables
  <1>1. /\ k \in [Ref -> Entry] /\ ~ k[r].used /\ \A x \in Ref : x # r => k[x] = m[x]
    BY DroppedType
  <1> HIDE DEF k, z
  <1>2. Indexed(k) = Indexed(m) \ {r}  BY <1>1 DEF Indexed
  <1>3. w.sorted \in Seq(Ref) /\ Refs(w.sorted) = Indexed(k) /\ Increasing(k, w.sorted) /\ w.map = u.map
    <2>1. CASE w = DelSorted(u, r)
      <3> DEFINE q == DelSorted(u, r).sorted
      <3>1. \A x \in Ref : x # r => k[x].addr = m[x].addr  BY <1>1
      <3>2. /\ DelSorted(u, r) = [map |-> u.map, sorted |-> q]
            /\ [map |-> k, sorted |-> q] \in Tables /\ Index([map |-> k, sorted |-> q])
        BY <1>1, <1>2, <3>1, DelIndex
      <3> HIDE DEF q
      <3>3. w.map = u.map /\ w.sorted = q  BY <2>1, <3>2
      <3> QED  BY <3>2, <3>3 DEF Tables, Index
    <2>2. CASE w = u /\ r \notin Indexed(m)
      <3>1. \A i \in 1..Len(u.sorted) : u.sorted[i] \in Ref /\ u.sorted[i] # r
        BY <1>0, <2>2, ElementOfSeq DEF Refs
      <3>2. Increasing(k, u.sorted)  BY <1>1, <3>1 DEF Increasing
      <3> QED  BY <1>0, <1>2, <2>2, <3>2
    <2> QED  BY <2>1, <2>2
  <1>4. z \in Tables /\ z.map = n /\ z.sorted = w.sorted  BY <1>3 DEF z, Tables
  <1>5. Indexed(n) = Indexed(k) \cup {r}
    <2>1. n[r].addr # NoShort  BY AddrConstants DEF HasAddr, Short, NoShort
    <2> QED  BY <1>1, <2>1 DEF Indexed
  <1>6. r \notin Indexed(k)  BY <1>2
  <1>7. \A x \in Indexed(k) : k[x].addr # s
    <2>1. \A x \in Indexed(k) : x \in Ref /\ x # r /\ x \in Indexed(m)  BY <1>2 DEF Indexed
    <2> QED  BY <1>1, <2>1
  <1>8. \A x \in Ref : x # r => z.map[x].addr = k[x].addr  BY <1>1, <1>4
  <1>9. HasAddr(z.map, r, s) /\ Indexed(z.map) = Indexed(k) \cup {r}  BY <1>4, <1>5
  <1>10. Refs(z.sorted) = Indexed(k) /\ Increasing(k, z.sorted)  BY <1>3, <1>4
  <1>11. /\ AddSorted(z, r, s).map = z.map
         /\ AddSorted(z, r, s) \in Tables /\ Index(AddSorted(z, r, s))
    BY <1>1, <1>4, <1>6, <1>7, <1>8, <1>9, <1>10, AddIndex
  <1> QED  BY <1>3, <1>4, <1>11 DEF z, Placed

\* The pair an entry gets.
Paired(e, a, s) == [e EXCEPT !.ieee = a, !.addr = s]

LEMMA PairedType ==
  ASSUME NEW e \in Entry, NEW a \in Ieee \cup {Unknown}, NEW s \in Short \cup {NoShort}
  PROVE  LET f == Paired(e, a, s)
         IN /\ f \in Entry /\ f.ieee = a /\ f.addr = s /\ f.redirect = e.redirect /\ f.to = e.to
            /\ f.lock = e.lock /\ f.used = e.used
  <1> DEFINE f == Paired(e, a, s)
             g == [e EXCEPT !.ieee = a]
  <1>0. /\ g = [ieee |-> a, addr |-> e.addr, redirect |-> e.redirect, to |-> e.to,
                lock |-> e.lock, used |-> e.used, pending |-> e.pending]
        /\ f = [g EXCEPT !.addr = s]
    BY DEF Entry, Paired
  <1> HIDE DEF f, g
  <1>1. f = [ieee |-> a, addr |-> s, redirect |-> e.redirect, to |-> e.to,
             lock |-> e.lock, used |-> e.used, pending |-> e.pending]
    BY <1>0
  <1>2. f \in Entry  BY <1>1 DEF Entry
  <1>3. f.ieee = a /\ f.addr = s /\ f.redirect = e.redirect /\ f.to = e.to
        /\ f.lock = e.lock /\ f.used = e.used
    BY <1>1
  <1> QED  BY <1>2, <1>3 DEF f

\* zb_address_update gives an entry its pair.
LEMMA SetPairInv ==
  ASSUME NEW t, NEW h, AInv(t, h), NEW r \in Ref, NEW a \in Ieee \cup {Unknown}, NEW s \in Short,
         t.map[r].used, t.map[r].redirect # "SHORT",
         \A x \in Indexed(t.map) : x # r => t.map[x].addr # s,
         a \in Ieee => \A x \in Ref : Matches(t.map, x, a) => Home(t.map, x) = Home(t.map, r)
  PROVE  AInv(SetPair(t, r, a, s), h) /\ SetPair(t, r, a, s).map[r].used
  <1> DEFINE m == t.map
             e == m[r]
             f == Paired(e, a, s)
             n == [m EXCEPT ![r] = f]
             u == [t EXCEPT !.map[r].ieee = a]
             w == IF e.addr = NoShort THEN u ELSE DelSorted(u, r)
             v == [w EXCEPT !.map[r].addr = s]
             z == SetPair(t, r, a, s)
  <1>0. /\ t \in Tables /\ m \in [Ref -> Entry] /\ e \in Entry /\ t.sorted \in Seq(Ref)
        /\ MapInv(m, h) /\ Index(t) /\ t = [map |-> m, sorted |-> t.sorted]
    BY DEF AInv, Tables
  <1>1. /\ f \in Entry /\ f.ieee = a /\ f.addr = s /\ f.redirect = e.redirect /\ f.to = e.to
        /\ f.lock = e.lock /\ f.used = e.used
    BY <1>0, PairedType
  <1>2. z = IF e.addr = s THEN u ELSE AddSorted(v, r, s)  BY DEF SetPair
  <1>3. u = [map |-> [m EXCEPT ![r] = [e EXCEPT !.ieee = a]], sorted |-> t.sorted]
    <2>1. u = [t EXCEPT !.map = [m EXCEPT ![r] = [e EXCEPT !.ieee = a]]]  OBVIOUS
    <2> QED  BY <1>0, <2>1
  <1>4. [e EXCEPT !.ieee = a] \in Entry  BY <1>0 DEF Entry
  <1>5. u \in Tables /\ u.sorted = t.sorted /\ u.map = [m EXCEPT ![r] = [e EXCEPT !.ieee = a]]
    BY <1>0, <1>3, <1>4 DEF Tables
  <1>6. MapInv(n, h)
    <2>1. f.ieee \in Ieee /\ f.redirect # "SHORT" =>
            \A x \in Ref : Matches(m, x, f.ieee) => Home(m, x) = Home(m, r)
      BY <1>1
    <2> HIDE DEF f
    <2> QED  BY <1>0, <1>1, <2>1, PairChange
  <1>7. n \in [Ref -> Entry] /\ n[r] = f /\ \A x \in Ref : x # r => n[x] = m[x]  BY <1>0, <1>1
  <1>8. CASE e.addr = s
    <2>1. z = u  BY <1>2, <1>8
    <2>2. f = [e EXCEPT !.ieee = a]  BY <1>0, <1>8 DEF Paired, Entry
    <2>3. u.map = n  BY <1>5, <2>2
    <2> HIDE DEF z, u, n, f
    <2>4. Indexed(n) = Indexed(m)
      <3>1. \A x \in Ref : n[x].used = m[x].used /\ n[x].addr = m[x].addr /\ n[x].redirect = m[x].redirect
        BY <1>1, <1>7, <1>8
      <3> QED  BY <3>1 DEF Indexed
    <2>5. Increasing(n, t.sorted)
      <3>1. \A i \in 1..Len(t.sorted) : t.sorted[i] \in Ref  BY <1>0, ElementOfSeq
      <3>2. \A x \in Ref : n[x].addr = m[x].addr  BY <1>1, <1>7, <1>8
      <3> QED  BY <1>0, <3>1, <3>2 DEF Index, Increasing
    <2>6. Index(u)  BY <1>0, <1>5, <2>3, <2>4, <2>5 DEF Index
    <2>7. AInv(u, h)  BY <1>5, <1>6, <2>3, <2>6 DEF AInv
    <2>8. n[r].used  BY <1>1, <1>7
    <2> QED  BY <2>1, <2>3, <2>7, <2>8 DEF z
  <1>9. CASE e.addr # s
    <2>1. w = DelSorted(u, r) \/ (w = u /\ r \notin Indexed(m))  BY DEF Indexed
    <2> HIDE DEF z, u, n, f, w
    <2>2. n[r].used /\ HasAddr(n, r, s) /\ n[r].redirect # "SHORT"  BY <1>1, <1>7 DEF HasAddr
    <2>3. Refs(u.sorted) = Indexed(m) /\ Increasing(m, u.sorted)  BY <1>0, <1>5 DEF Index
    <2>31. \A x \in Indexed(m) : x # r => m[x].addr # s  OBVIOUS
    <2>32. /\ u \in Tables /\ m \in [Ref -> Entry] /\ n \in [Ref -> Entry]
           /\ \A x \in Ref : x # r => n[x] = m[x]
      BY <1>0, <1>5, <1>7
    <2> HIDE DEF m
    <2>4. LET y == Placed(n, w, r, s)
          IN y.map = n /\ y \in Tables /\ Index(y) /\ w.map = u.map
      BY <2>1, <2>2, <2>3, <2>31, <2>32, Reindexed
    <2>5. v = [map |-> n, sorted |-> w.sorted]
      <3>1. w = [map |-> u.map, sorted |-> w.sorted]
        <4>1. CASE w = u  BY <1>5, <4>1 DEF Tables
        <4>2. CASE w = DelSorted(u, r)
          <5>1. m \in [Ref -> Entry] /\ Increasing(m, u.sorted)  BY <1>0, <2>3
          <5>2. DelSorted(u, r) = [map |-> u.map, sorted |-> DelSorted(u, r).sorted]
            BY <1>5, <5>1, DelSortedIs
          <5> QED  BY <4>2, <5>2
        <4> QED  BY <2>1, <4>1, <4>2
      <3>2. v = [w EXCEPT !.map = [w.map EXCEPT ![r] = [w.map[r] EXCEPT !.addr = s]]]  OBVIOUS
      <3>3. v = [map |-> [u.map EXCEPT ![r] = [u.map[r] EXCEPT !.addr = s]], sorted |-> w.sorted]
        BY <3>1, <3>2
      <3>4. u.map[r] = [e EXCEPT !.ieee = a]  BY <1>0, <1>5
      <3>5. [u.map[r] EXCEPT !.addr = s] = f  BY <3>4 DEF f, Paired
      <3>6. [u.map EXCEPT ![r] = f] = n
        <4> HIDE DEF f
        <4> QED  BY <1>0, <1>5 DEF n
      <3> QED  BY <3>3, <3>5, <3>6
    <2>6. z = AddSorted(v, r, s)  BY <1>2, <1>9
    <2>7. z.map = n /\ z \in Tables /\ Index(z)  BY <2>4, <2>5, <2>6 DEF Placed
    <2>8. AInv(z, h) /\ z.map[r].used  BY <1>6, <2>2, <2>7 DEF AInv
    <2> QED  BY <2>8 DEF z
  <1> QED  BY <1>8, <1>9

\* What addr_add makes of the entry it found.
Added(e, a, s) == [e EXCEPT !.ieee = a, !.addr = s, !.redirect = "NONE", !.to = NoRef, !.used = TRUE]

LEMMA AddedType ==
  ASSUME NEW e \in Entry, NEW a \in Ieee \cup {Unknown}, NEW s \in Short \cup {NoShort}
  PROVE  LET f == Added(e, a, s)
         IN /\ f \in Entry /\ f.ieee = a /\ f.addr = s /\ f.redirect = "NONE"
            /\ f.lock = e.lock /\ f.used
  <1> DEFINE f == Added(e, a, s)
             g == [e EXCEPT !.ieee = a]
             i == [g EXCEPT !.addr = s]
             j == [i EXCEPT !.redirect = "NONE"]
             k == [j EXCEPT !.to = NoRef]
  <1>1. g = [ieee |-> a, addr |-> e.addr, redirect |-> e.redirect, to |-> e.to,
             lock |-> e.lock, used |-> e.used, pending |-> e.pending]
    BY DEF Entry
  <1>2. f = [k EXCEPT !.used = TRUE]  BY DEF Added
  <1> HIDE DEF f, g
  <1>3. i = [ieee |-> a, addr |-> s, redirect |-> e.redirect, to |-> e.to,
             lock |-> e.lock, used |-> e.used, pending |-> e.pending]
    BY <1>1
  <1> HIDE DEF i
  <1>4. j = [ieee |-> a, addr |-> s, redirect |-> "NONE", to |-> e.to,
             lock |-> e.lock, used |-> e.used, pending |-> e.pending]
    BY <1>3
  <1> HIDE DEF j
  <1>5. k = [ieee |-> a, addr |-> s, redirect |-> "NONE", to |-> NoRef,
             lock |-> e.lock, used |-> e.used, pending |-> e.pending]
    BY <1>4
  <1> HIDE DEF k
  <1>6. f = [ieee |-> a, addr |-> s, redirect |-> "NONE", to |-> NoRef,
             lock |-> e.lock, used |-> TRUE, pending |-> e.pending]
    BY <1>2, <1>5
  <1>7. f \in Entry  BY <1>6 DEF Entry
  <1>8. f.ieee = a /\ f.addr = s /\ f.redirect = "NONE" /\ f.lock = e.lock /\ f.used  BY <1>6
  <1> QED  BY <1>7, <1>8 DEF f

\* addr_add
LEMMA AddrAddInv ==
  ASSUME NEW t, NEW h, AInv(t, h), NEW i \in Ref, t.map[i].lock = 0,
         NEW a \in Ieee \cup {Unknown}, NEW s \in Short \cup {NoShort},
         s = NoShort => ~ t.map[i].used,
         \A x \in Indexed(t.map) : t.map[x].addr # s,
         a \in Ieee => \A x \in Ref : ~ Matches(t.map, x, a)
  PROVE  LET u == AddrAdd(t, a, s, i)
         IN /\ AInv(u, h) /\ u.map[i].used
            /\ \A x \in Ref : x # i => u.map[x] = t.map[x]
  <1> DEFINE m == t.map
             e == m[i]
             f == Added(e, a, s)
             n == [m EXCEPT ![i] = f]
             u == [t EXCEPT !.map[i] = f]
             w == IF e.used THEN DelSorted(u, i) ELSE u
             z == AddrAdd(t, a, s, i)
  <1>0. /\ t \in Tables /\ m \in [Ref -> Entry] /\ e \in Entry /\ t.sorted \in Seq(Ref)
        /\ MapInv(m, h) /\ Index(t) /\ t = [map |-> m, sorted |-> t.sorted]
    BY DEF AInv, Tables
  <1>1. /\ f \in Entry /\ f.ieee = a /\ f.addr = s /\ f.redirect = "NONE"
        /\ f.lock = e.lock /\ f.used
    BY <1>0, AddedType
  <1>2. z = IF s = NoShort THEN u ELSE AddSorted(w, i, s)  BY DEF AddrAdd, Added
  <1>3. u = [map |-> n, sorted |-> t.sorted]
    <2>1. u = [t EXCEPT !.map = n]  OBVIOUS
    <2> HIDE DEF u, n
    <2> QED  BY <1>0, <2>1
  <1> HIDE DEF f, u
  <1>4. n \in [Ref -> Entry] /\ n[i] = f /\ \A x \in Ref : x # i => n[x] = m[x]  BY <1>0, <1>1
  <1>5. MapInv(n, h)
    <2>1. e.redirect = "NONE" /\ \A x \in Ref : ~ Target(m, x, i)  BY <1>0, NoLock
    <2>2. f.ieee \in Ieee /\ f.redirect # "SHORT" =>
            \A x \in Ref : Matches(m, x, f.ieee) => Home(m, x) = Home(m, i)
      BY <1>1
    <2> QED  BY <1>0, <1>1, <2>1, <2>2, PairChange
  <1> HIDE DEF n, z, w
  <1>6. u \in Tables /\ u.map = n /\ u.sorted = t.sorted  BY <1>0, <1>3, <1>4 DEF Tables
  <1>7. n[i].used  BY <1>1, <1>4
  <1>8. CASE s = NoShort
    <2>1. z = u /\ ~ e.used  BY <1>2, <1>8
    <2>2. Indexed(n) = Indexed(m)  BY <1>1, <1>4, <1>8, <2>1 DEF Indexed
    <2>3. Increasing(n, t.sorted)
      <3>1. \A j \in 1..Len(t.sorted) : t.sorted[j] \in Refs(t.sorted)  BY DEF Refs
      <3>2. Refs(t.sorted) = Indexed(m) /\ i \notin Indexed(m)  BY <1>0, <2>1 DEF Index, Indexed
      <3>3. \A j \in 1..Len(t.sorted) : t.sorted[j] \in Ref /\ t.sorted[j] # i
        BY <1>0, <3>1, <3>2, ElementOfSeq
      <3> QED  BY <1>0, <1>4, <3>3 DEF Index, Increasing
    <2>4. Index(u)  BY <1>0, <1>6, <2>2, <2>3 DEF Index
    <2>5. AInv(u, h)  BY <1>5, <1>6, <2>4 DEF AInv
    <2> QED  BY <1>4, <1>6, <1>7, <2>1, <2>5 DEF z
  <1>9. CASE s # NoShort
    <2>0. s \in Short  BY <1>9
    <2>1. w = DelSorted(u, i) \/ (w = u /\ i \notin Indexed(m))  BY DEF Indexed, w
    <2>2. HasAddr(n, i, s) /\ n[i].redirect # "SHORT"  BY <1>1, <1>4 DEF HasAddr
    <2>3. Refs(u.sorted) = Indexed(m) /\ Increasing(m, u.sorted)  BY <1>0, <1>6 DEF Index
    <2>4. \A x \in Indexed(m) : x # i => m[x].addr # s  OBVIOUS
    <2>5. /\ u \in Tables /\ m \in [Ref -> Entry] /\ n \in [Ref -> Entry]
          /\ \A x \in Ref : x # i => n[x] = m[x]
      BY <1>0, <1>4, <1>6
    <2> HIDE DEF m
    <2>6. LET y == Placed(n, w, i, s)
          IN y.map = n /\ y \in Tables /\ Index(y) /\ w.map = u.map
      BY <1>7, <2>0, <2>1, <2>2, <2>3, <2>4, <2>5, Reindexed
    <2>7. w = [map |-> n, sorted |-> w.sorted]
      <3>1. CASE w = u  BY <1>3, <3>1
      <3>2. CASE w = DelSorted(u, i)
        <4>1. DelSorted(u, i) = [map |-> u.map, sorted |-> DelSorted(u, i).sorted]
          BY <2>3, <2>5, DelSortedIs
        <4> QED  BY <1>6, <3>2, <4>1
      <3> QED  BY <2>1, <3>1, <3>2
    <2>8. z = AddSorted(w, i, s)  BY <1>2, <1>9
    <2>9. z.map = n /\ z \in Tables /\ Index(z)  BY <2>6, <2>7, <2>8 DEF Placed
    <2>10. AInv(z, h)  BY <1>5, <2>9 DEF AInv
    <2> QED  BY <1>4, <1>7, <2>9, <2>10 DEF z, m
  <1> QED  BY <1>8, <1>9

-----------------------------------------------------------------------------
(* Redirections.                                                           *)

LEMMA RedirectedType ==
  ASSUME NEW e \in Entry, NEW q \in Ref, NEW type \in {"SHORT", "IEEE"},
         NEW a \in Ieee \cup {Unknown}, NEW s \in Short
  PROVE  LET f == Redirected(e, q, type, a, s)
         IN /\ f \in Entry /\ f.ieee = (IF type = "IEEE" THEN a ELSE e.ieee)
            /\ f.addr = (IF type = "SHORT" THEN s ELSE e.addr)
            /\ f.redirect = type /\ f.to = q /\ f.lock = e.lock /\ f.used = e.used
  <1> DEFINE f == Redirected(e, q, type, a, s)
             b == IF type = "IEEE" THEN a ELSE e.ieee
             c == IF type = "SHORT" THEN s ELSE e.addr
             i == [e EXCEPT !.redirect = type]
             j == [i EXCEPT !.to = q]
             k == [j EXCEPT !.ieee = b]
  <1>0. f = [k EXCEPT !.addr = c]  BY DEF Redirected
  <1>1. b \in Ieee \cup {Unknown} /\ c \in Short \cup {NoShort}  BY DEF Entry
  <1>2. i = [ieee |-> e.ieee, addr |-> e.addr, redirect |-> type, to |-> e.to,
             lock |-> e.lock, used |-> e.used, pending |-> e.pending]
    BY DEF Entry
  <1> HIDE DEF f, b, c, i
  <1>3. j = [ieee |-> e.ieee, addr |-> e.addr, redirect |-> type, to |-> q,
             lock |-> e.lock, used |-> e.used, pending |-> e.pending]
    BY <1>2
  <1> HIDE DEF j
  <1>4. k = [ieee |-> b, addr |-> e.addr, redirect |-> type, to |-> q,
             lock |-> e.lock, used |-> e.used, pending |-> e.pending]
    BY <1>3
  <1> HIDE DEF k
  <1>5. f = [ieee |-> b, addr |-> c, redirect |-> type, to |-> q,
             lock |-> e.lock, used |-> e.used, pending |-> e.pending]
    BY <1>0, <1>4
  <1>6. f \in Entry  BY <1>1, <1>5 DEF Entry
  <1>7. /\ f.ieee = b /\ f.addr = c /\ f.redirect = type /\ f.to = q
        /\ f.lock = e.lock /\ f.used = e.used
    BY <1>5
  <1> QED  BY <1>6, <1>7 DEF f, b, c

\* Neither a redirection nor the target of one.
Free(m, r) == m[r].redirect = "NONE" /\ \A x \in Ref : ~ Target(m, x, r)

\* An entry that has no part in a redirection becomes one to an entry that is not
\* one.
LEMMA RedirectMap ==
  ASSUME NEW m, NEW h, MapInv(m, h), NEW p \in Ref, NEW q \in Ref, p # q,
         m[p].used, m[q].used, Free(m, p), m[q].redirect = "NONE", m[p].lock > 0,
         NEW type \in {"SHORT", "IEEE"},
         NEW n \in [Ref -> Entry],
         \A x \in Ref : x # p /\ x # q => n[x] = m[x],
         n[q] = [m[q] EXCEPT !.lock = n[q].lock], n[q].lock = m[q].lock + m[p].lock,
         n[p].used, n[p].redirect = type, n[p].to = q, n[p].lock = m[p].lock,
         type = "IEEE" /\ n[p].ieee \in Ieee =>
           \A x \in Ref : Matches(m, x, n[p].ieee) => Home(m, x) = p
  PROVE  MapInv(n, h)
  <1>0. /\ m \in [Ref -> Entry] /\ h \in [Ref -> Nat] /\ m[p] \in Entry /\ m[q] \in Entry
        /\ m[p].lock \in Nat /\ m[q].lock \in Nat
    BY DEF MapInv, Entry
  <1>1. /\ n[q].ieee = m[q].ieee /\ n[q].addr = m[q].addr /\ n[q].redirect = "NONE"
        /\ n[q].to = m[q].to /\ n[q].used
    <2>1. PICK l : l = n[q].lock  OBVIOUS
    <2>2. n[q] = [m[q] EXCEPT !.lock = l]  BY <2>1
    <2> QED  BY <1>0, <2>2 DEF Entry
  <1>2. type # "NONE"  OBVIOUS
  <1>3. \A x, y \in Ref : Target(n, x, y) <=> (x = p /\ y = q) \/ (x # p /\ Target(m, x, y))
    <2> SUFFICES ASSUME NEW x \in Ref, NEW y \in Ref
                 PROVE  Target(n, x, y) <=> (x = p /\ y = q) \/ (x # p /\ Target(m, x, y))
      OBVIOUS
    <2>1. CASE x = p  BY <1>2, <2>1 DEF Target
    <2>2. CASE x = q  BY <1>1, <2>2 DEF Target
    <2>3. CASE x # p /\ x # q  BY <2>3 DEF Target
    <2> QED  BY <2>1, <2>2, <2>3
  <1>4. \A x \in Ref : ~ Target(m, x, p) /\ ~ Target(m, p, x)
    BY DEF Free, Target
  <1>5. m[p].lock = h[p]  BY <1>0, <1>4, LockOfNone DEF MapInv, LockSum
  <1>6. Clean(n)
    <2> SUFFICES ASSUME NEW x \in Ref, ~ n[x].used PROVE n[x] = Dropped(n[x])
      BY DEF Clean
    <2>1. x # p /\ x # q  BY <1>1
    <2> QED  BY <2>1 DEF MapInv, Clean
  <1>7. Links(n)
    <2> SUFFICES ASSUME NEW x \in Ref, n[x].redirect # "NONE"
                 PROVE  /\ n[x].used /\ n[x].lock > 0 /\ n[x].to \in Ref
                        /\ n[n[x].to].used /\ n[n[x].to].redirect = "NONE"
      BY DEF Links
    <2>1. CASE x = p  BY <1>1, <2>1
    <2>2. CASE x # p
      <3>1. x # q /\ n[x] = m[x]  BY <1>1, <2>2
      <3>2. /\ m[x].used /\ m[x].lock > 0 /\ m[x].to \in Ref
            /\ m[m[x].to].used /\ m[m[x].to].redirect = "NONE"
        BY <3>1 DEF MapInv, Links
      <3>3. m[x].to # p  BY <1>4, <3>1 DEF Target
      <3> QED  BY <1>1, <3>1, <3>2, <3>3
    <2> QED  BY <2>1, <2>2
  <1>9. OneHome(n)
    <2> SUFFICES ASSUME NEW a \in Ieee, NEW x \in Ref, NEW y \in Ref, Matches(n, x, a), Matches(n, y, a)
                 PROVE  Home(n, x) = Home(n, y)
      BY DEF OneHome
    <2>1. ASSUME NEW z \in Ref, z # p, Matches(n, z, a) PROVE Matches(m, z, a) /\ Home(n, z) = Home(m, z)
      <3>1. CASE z = q  BY <1>1, <2>1, <3>1 DEF Matches, Home
      <3>2. CASE z # q  BY <2>1, <3>2 DEF Matches, Home
      <3> QED  BY <3>1, <3>2
    <2>2. Home(n, p) = q  BY <1>2 DEF Home
    <2>3. ASSUME Matches(n, p, a), NEW z \in Ref, Matches(m, z, a) PROVE Home(m, z) = p
      <3>1. n[p].ieee = a /\ type = "IEEE"  BY <2>3 DEF Matches
      <3> QED  BY <2>3, <3>1
    <2>4. ASSUME NEW z \in Ref, z # p, Matches(n, p, a), Matches(n, z, a) PROVE FALSE
      <3>1. Matches(m, z, a) /\ Home(m, z) = p  BY <2>1, <2>3, <2>4
      <3>2. Target(m, z, p)  BY <2>4, <3>1 DEF Home, Target
      <3> QED  BY <1>4, <3>2
    <2>5. CASE x # p /\ y # p  BY <2>1, <2>5 DEF MapInv, OneHome
    <2>6. CASE x = p \/ y = p  BY <2>4, <2>6
    <2> QED  BY <2>5, <2>6
  <1>10. HeldUsed(n, h)
    <2> SUFFICES ASSUME NEW x \in Ref, h[x] > 0 PROVE n[x].used
      BY DEF HeldUsed
    <2>1. m[x].used  BY DEF MapInv, HeldUsed
    <2> QED  BY <1>1, <2>1
  <1>11. LockSum(n, h)
    <2> SUFFICES ASSUME NEW y \in Ref PROVE n[y].lock = h[y] + Total(Shares(n, h, y))
      BY DEF LockSum
    <2> DEFINE e == Shares(m, h, y)
               f == Shares(n, h, y)
    <2>1. /\ e \in [Ref -> Nat] /\ Total(e) \in Nat
          /\ \A x \in Ref : e[x] = IF Target(m, x, y) THEN h[x] ELSE 0
      BY <1>0, SharesType
    <2>2. /\ f \in [Ref -> Nat] /\ Total(f) \in Nat
          /\ \A x \in Ref : f[x] = IF Target(n, x, y) THEN h[x] ELSE 0
      BY <1>0, SharesType
    <2>3. m[y].lock = h[y] + Total(e) /\ h[y] \in Nat /\ h[p] \in Nat
      BY <1>0 DEF MapInv, LockSum
    <2> HIDE DEF e, f
    <2>4. CASE y = q
      <3>1. e[p] = 0 /\ f[p] = h[p]  BY <1>3, <1>4, <2>1, <2>2, <2>4
      <3>2. \A x \in Ref : x # p => f[x] = e[x]  BY <1>3, <2>1, <2>2
      <3>3. f[p] = e[p] + h[p] /\ h[p] \in Int  BY <2>3, <3>1
      <3>4. Total(f) = Total(e) + h[p]  BY <2>1, <2>2, <3>2, <3>3, TotalChanges
      <3>5. n[y].lock = m[y].lock + h[p]  BY <1>5, <2>4
      <3> QED  BY <2>1, <2>3, <3>4, <3>5 DEF f
    <2>5. CASE y # q
      <3>1. f = e  BY <1>3, <1>4, <2>5, SharesSame DEF e, f
      <3>2. n[y].lock = m[y].lock  BY <2>5
      <3> QED  BY <2>3, <3>1, <3>2 DEF f
    <2> QED  BY <2>4, <2>5
  <1> QED  BY <1>0, <1>6, <1>7, <1>9, <1>10, <1>11 DEF MapInv

LEMMA RedirectInv ==
  ASSUME NEW t, NEW h, AInv(t, h), NEW p \in Ref, NEW q \in Ref, p # q,
         t.map[p].used, t.map[q].used, Free(t.map, p), t.map[q].redirect = "NONE",
         t.map[p].lock > 0,
         NEW type \in {"SHORT", "IEEE"}, NEW a \in Ieee \cup {Unknown}, NEW s \in Short,
         type = "IEEE" /\ a \in Ieee => \A x \in Ref : Matches(t.map, x, a) => Home(t.map, x) = p
  PROVE  LET v == Redirect(t, p, q, type, a, s)
         IN /\ AInv(v, h)
            /\ \A x \in Ref : x # p /\ x # q => v.map[x] = t.map[x]
            /\ v.map[q].used /\ v.map[q].redirect = "NONE" /\ v.map[q].addr = t.map[q].addr
            /\ v.map[q].ieee = t.map[q].ieee
            /\ v.map[p].used /\ v.map[p].redirect = type /\ v.map[p].to = q
            /\ type = "IEEE" => v.map[p].addr = t.map[p].addr
  <1> DEFINE m == t.map
             e == m[p]
             f == Redirected(e, q, type, a, s)
             c == [m[q] EXCEPT !.lock = @ + e.lock]
             b == [c EXCEPT !.to = WayBack(m[q], p)]
             n == [[m EXCEPT ![q] = b] EXCEPT ![p] = f]
             u == [t EXCEPT !.map[q].lock = @ + e.lock, !.map[q].to = WayBack(m[q], p),
                            !.map[p] = f]
             v == Redirect(t, p, q, type, a, s)
  <1>0. /\ t \in Tables /\ m \in [Ref -> Entry] /\ e \in Entry /\ m[q] \in Entry /\ t.sorted \in Seq(Ref)
        /\ MapInv(m, h) /\ Index(t) /\ t = [map |-> m, sorted |-> t.sorted]
    BY DEF AInv, Tables
  <1>1. /\ f \in Entry /\ f.ieee = (IF type = "IEEE" THEN a ELSE e.ieee)
        /\ f.addr = (IF type = "SHORT" THEN s ELSE e.addr)
        /\ f.redirect = type /\ f.to = q /\ f.lock = e.lock /\ f.used = e.used
    <2>1. e \in Entry  BY <1>0
    <2> HIDE DEF e
    <2> QED  BY <2>1, RedirectedType
  <1>2. /\ b \in Entry /\ b.lock = m[q].lock + e.lock /\ b = [m[q] EXCEPT !.lock = b.lock]
        /\ b.addr = m[q].addr /\ b.redirect = m[q].redirect /\ b.used = m[q].used
        /\ b.ieee = m[q].ieee
    <2>1. c \in Entry /\ c.lock = m[q].lock + e.lock /\ c = [m[q] EXCEPT !.lock = c.lock]
      BY <1>0 DEF Entry
    <2>2. c.to = m[q].to /\ WayBack(m[q], p) = m[q].to
      BY <1>0 DEF Entry, WayBack
    <2>3. c.addr = m[q].addr /\ c.redirect = m[q].redirect /\ c.used = m[q].used /\ c.ieee = m[q].ieee
      BY <1>0 DEF Entry
    <2> HIDE DEF c
    <2>4. b = c  BY <2>1, <2>2 DEF Entry
    <2> HIDE DEF b
    <2> QED  BY <2>1, <2>3, <2>4
  <1>3. v = IF type = "SHORT" THEN DelSorted(u, p) ELSE u  BY DEF Redirect
  <1>4. u = [map |-> n, sorted |-> t.sorted]
    <2>1. u = [t EXCEPT !.map = n]  OBVIOUS
    <2> HIDE DEF u, n
    <2> QED  BY <1>0, <2>1
  <1>5. b.addr = m[q].addr /\ b.redirect = m[q].redirect /\ b.used = m[q].used /\ b.ieee = m[q].ieee
    BY <1>2
  <1> HIDE DEF f, b, u, v
  <1>6. /\ n \in [Ref -> Entry] /\ n[p] = f /\ n[q] = b
        /\ \A x \in Ref : x # p /\ x # q => n[x] = m[x]
    BY <1>0, <1>1, <1>2
  <1> HIDE DEF n
  <1>7. /\ n[p].used /\ n[p].redirect = type /\ n[p].to = q /\ n[p].lock = m[p].lock
        /\ n[q] = [m[q] EXCEPT !.lock = n[q].lock] /\ n[q].lock = m[q].lock + m[p].lock
    BY <1>1, <1>2, <1>6
  <1>8. type = "IEEE" /\ n[p].ieee \in Ieee => \A x \in Ref : Matches(m, x, n[p].ieee) => Home(m, x) = p
    BY <1>1, <1>6
  <1>9. MapInv(n, h)
    <2>1. /\ MapInv(m, h) /\ m[p].used /\ m[q].used /\ Free(m, p) /\ m[q].redirect = "NONE"
          /\ m[p].lock > 0
          /\ n \in [Ref -> Entry] /\ \A x \in Ref : x # p /\ x # q => n[x] = m[x]
      BY <1>0, <1>6
    <2> HIDE DEF m
    <2> QED  BY <1>7, <1>8, <2>1, RedirectMap
  <1>10. u \in Tables /\ u.map = n /\ u.sorted = t.sorted  BY <1>0, <1>4, <1>6 DEF Tables
  <1>11. /\ m[p].redirect = "NONE" /\ m[q].redirect = "NONE"
         /\ n[q].used /\ n[q].redirect = "NONE" /\ n[q].addr = m[q].addr /\ n[q].ieee = m[q].ieee
    BY <1>5, <1>6 DEF Free
  <1>12. v.map = n /\ AInv(v, h)
    <2>1. CASE type = "SHORT"
      <3> DEFINE k == DelSorted(u, p).sorted
      <3>1. Indexed(n) = Indexed(m) \ {p}
        <4>1. p \notin Indexed(n)  BY <1>7, <2>1 DEF Indexed
        <4>2. \A x \in Ref : x # p => n[x].used = m[x].used /\ n[x].addr = m[x].addr /\ n[x].redirect = m[x].redirect
          BY <1>5, <1>6
        <4> QED  BY <4>1, <4>2 DEF Indexed
      <3>2. \A x \in Ref : x # p => n[x].addr = m[x].addr  BY <1>5, <1>6
      <3>3. Refs(u.sorted) = Indexed(m) /\ Increasing(m, u.sorted)  BY <1>0, <1>10 DEF Index
      <3>4. /\ DelSorted(u, p) = [map |-> u.map, sorted |-> k]
            /\ [map |-> n, sorted |-> k] \in Tables
            /\ Index([map |-> n, sorted |-> k])
        BY <1>0, <1>6, <1>10, <3>1, <3>2, <3>3, DelIndex
      <3> HIDE DEF k
      <3>5. v = [map |-> n, sorted |-> k]  BY <1>3, <1>10, <2>1, <3>4
      <3>6. v.map = n  BY <3>5
      <3>7. v \in Tables /\ Index(v)  BY <3>4, <3>5
      <3> QED  BY <1>9, <3>6, <3>7 DEF AInv
    <2>2. CASE type = "IEEE"
      <3>1. v = u  BY <1>3, <2>2
      <3>2. \A x \in Ref : /\ n[x].used = m[x].used /\ n[x].addr = m[x].addr
                           /\ n[x].redirect = "SHORT" <=> m[x].redirect = "SHORT"
        <4> SUFFICES ASSUME NEW x \in Ref
                     PROVE  /\ n[x].used = m[x].used /\ n[x].addr = m[x].addr
                            /\ n[x].redirect = "SHORT" <=> m[x].redirect = "SHORT"
          OBVIOUS
        <4>1. CASE x = p  BY <1>1, <1>6, <1>11, <2>2, <4>1
        <4>2. CASE x = q  BY <1>5, <1>6, <4>2
        <4>3. CASE x # p /\ x # q  BY <1>6, <4>3
        <4> QED  BY <4>1, <4>2, <4>3
      <3>3. Indexed(n) = Indexed(m)  BY <3>2 DEF Indexed
      <3>4. \A i \in 1..Len(t.sorted) : t.sorted[i] \in Ref  BY <1>0, ElementOfSeq
      <3>5. Increasing(n, t.sorted)  BY <1>0, <3>2, <3>4 DEF Index, Increasing
      <3>6. Index(u)  BY <1>0, <1>10, <3>3, <3>5 DEF Index
      <3> QED  BY <1>9, <1>10, <3>1, <3>6 DEF AInv
    <2> QED  BY <2>1, <2>2
  <1>13. type = "IEEE" => n[p].addr = m[p].addr  BY <1>1, <1>6
  <1> QED  BY <1>6, <1>7, <1>11, <1>12, <1>13 DEF v

\* ieee_search finds where the entries with a long address lead.
LEMMA IeeeSearchFinds ==
  ASSUME NEW t, NEW h, AInv(t, h), NEW a \in Ieee \cup {Unknown}, NEW r \in IeeeSearch(t, a)
  PROVE  \/ /\ r \in Ref /\ t.map[r].used /\ t.map[r].redirect = "NONE" /\ a \in Ieee
            /\ \A x \in Ref : Matches(t.map, x, a) => Home(t.map, x) = r
         \/ r = NoRef /\ (a \in Ieee => \A x \in Ref : ~ Matches(t.map, x, a))
  <1> DEFINE m == t.map
  <1>0. MapInv(m, h) /\ m \in [Ref -> Entry]  BY DEF AInv, MapInv
  <1>1. IeeeMatches(t, a) = {Home(m, x) : x \in {y \in Ref : Matches(m, y, a)}}
    BY DEF IeeeMatches, Home, Matches
  <1>2. CASE a # Unknown /\ IeeeMatches(t, a) # {}
    <2>1. r \in IeeeMatches(t, a) /\ a \in Ieee  BY <1>2 DEF IeeeSearch
    <2>2. PICK x \in Ref : Matches(m, x, a) /\ r = Home(m, x)  BY <1>1, <2>1
    <2>3. \A y \in Ref : Matches(m, y, a) => Home(m, y) = r  BY <1>0, <2>1, <2>2 DEF MapInv, OneHome
    <2>4. r \in Ref /\ m[r].used /\ m[r].redirect = "NONE"
      <3>1. CASE m[x].redirect = "NONE"  BY <2>2, <3>1 DEF Matches, Home
      <3>2. CASE m[x].redirect # "NONE"
        <4>1. r = m[x].to  BY <2>2, <3>2 DEF Home
        <4> QED  BY <1>0, <3>2, <4>1, SourceLock
      <3> QED  BY <3>1, <3>2
    <2> QED  BY <2>1, <2>3, <2>4
  <1>3. CASE ~ (a # Unknown /\ IeeeMatches(t, a) # {})
    <2>1. r = NoRef  BY <1>3 DEF IeeeSearch
    <2>2. ASSUME a \in Ieee, NEW x \in Ref, Matches(m, x, a) PROVE FALSE
      <3>1. a # Unknown  BY <2>2, AddrConstants
      <3>2. Home(m, x) \in IeeeMatches(t, a)  BY <1>1, <2>2
      <3> QED  BY <1>3, <3>1, <3>2
    <2> QED  BY <2>1, <2>2
  <1> QED  BY <1>2, <1>3

\* No two entries of the array have one short address.
LEMMA OneShort ==
  ASSUME NEW t \in Tables, Index(t), NEW x \in Indexed(t.map), NEW y \in Indexed(t.map),
         t.map[x].addr = t.map[y].addr
  PROVE  x = y
  <1>0. t.map \in [Ref -> Entry] /\ t.sorted \in Seq(Ref)  BY DEF Tables
  <1>1. Refs(t.sorted) = Indexed(t.map) /\ Increasing(t.map, t.sorted)  BY DEF Index
  <1>2. PICK i \in 1..Len(t.sorted) : x = t.sorted[i]  BY <1>1 DEF Refs
  <1>3. PICK j \in 1..Len(t.sorted) : y = t.sorted[j]  BY <1>1 DEF Refs
  <1>4. x \in Ref /\ t.map[x].addr \in Int
    <2>1. x \in Ref  BY DEF Indexed
    <2> QED  BY <1>0, <2>1, AddrConstants DEF Entry, Short, NoShort
  <1>5. ~ (i < j) /\ ~ (j < i)  BY <1>1, <1>2, <1>3, <1>4 DEF Increasing
  <1>6. Len(t.sorted) \in Nat  BY <1>0
  <1>7. i = j  BY <1>5, <1>6
  <1> QED  BY <1>2, <1>3, <1>7

\* short_search, of the table.
LEMMA ShortSearchOf ==
  ASSUME NEW t, NEW h, AInv(t, h), NEW s \in Short
  PROVE  LET r == ShortSearch(t, s)
         IN \/ /\ r \in Ref /\ t.map[r].used /\ t.map[r].redirect # "SHORT" /\ t.map[r].addr = s
               /\ \A x \in Indexed(t.map) : x # r => t.map[x].addr # s
            \/ r = NoRef /\ \A x \in Indexed(t.map) : t.map[x].addr # s
  <1> DEFINE r == ShortSearch(t, s)
  <1>0. t \in Tables /\ Index(t) /\ Refs(t.sorted) = Indexed(t.map) /\ Increasing(t.map, t.sorted)
    BY DEF AInv, Index
  <1>1. \/ r \in Indexed(t.map) /\ t.map[r].addr = s
        \/ r = NoRef /\ \A x \in Indexed(t.map) : t.map[x].addr # s
    BY <1>0, ShortSearchFinds
  <1> HIDE DEF r
  <1>2. ASSUME r \in Indexed(t.map), t.map[r].addr = s
        PROVE  /\ r \in Ref /\ t.map[r].used /\ t.map[r].redirect # "SHORT"
               /\ \A x \in Indexed(t.map) : x # r => t.map[x].addr # s
    <2>1. \A x \in Indexed(t.map) : x # r => t.map[x].addr # s  BY <1>0, <1>2, OneShort
    <2> QED  BY <1>2, <2>1 DEF Indexed
  <1> QED  BY <1>1, <1>2 DEF r

\* The entry that zb_address_update is to give the pair.
Settled(t, h, r, a, s) ==
  /\ AInv(t, h) /\ r \in Ref /\ t.map[r].used /\ t.map[r].redirect # "SHORT"
  /\ \A x \in Indexed(t.map) : x # r => t.map[x].addr # s
  /\ a \in Ieee => \A x \in Ref : Matches(t.map, x, a) => Home(t.map, x) = Home(t.map, r)

\* What the two searches found.
FoundByAddr(m, r, s) ==
  \/ /\ r \in Ref /\ m[r].used /\ m[r].redirect # "SHORT" /\ m[r].addr = s
     /\ \A x \in Indexed(m) : x # r => m[x].addr # s
  \/ r = NoRef /\ \A x \in Indexed(m) : m[x].addr # s

FoundByIeee(m, r, a) ==
  \/ /\ r \in Ref /\ m[r].used /\ m[r].redirect = "NONE" /\ a \in Ieee
     /\ \A x \in Ref : Matches(m, x, a) => Home(m, x) = r
  \/ r = NoRef /\ (a \in Ieee => \A x \in Ref : ~ Matches(m, x, a))

\* No redirection gets tangled: neither entry is one, and the one that becomes one
\* is not the target of another.
CanRedirect(m, rs, rl) ==
  /\ m[rs].redirect = "NONE" /\ m[rl].redirect = "NONE"
  /\ Free(m, IF m[rs].lock > m[rl].lock THEN rl ELSE rs)

LEMMA ResolveInv ==
  ASSUME NEW t, NEW h, AInv(t, h), NEW a \in Ieee \cup {Unknown}, NEW s \in Short,
         NEW rs, NEW rl, FoundByAddr(t.map, rs, s), FoundByIeee(t.map, rl, a),
         ~ (rs = NoRef /\ rl = NoRef),
         rs \in Ref /\ rl \in Ref /\ rs # rl /\ t.map[rs].lock > 0 /\ t.map[rl].lock > 0 =>
           CanRedirect(t.map, rs, rl)
  PROVE  LET k == Resolve(t, rs, rl, a, s) IN Settled(k.t, h, k.ref, a, s)
  <1> DEFINE m == t.map
             k == Resolve(t, rs, rl, a, s)
  <1>0. m \in [Ref -> Entry] /\ MapInv(m, h) /\ \A x \in Ref : m[x].lock \in Nat
    BY DEF AInv, MapInv, Entry
  <1>n. NoRef \notin Ref  BY AddrConstants DEF Ref, NoRef
  <1>1. CASE rl = NoRef
    <2>1. rs \in Ref /\ m[rs].used /\ m[rs].redirect # "SHORT"
          /\ \A x \in Indexed(m) : x # rs => m[x].addr # s
      BY <1>1 DEF FoundByAddr
    <2>2. a \in Ieee => \A x \in Ref : ~ Matches(m, x, a)  BY <1>1, <1>n DEF FoundByIeee
    <2>3. k = [t |-> t, ref |-> rs]  BY <1>1 DEF Resolve
    <2>4. Settled(t, h, rs, a, s)  BY <2>1, <2>2 DEF Settled
    <2> QED  BY <2>3, <2>4
  <1>2. CASE rl # NoRef
    <2>1. /\ rl \in Ref /\ m[rl].used /\ m[rl].redirect = "NONE" /\ a \in Ieee
          /\ \A x \in Ref : Matches(m, x, a) => Home(m, x) = rl
      BY <1>2 DEF FoundByIeee
    <2>2. Home(m, rl) = rl  BY <2>1 DEF Home
    <2>3. CASE rs = NoRef
      <3>1. \A x \in Indexed(m) : m[x].addr # s  BY <1>n, <2>3 DEF FoundByAddr
      <3>2. k = [t |-> t, ref |-> rl]  BY <1>2, <2>3 DEF Resolve
      <3>3. Settled(t, h, rl, a, s)  BY <2>1, <2>2, <3>1 DEF Settled
      <3> QED  BY <3>2, <3>3
    <2>4. CASE rs = rl
      <3>1. k = [t |-> t, ref |-> rs]  BY <2>4 DEF Resolve
      <3>2. \A x \in Indexed(m) : x # rs => m[x].addr # s  BY <1>2, <2>4 DEF FoundByAddr
      <3>3. Settled(t, h, rs, a, s)  BY <2>1, <2>2, <2>4, <3>2 DEF Settled
      <3> QED  BY <3>1, <3>3
    <2>5. CASE rs # NoRef /\ rs # rl
      <3>1. /\ rs \in Ref /\ m[rs].used /\ m[rs].redirect # "SHORT" /\ m[rs].addr = s
            /\ \A x \in Indexed(m) : x # rs => m[x].addr # s
        BY <2>5 DEF FoundByAddr
      <3>2. CASE m[rs].lock = 0
        <4> DEFINE u == DoDelete(t, rs)
        <4>1. /\ AInv(u, h) /\ \A x \in Ref : x # rs => u.map[x] = m[x]
              /\ ~ u.map[rs].used
          BY <3>1, <3>2, DoDeleteInv
        <4>2. k = [t |-> u, ref |-> rl]  BY <1>2, <2>5, <3>2 DEF Resolve
        <4> HIDE DEF u
        <4>3. \A x \in Indexed(u.map) : x \in Indexed(m) /\ x # rs /\ u.map[x].addr = m[x].addr
          BY <4>1 DEF Indexed
        <4>4. \A x \in Indexed(u.map) : x # rl => u.map[x].addr # s  BY <3>1, <4>3
        <4>5. \A x \in Ref : Matches(u.map, x, a) => Matches(m, x, a) /\ Home(u.map, x) = Home(m, x)
          BY <4>1 DEF Matches, Home
        <4>6. Home(u.map, rl) = rl /\ u.map[rl] = m[rl]  BY <2>1, <2>5, <4>1 DEF Home
        <4>7. \A x \in Ref : Matches(u.map, x, a) => Home(u.map, x) = Home(u.map, rl)
          BY <2>1, <4>5, <4>6
        <4>8. Settled(u, h, rl, a, s)  BY <2>1, <4>1, <4>4, <4>6, <4>7 DEF Settled
        <4> QED  BY <4>2, <4>8
      <3>3. CASE m[rs].lock # 0 /\ m[rl].lock = 0
        <4> DEFINE u == DoDelete(t, rl)
        <4>1. /\ AInv(u, h) /\ \A x \in Ref : x # rl => u.map[x] = m[x]
              /\ ~ u.map[rl].used
          BY <2>1, <3>3, DoDeleteInv
        <4>2. k = [t |-> u, ref |-> rs]  BY <1>2, <2>5, <3>3 DEF Resolve
        <4> HIDE DEF u
        <4>3. \A x \in Indexed(u.map) : x \in Indexed(m) /\ u.map[x].addr = m[x].addr
          BY <4>1 DEF Indexed
        <4>4. \A x \in Indexed(u.map) : x # rs => u.map[x].addr # s  BY <3>1, <4>3
        <4>5. \A x \in Ref : ~ Target(m, x, rl)  BY <1>0, <2>1, <3>3, NoLock
        <4>6. ASSUME NEW x \in Ref, Matches(u.map, x, a) PROVE FALSE
          <5>1. x # rl /\ Matches(m, x, a)  BY <4>1, <4>6 DEF Matches
          <5>2. Home(m, x) = rl  BY <2>1, <5>1
          <5> QED  BY <4>5, <5>1, <5>2 DEF Home, Target
        <4>7. u.map[rs] = m[rs]  BY <2>5, <3>1, <4>1
        <4>8. Settled(u, h, rs, a, s)  BY <3>1, <4>1, <4>4, <4>6, <4>7 DEF Settled
        <4> QED  BY <4>2, <4>8
      <3>4. CASE m[rs].lock > 0 /\ m[rl].lock > 0
        <4>0. CanRedirect(m, rs, rl)  BY <2>1, <2>5, <3>1, <3>4
        <4>1. CASE m[rs].lock > m[rl].lock
          <5>0. Free(m, rl) /\ m[rs].redirect = "NONE"  BY <4>0, <4>1 DEF CanRedirect
          <5> DEFINE u == Redirect(t, rl, rs, "IEEE", a, s)
          <5>1. /\ AInv(u, h)
                /\ \A x \in Ref : x # rl /\ x # rs => u.map[x] = m[x]
                /\ u.map[rs].used /\ u.map[rs].redirect = "NONE" /\ u.map[rs].addr = m[rs].addr
                /\ u.map[rs].ieee = m[rs].ieee
                /\ u.map[rl].used /\ u.map[rl].redirect = "IEEE" /\ u.map[rl].to = rs
                /\ "IEEE" = "IEEE" => u.map[rl].addr = m[rl].addr
            BY <2>1, <2>5, <3>1, <3>4, <5>0, RedirectInv
          <5>2. k = [t |-> u, ref |-> rs]  BY <1>2, <2>5, <3>4, <4>1 DEF Resolve
          <5> HIDE DEF u
          <5>3. ASSUME NEW x \in Indexed(u.map), x # rs PROVE u.map[x].addr # s
            <6>1. CASE x = rl
              <7>1. u.map[x].addr = m[x].addr /\ x \in Indexed(m)  BY <2>1, <5>1, <5>3, <6>1 DEF Indexed
              <7> QED  BY <3>1, <5>3, <7>1
            <6>2. CASE x # rl
              <7>1. u.map[x] = m[x] /\ x \in Indexed(m)  BY <5>1, <5>3, <6>2 DEF Indexed
              <7> QED  BY <3>1, <5>3, <7>1
            <6> QED  BY <6>1, <6>2
          <5>4. ASSUME NEW x \in Ref, Matches(u.map, x, a) PROVE Home(u.map, x) = rs
            <6>1. CASE x = rl  BY <5>1, <6>1 DEF Home
            <6>2. CASE x = rs  BY <5>1, <6>2 DEF Home
            <6>3. CASE x # rl /\ x # rs
              <7>1. Matches(m, x, a)  BY <5>1, <5>4, <6>3 DEF Matches
              <7>2. Home(m, x) = rl  BY <2>1, <7>1
              <7> QED  BY <5>0, <6>3, <7>2 DEF Home, Target, Free
            <6> QED  BY <6>1, <6>2, <6>3
          <5>5. Home(u.map, rs) = rs  BY <5>1 DEF Home
          <5>6. Settled(u, h, rs, a, s)  BY <3>1, <5>1, <5>3, <5>4, <5>5 DEF Settled
          <5> QED  BY <5>2, <5>6
        <4>2. CASE ~ (m[rs].lock > m[rl].lock)
          <5>0. Free(m, rs) /\ m[rl].redirect = "NONE"  BY <4>0, <4>2 DEF CanRedirect
          <5> DEFINE u == Redirect(t, rs, rl, "SHORT", a, s)
          <5>1. /\ AInv(u, h)
                /\ \A x \in Ref : x # rs /\ x # rl => u.map[x] = m[x]
                /\ u.map[rl].used /\ u.map[rl].redirect = "NONE" /\ u.map[rl].addr = m[rl].addr
                /\ u.map[rl].ieee = m[rl].ieee
                /\ u.map[rs].used /\ u.map[rs].redirect = "SHORT" /\ u.map[rs].to = rl
            BY <2>1, <2>5, <3>1, <3>4, <5>0, RedirectInv
          <5>2. k = [t |-> u, ref |-> rl]  BY <1>2, <2>5, <3>4, <4>2 DEF Resolve
          <5> HIDE DEF u
          <5>3. ASSUME NEW x \in Indexed(u.map), x # rl PROVE u.map[x].addr # s
            <6>1. x # rs  BY <5>1, <5>3 DEF Indexed
            <6>2. u.map[x] = m[x] /\ x \in Indexed(m)  BY <5>1, <5>3, <6>1 DEF Indexed
            <6> QED  BY <3>1, <6>1, <6>2
          <5>4. ASSUME NEW x \in Ref, Matches(u.map, x, a) PROVE Home(u.map, x) = rl
            <6>1. x # rs  BY <5>1, <5>4 DEF Matches
            <6>2. CASE x = rl  BY <5>1, <6>2 DEF Home
            <6>3. CASE x # rl
              <7>1. Matches(m, x, a) /\ Home(u.map, x) = Home(m, x)  BY <5>1, <5>4, <6>1, <6>3 DEF Matches, Home
              <7> QED  BY <2>1, <7>1
            <6> QED  BY <6>2, <6>3
          <5>5. Home(u.map, rl) = rl  BY <5>1 DEF Home
          <5>6. Settled(u, h, rl, a, s)  BY <2>1, <5>1, <5>3, <5>4, <5>5 DEF Settled
          <5> QED  BY <5>2, <5>6
        <4> QED  BY <4>1, <4>2
      <3> QED  BY <1>0, <2>1, <3>1, <3>2, <3>3, <3>4
    <2> QED  BY <2>3, <2>4, <2>5
  <1> QED  BY <1>1, <1>2

-----------------------------------------------------------------------------
(* The reset.                                                              *)

Clear(t, f) ==
  [n \in 0..Size |-> IF n = 0 THEN t
                     ELSE IF t.map[n - 1].used THEN DelSorted(f[n - 1], n - 1) ELSE f[n - 1]]

\* The tables the reset goes through.
Clearing(t) == {u \in Tables : u.map = t.map /\ Increasing(t.map, u.sorted)}

ClearStep(t, u, n) == IF t.map[n - 1].used THEN DelSorted(u, n - 1) ELSE u

LEMMA ClearStepIs ==
  ASSUME NEW t \in Tables, NEW u \in Clearing(t), NEW n \in 1..Size
  PROVE  /\ ClearStep(t, u, n) \in Clearing(t)
         /\ Refs(ClearStep(t, u, n).sorted) =
              IF t.map[n - 1].used THEN Refs(u.sorted) \ {n - 1} ELSE Refs(u.sorted)
  <1>1. n - 1 \in Ref  BY AddrConstants DEF Ref
  <1>2. t.map \in [Ref -> Entry] /\ u \in Tables /\ u.map = t.map /\ Increasing(t.map, u.sorted)
    BY DEF Tables, Clearing
  <1>3. CASE t.map[n - 1].used
    <2> DEFINE v == DelSorted(u, n - 1)
    <2>1. /\ v = [map |-> u.map, sorted |-> v.sorted]
          /\ v.sorted \in Seq(Ref) /\ Refs(v.sorted) = Refs(u.sorted) \ {n - 1}
          /\ Increasing(t.map, v.sorted)
      BY <1>1, <1>2, DelSortedIs
    <2>2. ClearStep(t, u, n) = v  BY <1>3 DEF ClearStep
    <2> HIDE DEF v
    <2>3. v \in Tables /\ v.map = t.map  BY <1>2, <2>1 DEF Tables
    <2> QED  BY <1>3, <2>1, <2>2, <2>3 DEF Clearing
  <1>4. CASE ~ t.map[n - 1].used  BY <1>4 DEF ClearStep
  <1> QED  BY <1>3, <1>4

LEMMA ClearExists ==
  ASSUME NEW t \in Tables, Increasing(t.map, t.sorted)
  PROVE  \E f : f = Clear(t, f)
  <1> DEFINE Run(k) == \E g \in [0..k -> Clearing(t)] :
                         g[0] = t /\ \A n \in 1..k : g[n] = ClearStep(t, g[n - 1], n)
             Bad == {k \in 0..Size : ~ Run(k)}
  <1>0. Size \in Nat /\ t \in Clearing(t)  BY AddrConstants DEF Clearing
  <1>1. ASSUME Bad # {} PROVE FALSE
    <2>1. Bad \in SUBSET Nat  BY <1>0
    <2>2. PICK k \in Bad : \A j \in Bad : k <= j  BY <1>1, <2>1, Smallest
    <2>3. k # 0
      <3>1. [n \in 0..0 |-> t] \in [0..0 -> Clearing(t)] /\ [n \in 0..0 |-> t][0] = t  BY <1>0
      <3>2. Run(0)
        <4>1. \A n \in 1..0 : FALSE  OBVIOUS
        <4> QED  BY <3>1, <4>1
      <3> QED  BY <2>2, <3>2
    <2>4. k - 1 \in 0..Size /\ k - 1 < k /\ k \in 1..Size  BY <1>0, <2>2, <2>3
    <2>5. Run(k - 1)  BY <2>2, <2>4
    <2>6. PICK g \in [0..k - 1 -> Clearing(t)] :
            g[0] = t /\ \A n \in 1..k - 1 : g[n] = ClearStep(t, g[n - 1], n)
      BY <2>5
    <2>7. k - 1 \in 0..k - 1 /\ g[k - 1] \in Clearing(t)  BY <2>4, <2>6
    <2> DEFINE x == ClearStep(t, g[k - 1], k)
               e == [n \in 0..k |-> IF n = k THEN x ELSE g[n]]
    <2>8. x \in Clearing(t)  BY <2>4, <2>7, ClearStepIs
    <2> HIDE DEF x
    <2>9. \A n \in 0..k : n # k => n \in 0..k - 1  BY <2>4
    <2>10. e \in [0..k -> Clearing(t)]  BY <2>8, <2>9
    <2>11. e[0] = t
      <3>1. 0 \in 0..k /\ 0 # k  BY <2>4
      <3> QED  BY <2>6, <3>1
    <2>12. ASSUME NEW n \in 1..k PROVE e[n] = ClearStep(t, e[n - 1], n)
      <3>1. n \in 0..k /\ n - 1 \in 0..k /\ n - 1 # k  BY <2>4
      <3>2. e[n - 1] = g[n - 1]  BY <3>1
      <3>3. CASE n = k  BY <3>1, <3>2, <3>3 DEF x
      <3>4. CASE n # k
        <4>1. n \in 1..k - 1 /\ e[n] = g[n]  BY <2>4, <3>1, <3>4
        <4> QED  BY <2>6, <3>2, <4>1
      <3> QED  BY <3>3, <3>4
    <2> HIDE DEF e
    <2>13. Run(k)  BY <2>10, <2>11, <2>12
    <2> QED  BY <2>2, <2>13
  <1>2. Run(Size)  BY <1>0, <1>1
  <1>3. PICK f \in [0..Size -> Clearing(t)] :
          f[0] = t /\ \A n \in 1..Size : f[n] = ClearStep(t, f[n - 1], n)
    BY <1>2
  <1>4. ASSUME NEW n \in 0..Size
        PROVE  f[n] = IF n = 0 THEN t
                      ELSE IF t.map[n - 1].used THEN DelSorted(f[n - 1], n - 1) ELSE f[n - 1]
    <2>1. n = 0 \/ n \in 1..Size  BY <1>0
    <2> QED  BY <1>0, <1>3, <2>1 DEF ClearStep
  <1>5. f = [n \in 0..Size |-> f[n]]  BY <1>3
  <1>6. f = Clear(t, f)  BY <1>4, <1>5, Zenon DEF Clear
  <1> QED  BY <1>6

\* Every reference is out of the array after it.
LEMMA Cleared ==
  ASSUME NEW t \in Tables, Index(t), NEW f, f = Clear(t, f)
  PROVE  f[Size].sorted \in Seq(Ref) /\ Refs(f[Size].sorted) = {}
  <1> DEFINE Good(n) == f[n] \in Clearing(t) /\ Refs(f[n].sorted) = {r \in Indexed(t.map) : r >= n}
             Bad == {n \in 0..Size : ~ Good(n)}
  <1>0. Size \in Nat /\ t \in Clearing(t) /\ Refs(t.sorted) = Indexed(t.map)
    BY AddrConstants DEF Clearing, Index
  <1>1. \A n \in 0..Size : f[n] = IF n = 0 THEN t ELSE ClearStep(t, f[n - 1], n)
    BY DEF Clear, ClearStep
  <1>2. \A r \in Indexed(t.map) : r \in Nat /\ r < Size /\ t.map[r].used
    BY <1>0 DEF Indexed, Ref
  <1>3. ASSUME Bad # {} PROVE FALSE
    <2>1. Bad \in SUBSET Nat  BY <1>0
    <2>2. PICK k \in Bad : \A j \in Bad : k <= j  BY <1>3, <2>1, Smallest
    <2>3. k # 0
      <3>1. 0 \in 0..Size /\ f[0] = t  BY <1>0, <1>1
      <3>2. Good(0)  BY <1>0, <1>2, <3>1
      <3> QED  BY <2>2, <3>2
    <2>4. k - 1 \in 0..Size /\ k - 1 < k /\ k \in 1..Size  BY <1>0, <2>2, <2>3
    <2>5. Good(k - 1)  BY <2>2, <2>4
    <2>6. f[k] = ClearStep(t, f[k - 1], k)  BY <1>1, <2>3, <2>4
    <2>7. /\ f[k] \in Clearing(t)
          /\ Refs(f[k].sorted) =
               IF t.map[k - 1].used THEN Refs(f[k - 1].sorted) \ {k - 1} ELSE Refs(f[k - 1].sorted)
      BY <2>4, <2>5, <2>6, ClearStepIs
    <2>8. ASSUME NEW r PROVE r \in Refs(f[k].sorted) <=> r \in Indexed(t.map) /\ r >= k
      <3>1. r \in Refs(f[k - 1].sorted) <=> r \in Indexed(t.map) /\ r >= k - 1  BY <2>5
      <3>2. r \in Indexed(t.map) => (r >= k - 1 /\ r # k - 1 <=> r >= k)  BY <1>2, <2>4
      <3>3. r \in Indexed(t.map) /\ r = k - 1 => t.map[k - 1].used  BY <1>2
      <3>4. r = k - 1 => ~ (r >= k)  BY <2>4
      <3>5. CASE t.map[k - 1].used
        <4>1. r \in Refs(f[k].sorted) <=> r \in Refs(f[k - 1].sorted) /\ r # k - 1  BY <2>7, <3>5
        <4> QED  BY <3>1, <3>2, <3>4, <4>1
      <3>6. CASE ~ t.map[k - 1].used
        <4>1. r \in Refs(f[k].sorted) <=> r \in Refs(f[k - 1].sorted)  BY <2>7, <3>6
        <4> QED  BY <3>1, <3>2, <3>3, <3>4, <3>6, <4>1
      <3> QED  BY <3>5, <3>6
    <2>9. Refs(f[k].sorted) = {r \in Indexed(t.map) : r >= k}  BY <2>8
    <2>10. Good(k)  BY <2>7, <2>9
    <2> QED  BY <2>2, <2>10
  <1>4. Good(Size)  BY <1>0, <1>3
  <1>5. \A r \in Indexed(t.map) : ~ (r >= Size)  BY <1>0, <1>2
  <1> QED  BY <1>4, <1>5 DEF Clearing, Tables

LEMMA AllDropped ==
  ASSUME NEW m \in [Ref -> Entry], NEW h \in [Ref -> Nat], \A r \in Ref : h[r] = 0,
         NEW q \in Seq(Ref), Refs(q) = {}
  PROVE  AInv([map |-> [r \in Ref |-> Dropped(m[r])], sorted |-> q], h)
  <1> DEFINE n == [r \in Ref |-> Dropped(m[r])]
             t == [map |-> n, sorted |-> q]
  <1>1. n \in [Ref -> Entry] /\ \A r \in Ref : /\ ~ n[r].used /\ n[r].redirect = "NONE" /\ n[r].lock = 0
                                               /\ n[r] = Dropped(n[r])
    BY DroppedType
  <1> HIDE DEF n
  <1>2. \A i \in 1..Len(q) : FALSE
    <2>1. \A i \in 1..Len(q) : q[i] \in Refs(q)  BY DEF Refs
    <2> QED  BY <2>1
  <1>3. Indexed(n) = {} /\ Increasing(n, q)  BY <1>1, <1>2 DEF Indexed, Increasing
  <1>4. MapInv(n, h)
    <2>1. \A x, r \in Ref : ~ Target(n, x, r)  BY <1>1 DEF Target
    <2>2. \A x \in Ref, a \in Ieee : ~ Matches(n, x, a)  BY <1>1 DEF Matches
    <2>3. Clean(n) /\ Links(n)  BY <1>1 DEF Clean, Links
    <2>4. OneHome(n)  BY <2>2 DEF OneHome
    <2>5. HeldUsed(n, h)  BY DEF HeldUsed
    <2>6. LockSum(n, h)  BY <1>1, <2>1, LockOfNone DEF LockSum
    <2> QED  BY <1>1, <2>3, <2>4, <2>5, <2>6 DEF MapInv
  <1>5. t \in Tables /\ t.map = n /\ t.sorted = q  BY <1>1 DEF Tables
  <1> HIDE DEF t
  <1>6. AInv(t, h)  BY <1>3, <1>4, <1>5 DEF AInv, Index
  <1> QED  BY <1>6 DEF t, n

-----------------------------------------------------------------------------
(* The steps.                                                              *)

TableInv == AInv(Table, held)

LEMMA TableIs ==
  ASSUME NEW t \in Tables, map' = t.map, sorted' = t.sorted
  PROVE  Table' = t /\ Table'.map = map'
BY DEF Table, Tables

LEMMA MapIs == Table.map = map /\ Table.sorted = sorted
BY DEF Table

LEMMA InitInv ==
  ASSUME Init
  PROVE  TableInv
  <1>1. Table.map = [r \in Ref |-> NoEntry] /\ Table.sorted = << >>  BY DEF Init, Table
  <1>2. \A r \in Ref : held[r] = 0  BY DEF Init
  <1>3. held \in [Ref -> Nat]  BY DEF Init
  <1> DEFINE n == [r \in Ref |-> NoEntry]
             k == [r \in Ref |-> Dropped(n[r])]
  <1>4. n \in [Ref -> Entry] /\ k = n  BY NoEntryType
  <1>5. << >> \in Seq(Ref) /\ Refs(<< >>) = {}
    <2>1. \A i \in 1..Len(<< >>) : FALSE  OBVIOUS
    <2> QED  BY <2>1 DEF Refs
  <1> HIDE DEF n
  <1>6. AInv([map |-> k, sorted |-> << >>], held)  BY <1>2, <1>3, <1>4, <1>5, AllDropped
  <1> HIDE DEF k
  <1>7. Table = [map |-> k, sorted |-> << >>]  BY <1>1, <1>4 DEF Table, n
  <1> QED  BY <1>6, <1>7 DEF TableInv

\* What a lookup does once it has the entry.
LEMMA TakesInv ==
  ASSUME NEW t, AInv(t, held), NEW r \in Ref, t.map[r].used, NEW lock \in BOOLEAN, Takes(t, r, lock)
  PROVE  /\ TableInv'
         /\ \A x \in Ref : Kept(t.map, map', x)
  <1> DEFINE u == IF lock THEN DoLock(t, r) ELSE t
  <1>1. map' = u.map /\ sorted' = u.sorted
        /\ held' = IF lock THEN [held EXCEPT ![r] = @ + 1] ELSE held
    BY DEF Takes
  <1>2. CASE lock
    <2> DEFINE v == DoLock(t, r)
    <2>1. AInv(v, [held EXCEPT ![r] = @ + 1]) /\ SameButLock(t.map, v.map)  BY DoLockInv
    <2>2. map' = v.map /\ sorted' = v.sorted /\ held' = [held EXCEPT ![r] = @ + 1]  BY <1>1, <1>2
    <2> HIDE DEF v
    <2>3. v \in Tables /\ t \in Tables  BY <2>1 DEF AInv
    <2>4. v.map \in [Ref -> Entry] /\ t.map \in [Ref -> Entry]  BY <2>3 DEF Tables
    <2>5. Table' = v  BY <2>2, <2>3, TableIs
    <2>6. TableInv'  BY <2>1, <2>2, <2>5 DEF TableInv
    <2>7. \A x \in Ref : Kept(t.map, v.map, x)  BY <2>1, <2>4, SameButLockFields DEF Kept
    <2> QED  BY <2>2, <2>6, <2>7
  <1>3. CASE ~ lock
    <2>1. map' = t.map /\ sorted' = t.sorted /\ held' = held  BY <1>1, <1>3
    <2>2. t \in Tables  BY DEF AInv
    <2>3. Table' = t  BY <2>1, <2>2, TableIs
    <2>4. TableInv'  BY <2>1, <2>3 DEF TableInv
    <2>5. \A x \in Ref : Kept(t.map, t.map, x)  BY DEF Kept
    <2> QED  BY <2>1, <2>4, <2>5
  <1> QED  BY <1>2, <1>3

\* The entry that addr_add takes has no lock.
LEMMA SlotsUnlocked ==
  ASSUME NEW t, NEW h, AInv(t, h), NEW i \in Slots(t)
  PROVE  i \in Ref /\ t.map[i].lock = 0
  <1>1. MapInv(t.map, h)  BY DEF AInv
  <1>2. i \in Ref /\ (~ t.map[i].used \/ t.map[i].lock = 0)  BY DEF Slots
  <1>3. ~ t.map[i].used => t.map[i].lock = 0  BY <1>1, <1>2, Unused
  <1> QED  BY <1>2, <1>3

\* A new entry, and the lookup that made it.
LEMMA NewEntry ==
  ASSUME TableInv, NEW i \in Slots(Table), NEW lock \in BOOLEAN,
         NEW a \in Ieee \cup {Unknown}, NEW s \in Short \cup {NoShort},
         s = NoShort => ~ map[i].used,
         \A x \in Indexed(map) : map[x].addr # s,
         a \in Ieee => \A x \in Ref : ~ Matches(map, x, a),
         NEW t, t = AddrAdd(Table, a, s, i)
  PROVE  /\ i \in Ref /\ AInv(t, held) /\ t.map[i].used
         /\ \A x \in Ref : map[x].lock > 0 => Kept(map, t.map, x)
  <1>1. AInv(Table, held)  BY DEF TableInv
  <1>2. i \in Ref /\ Table.map[i].lock = 0  BY <1>1, SlotsUnlocked
  <1>3. /\ s = NoShort => ~ Table.map[i].used
        /\ \A x \in Indexed(Table.map) : Table.map[x].addr # s
        /\ a \in Ieee => \A x \in Ref : ~ Matches(Table.map, x, a)
    BY MapIs
  <1> DEFINE u == AddrAdd(Table, a, s, i)
  <1>4. /\ AInv(u, held) /\ u.map[i].used
        /\ \A x \in Ref : x # i => u.map[x] = Table.map[x]
    BY <1>1, <1>2, <1>3, AddrAddInv
  <1> HIDE DEF u
  <1>5. t = u  BY DEF u
  <1>6. \A x \in Ref : x # i => t.map[x] = map[x]  BY <1>4, <1>5, MapIs
  <1>7. map[i].lock = 0  BY <1>2, MapIs
  <1>8. \A x \in Ref : map[x].lock > 0 => Kept(map, t.map, x)  BY <1>6, <1>7 DEF Kept
  <1> QED  BY <1>2, <1>4, <1>5, <1>8

\* zb_address_by_ieee
LEMMA ByIeeeInv ==
  ASSUME TableInv, ~ EvictsByIeee, NEW a \in Ieee, NEW lock \in BOOLEAN, ByIeee(a, lock)
  PROVE  TableInv' /\ KeepsLocked(map, map')
  <1>0. AInv(Table, held) /\ a \in Ieee \cup {Unknown}  BY DEF TableInv
  <1>1. PICK r \in IeeeSearch(Table, a) :
          IF r # NoRef THEN lock /\ Takes(Table, r, TRUE)
          ELSE \E i \in Slots(Table) : /\ EvictsByIeee \/ ~ map[i].used
                                       /\ Takes(AddrAdd(Table, a, NoShort, i), i, lock)
    BY DEF ByIeee
  <1>2. \/ /\ r \in Ref /\ Table.map[r].used
        \/ r = NoRef /\ \A x \in Ref : ~ Matches(map, x, a)
    BY <1>0, IeeeSearchFinds, MapIs
  <1>3. CASE r # NoRef
    <2>1. r \in Ref /\ Table.map[r].used  BY <1>2, <1>3
    <2>2. PICK b \in BOOLEAN : b = TRUE  OBVIOUS
    <2>3. Takes(Table, r, b)  BY <1>1, <1>3, <2>2, Zenon
    <2>4. TableInv' /\ \A x \in Ref : Kept(Table.map, map', x)  BY <1>0, <2>1, <2>3, TakesInv
    <2> QED  BY <2>4, MapIs DEF KeepsLocked
  <1>4. CASE r = NoRef
    <2>1. PICK i \in Slots(Table) : ~ map[i].used /\ Takes(AddrAdd(Table, a, NoShort, i), i, lock)
      BY <1>1, <1>4
    <2>2. \A x \in Ref : ~ Matches(map, x, a)
      <3>1. NoRef \notin Ref  BY AddrConstants DEF Ref, NoRef
      <3> QED  BY <1>2, <1>4, <3>1
    <2>3. \A x \in Indexed(map) : map[x].addr # NoShort  BY DEF Indexed
    <2>4. PICK s \in Short \cup {NoShort} : s = NoShort  OBVIOUS
    <2>5. PICK t : t = AddrAdd(Table, a, s, i)  OBVIOUS
    <2>6. /\ s = NoShort => ~ map[i].used
          /\ \A x \in Indexed(map) : map[x].addr # s
          /\ a \in Ieee => \A x \in Ref : ~ Matches(map, x, a)
      BY <2>1, <2>2, <2>3, <2>4
    <2>7. /\ i \in Ref /\ AInv(t, held) /\ t.map[i].used
          /\ \A x \in Ref : map[x].lock > 0 => Kept(map, t.map, x)
      BY <1>0, <2>5, <2>6, NewEntry
    <2>8. Takes(t, i, lock)  BY <2>1, <2>4, <2>5
    <2>9. TableInv' /\ \A x \in Ref : Kept(t.map, map', x)  BY <2>7, <2>8, TakesInv
    <2> QED  BY <2>7, <2>9 DEF KeepsLocked, Kept
  <1> QED  BY <1>3, <1>4

\* zb_address_by_short
LEMMA ByShortInv ==
  ASSUME TableInv, NEW s \in Short, NEW lock \in BOOLEAN, ByShort(s, lock)
  PROVE  TableInv' /\ KeepsLocked(map, map')
  <1>0. AInv(Table, held)  BY DEF TableInv
  <1> DEFINE r == ShortSearch(Table, s)
  <1>1. IF r # NoRef THEN lock /\ Takes(Table, r, TRUE)
        ELSE \E i \in Slots(Table) : Takes(AddrAdd(Table, Unknown, s, i), i, lock)
    BY DEF ByShort
  <1>2. \/ r \in Ref /\ Table.map[r].used
        \/ r = NoRef /\ \A x \in Indexed(Table.map) : Table.map[x].addr # s
    BY <1>0, ShortSearchOf
  <1> HIDE DEF r
  <1>3. CASE r # NoRef
    <2>1. r \in Ref /\ Table.map[r].used  BY <1>2, <1>3
    <2>2. PICK b \in BOOLEAN : b = TRUE  OBVIOUS
    <2>3. Takes(Table, r, b)  BY <1>1, <1>3, <2>2, Zenon
    <2>4. TableInv' /\ \A x \in Ref : Kept(Table.map, map', x)  BY <1>0, <2>1, <2>3, TakesInv
    <2> QED  BY <2>4, MapIs DEF KeepsLocked
  <1>4. CASE r = NoRef
    <2>1. PICK i \in Slots(Table) : Takes(AddrAdd(Table, Unknown, s, i), i, lock)  BY <1>1, <1>4
    <2>2. NoRef \notin Ref /\ s # NoShort /\ Unknown \notin Ieee
      BY AddrConstants DEF Ref, NoRef, Short, NoShort
    <2>3. \A x \in Indexed(map) : map[x].addr # s  BY <1>2, <1>4, <2>2, MapIs
    <2>4. PICK a \in Ieee \cup {Unknown} : a = Unknown  OBVIOUS
    <2>5. PICK t : t = AddrAdd(Table, a, s, i)  OBVIOUS
    <2>6. /\ s = NoShort => ~ map[i].used
          /\ a \in Ieee => \A x \in Ref : ~ Matches(map, x, a)
          /\ s \in Short \cup {NoShort}
      BY <2>2, <2>4
    <2>7. /\ i \in Ref /\ AInv(t, held) /\ t.map[i].used
          /\ \A x \in Ref : map[x].lock > 0 => Kept(map, t.map, x)
      BY <2>3, <2>5, <2>6, NewEntry
    <2>8. Takes(t, i, lock)  BY <2>1, <2>4, <2>5
    <2>9. TableInv' /\ \A x \in Ref : Kept(t.map, map', x)  BY <2>7, <2>8, TakesInv
    <2> QED  BY <2>7, <2>9 DEF KeepsLocked, Kept
  <1> QED  BY <1>3, <1>4

\* zb_address_update cancels a pending deletion and may lock the entry.
LEMMA DoneInv ==
  ASSUME NEW t, AInv(t, held), NEW r \in Ref, t.map[r].used, NEW lock \in BOOLEAN,
         Takes([t EXCEPT !.map[r].pending = FALSE], r, lock)
  PROVE  TableInv'
  <1>1. PICK b \in BOOLEAN : b = FALSE  OBVIOUS
  <1>2. PICK u : u = Marked(t, r, b)  OBVIOUS
  <1>3. Takes(u, r, lock)  BY <1>1, <1>2, Zenon DEF Marked
  <1> DEFINE v == Marked(t, r, b)
  <1>4. AInv(v, held) /\ \A x \in Ref : v.map[x].used = t.map[x].used  BY PendingInv
  <1> HIDE DEF v
  <1>5. u = v  BY <1>2 DEF v
  <1>6. AInv(u, held) /\ u.map[r].used  BY <1>4, <1>5
  <1> QED  BY <1>3, <1>6, TakesInv

LEMMA Untangled ==
  ASSUME TableInv, NEW rs \in Ref, NEW rl \in Ref, ~ Tangles(rs, rl)
  PROVE  CanRedirect(map, rs, rl)
  <1> DEFINE from == IF map[rs].lock > map[rl].lock THEN rl ELSE rs
  <1>1. /\ map[rs].redirect = "NONE" /\ map[rl].redirect = "NONE"
        /\ ~ \E x \in Ref : map[x].redirect # "NONE" /\ map[x].to = from
    BY DEF Tangles
  <1>2. from \in {rs, rl}  OBVIOUS
  <1>3. map[from].redirect = "NONE"  BY <1>1, <1>2
  <1>4. Free(map, from)  BY <1>1, <1>3 DEF Free, Target
  <1> QED  BY <1>1, <1>4 DEF CanRedirect

\* zb_address_update
LEMMA UpdateInv ==
  ASSUME TableInv, ~ tangled', NEW a \in Ieee \cup {Unknown}, NEW s \in Short,
         NEW lock \in BOOLEAN, Update(a, s, lock)
  PROVE  TableInv'
  <1>0. AInv(Table, held) /\ NoRef \notin Ref  BY AddrConstants DEF TableInv, Ref, NoRef
  <1>1. PICK rl \in IeeeSearch(Table, a) :
          LET rs == ShortSearch(Table, s)
              Done(t, r) == Takes([t EXCEPT !.map[r].pending = FALSE], r, lock)
          IN /\ tangled' = (tangled \/ (Conflict(rs, rl) /\ Tangles(rs, rl)))
             /\ IF rs = NoRef /\ rl = NoRef
                THEN \E i \in Slots(Table) : Done(AddrAdd(Table, a, s, i), i)
                ELSE LET k == Resolve(Table, rs, rl, a, s)
                     IN IF KeepsCoordinator(k.t.map[k.ref], a, s)
                        THEN Takes(k.t, k.ref, FALSE)
                        ELSE Done(SetPair(k.t, k.ref, a, s), k.ref)
    BY DEF Update
  <1>2. FoundByIeee(map, rl, a)  BY <1>0, IeeeSearchFinds, MapIs DEF FoundByIeee
  <1>3. PICK rs : rs = ShortSearch(Table, s)  OBVIOUS
  <1>4. FoundByAddr(map, rs, s)  BY <1>0, <1>3, ShortSearchOf, MapIs DEF FoundByAddr
  <1>5. CASE rs = NoRef /\ rl = NoRef
    <2>1. PICK i \in Slots(Table) :
            Takes([AddrAdd(Table, a, s, i) EXCEPT !.map[i].pending = FALSE], i, lock)
      BY <1>1, <1>3, <1>5
    <2>2. /\ \A x \in Indexed(map) : map[x].addr # s
          /\ a \in Ieee => \A x \in Ref : ~ Matches(map, x, a)
      BY <1>0, <1>2, <1>4, <1>5 DEF FoundByAddr, FoundByIeee
    <2>3. s # NoShort /\ s \in Short \cup {NoShort}  BY AddrConstants DEF Short, NoShort
    <2>4. PICK t : t = AddrAdd(Table, a, s, i)  OBVIOUS
    <2>5. s = NoShort => ~ map[i].used  BY <2>3
    <2>6. i \in Ref /\ AInv(t, held) /\ t.map[i].used  BY <2>2, <2>3, <2>4, <2>5, NewEntry
    <2>7. Takes([t EXCEPT !.map[i].pending = FALSE], i, lock)  BY <2>1, <2>4
    <2> QED  BY <2>6, <2>7, DoneInv
  <1>6. CASE ~ (rs = NoRef /\ rl = NoRef)
    <2> DEFINE k == Resolve(Table, rs, rl, a, s)
    <2>1. /\ Conflict(rs, rl) => ~ Tangles(rs, rl)
          /\ IF KeepsCoordinator(k.t.map[k.ref], a, s)
             THEN Takes(k.t, k.ref, FALSE)
             ELSE Takes([SetPair(k.t, k.ref, a, s) EXCEPT !.map[k.ref].pending = FALSE], k.ref, lock)
      BY <1>1, <1>3, <1>6
    <2>2. rs \in Ref /\ rl \in Ref /\ rs # rl /\ Table.map[rs].lock > 0 /\ Table.map[rl].lock > 0 =>
            CanRedirect(Table.map, rs, rl)
      BY <1>0, <2>1, Untangled, MapIs DEF Conflict
    <2>3. FoundByAddr(Table.map, rs, s) /\ FoundByIeee(Table.map, rl, a)  BY <1>2, <1>4, MapIs
    <2>4. Settled(k.t, held, k.ref, a, s)  BY <1>0, <1>6, <2>2, <2>3, ResolveInv
    <2>5. PICK t : t = k.t  OBVIOUS
    <2>6. PICK r : r = k.ref  OBVIOUS
    <2>7. /\ IF KeepsCoordinator(t.map[r], a, s)
             THEN Takes(t, r, FALSE)
             ELSE Takes([SetPair(t, r, a, s) EXCEPT !.map[r].pending = FALSE], r, lock)
          /\ Settled(t, held, r, a, s)
      BY <2>1, <2>4, <2>5, <2>6
    <2> HIDE DEF k
    <2>8. /\ AInv(t, held) /\ r \in Ref /\ t.map[r].used /\ t.map[r].redirect # "SHORT"
          /\ \A x \in Indexed(t.map) : x # r => t.map[x].addr # s
          /\ a \in Ieee => \A x \in Ref : Matches(t.map, x, a) => Home(t.map, x) = Home(t.map, r)
      BY <2>7 DEF Settled
    <2>9. CASE KeepsCoordinator(t.map[r], a, s)
      <3>1. PICK b \in BOOLEAN : b = FALSE  OBVIOUS
      <3>2. Takes(t, r, b)  BY <2>7, <2>9, <3>1, Zenon
      <3> QED  BY <2>8, <3>2, TakesInv
    <2>10. CASE ~ KeepsCoordinator(t.map[r], a, s)
      <3>1. PICK u : u = SetPair(t, r, a, s)  OBVIOUS
      <3>2. AInv(SetPair(t, r, a, s), held) /\ SetPair(t, r, a, s).map[r].used  BY <2>8, SetPairInv
      <3>3. AInv(u, held) /\ u.map[r].used  BY <3>1, <3>2
      <3>4. Takes([u EXCEPT !.map[r].pending = FALSE], r, lock)  BY <2>7, <2>10, <3>1
      <3> QED  BY <2>8, <3>3, <3>4, DoneInv
    <2> QED  BY <2>9, <2>10
  <1> QED  BY <1>5, <1>6

LEMMA LockInv ==
  ASSUME TableInv, NEW r \in Ref, Lock(r)
  PROVE  TableInv' /\ KeepsLocked(map, map')
  <1>0. AInv(Table, held)  BY DEF TableInv
  <1>1. held[r] > 0 /\ Takes(Table, r, TRUE)  BY DEF Lock
  <1>2. Table.map[r].used  BY <1>0, <1>1 DEF AInv, MapInv, HeldUsed
  <1>3. PICK b \in BOOLEAN : b = TRUE  OBVIOUS
  <1>4. Takes(Table, r, b)  BY <1>1, <1>3, Zenon
  <1>5. TableInv' /\ \A x \in Ref : Kept(Table.map, map', x)  BY <1>0, <1>2, <1>4, TakesInv
  <1> QED  BY <1>5, MapIs DEF KeepsLocked

\* A client finds what it has locked locked.
LEMMA HeldLocked ==
  ASSUME NEW m, NEW h, MapInv(m, h), NEW r \in Ref, h[r] > 0
  PROVE  /\ m[r].used /\ m[r].lock > 0
         /\ m[r].redirect # "NONE" =>
              m[r].to \in Ref /\ m[m[r].to].lock > 0 /\ m[m[r].to].redirect = "NONE"
  <1>0. h \in [Ref -> Nat]  BY DEF MapInv
  <1>1. m[r].used  BY DEF MapInv, HeldUsed
  <1>2. m[r].lock > 0
    <2>1. m[r].lock = h[r] + Total(Shares(m, h, r))  BY DEF MapInv, LockSum
    <2>2. h[r] \in Nat /\ Total(Shares(m, h, r)) \in Nat  BY <1>0, SharesType
    <2> QED  BY <2>1, <2>2
  <1>3. ASSUME m[r].redirect # "NONE"
        PROVE  m[r].to \in Ref /\ m[m[r].to].lock > 0 /\ m[m[r].to].redirect = "NONE"
    <2>1. /\ m[r].to \in Ref /\ m[m[r].to].redirect = "NONE"
          /\ m[m[r].to].lock >= h[m[r].to] + h[r]
      BY <1>3, SourceLock
    <2>2. h[r] \in Nat /\ h[m[r].to] \in Nat  BY <1>0, <2>1
    <2>3. m[m[r].to].lock \in Nat  BY <2>1 DEF MapInv, Entry
    <2> QED  BY <2>1, <2>2, <2>3
  <1> QED  BY <1>1, <1>2, <1>3

LEMMA UnlockInv ==
  ASSUME TableInv, NEW r \in Ref, Unlock(r)
  PROVE  /\ TableInv' /\ KeepsLocked(map, map')
         /\ failure' \in {"NONE", "DELETED_TWICE"}
  <1> DEFINE u == DoUnlock(Table, r)
  <1>0. AInv(Table, held) /\ MapInv(map, held)  BY MapIs DEF TableInv, AInv
  <1>1. /\ held[r] > 0 /\ failure' = UnlockFailure(r)
        /\ failure' # "NOT_LOCKED" => /\ map' = u.map /\ sorted' = u.sorted
                                      /\ held' = [held EXCEPT ![r] = @ - 1]
    BY DEF Unlock
  <1>2. failure' \in {"NONE", "DELETED_TWICE"}
    <2>1. /\ map[r].used /\ map[r].lock > 0
          /\ map[r].redirect # "NONE" =>
               map[r].to \in Ref /\ map[map[r].to].lock > 0 /\ map[map[r].to].redirect = "NONE"
      BY <1>0, <1>1, HeldLocked
    <2> QED  BY <1>1, <2>1 DEF UnlockFailure
  <1>3. AInv(u, [held EXCEPT ![r] = @ + -1]) /\ KeepsLocked(Table.map, u.map)
    BY <1>0, <1>1, DoUnlockInv
  <1> HIDE DEF u
  <1>4. map' = u.map /\ sorted' = u.sorted /\ held' = [held EXCEPT ![r] = @ - 1]
    BY <1>1, <1>2
  <1>5. held' = [held EXCEPT ![r] = @ + -1]
    <2>1. held[r] \in Nat  BY <1>0 DEF MapInv
    <2>2. held[r] - 1 = held[r] + -1  BY <2>1
    <2> QED  BY <1>4, <2>2
  <1>6. u \in Tables  BY <1>3 DEF AInv
  <1>7. Table' = u  BY <1>4, <1>6, TableIs
  <1> QED  BY <1>2, <1>3, <1>4, <1>5, <1>7, MapIs DEF TableInv

LEMMA DeleteInv ==
  ASSUME TableInv, NEW r \in Ref, Delete(r)
  PROVE  TableInv' /\ KeepsLocked(map, map')
  <1> DEFINE u == DoDelete(Table, r)
  <1>0. AInv(Table, held)  BY DEF TableInv
  <1>1. map' = u.map /\ sorted' = u.sorted /\ held' = held  BY DEF Delete
  <1>2. AInv(u, held) /\ KeepsLocked(Table.map, u.map)  BY <1>0, DoDeleteInv
  <1> HIDE DEF u
  <1>3. u \in Tables  BY <1>2 DEF AInv
  <1>4. Table' = u  BY <1>1, <1>3, TableIs
  <1> QED  BY <1>1, <1>2, <1>4, MapIs DEF TableInv

LEMMA ResetInv ==
  ASSUME TableInv, Reset
  PROVE  TableInv' /\ \A r \in Ref : held[r] = 0
  <1> DEFINE f == CHOOSE f : f = Clear(Table, f)
             q == f[Size].sorted
             k == [map |-> [r \in Ref |-> Dropped(map[r])], sorted |-> q]
  <1>0. /\ Table \in Tables /\ Index(Table) /\ MapInv(map, held)
        /\ map \in [Ref -> Entry] /\ held \in [Ref -> Nat]
    BY MapIs DEF TableInv, AInv, MapInv
  <1>1. \A r \in Ref : held[r] = 0  BY DEF Reset
  <1>2. sorted' = q  BY MapIs DEF Reset, Clear
  <1>3. map' = [r \in Ref |-> Dropped(map[r])] /\ held' = held  BY DEF Reset
  <1>4. f = Clear(Table, f)
    <2>1. Increasing(Table.map, Table.sorted)  BY <1>0 DEF Index
    <2> QED  BY <1>0, <2>1, ClearExists
  <1> HIDE DEF f
  <1>5. q \in Seq(Ref) /\ Refs(q) = {}  BY <1>0, <1>4, Cleared
  <1> HIDE DEF q
  <1>6. AInv(k, held)  BY <1>0, <1>1, <1>5, AllDropped
  <1>7. Table' = k  BY <1>2, <1>3 DEF Table
  <1> HIDE DEF k
  <1> QED  BY <1>1, <1>3, <1>6, <1>7 DEF TableInv

LEMMA NextInv ==
  ASSUME TableInv, ~ tangled', ~ EvictsByIeee, [Next]_vars
  PROVE  /\ TableInv'
         /\ \/ KeepsLocked(map, map')
            \/ \A r \in Ref : held[r] = 0
            \/ \E a \in Ieee \cup {Unknown}, s \in Short, lock \in BOOLEAN : Update(a, s, lock)
  <1>1. CASE UNCHANGED vars
    <2>1. Table' = Table /\ held' = held /\ map' = map  BY <1>1 DEF vars, Table
    <2>2. KeepsLocked(map, map')  BY <2>1 DEF KeepsLocked, Kept
    <2> QED  BY <2>1, <2>2 DEF TableInv
  <1>2. ASSUME NEW a \in Ieee, NEW lock \in BOOLEAN, ByIeee(a, lock)
        PROVE  TableInv' /\ KeepsLocked(map, map')
    BY <1>2, ByIeeeInv
  <1>3. ASSUME NEW s \in Short, NEW lock \in BOOLEAN, ByShort(s, lock)
        PROVE  TableInv' /\ KeepsLocked(map, map')
    BY <1>3, ByShortInv
  <1>4. ASSUME NEW a \in Ieee \cup {Unknown}, NEW s \in Short, NEW lock \in BOOLEAN, Update(a, s, lock)
        PROVE  TableInv'
    BY <1>4, UpdateInv
  <1>5. ASSUME NEW r \in Ref, Lock(r) \/ Unlock(r) \/ Delete(r)
        PROVE  TableInv' /\ KeepsLocked(map, map')
    BY <1>5, LockInv, UnlockInv, DeleteInv
  <1>6. CASE Reset  BY <1>6, ResetInv
  <1> QED  BY <1>1, <1>2, <1>3, <1>4, <1>5, <1>6 DEF Next

\* Only zb_address_update tangles redirections, and never untangles them.
LEMMA NextTangled ==
  ASSUME [Next]_vars
  PROVE  /\ tangled => tangled'
         /\ \/ tangled' = tangled
            \/ \E a \in Ieee \cup {Unknown}, s \in Short, lock \in BOOLEAN : Update(a, s, lock)
  <1>1. CASE UNCHANGED vars  BY <1>1 DEF vars
  <1>2. ASSUME NEW a \in Ieee, NEW lock \in BOOLEAN, ByIeee(a, lock) PROVE tangled' = tangled
    BY <1>2 DEF ByIeee
  <1>3. ASSUME NEW s \in Short, NEW lock \in BOOLEAN, ByShort(s, lock) PROVE tangled' = tangled
    BY <1>3 DEF ByShort
  <1>4. ASSUME NEW a \in Ieee \cup {Unknown}, NEW s \in Short, NEW lock \in BOOLEAN, Update(a, s, lock)
        PROVE  tangled => tangled'
    BY <1>4 DEF Update
  <1>5. ASSUME NEW r \in Ref, Lock(r) \/ Unlock(r) \/ Delete(r) PROVE tangled' = tangled
    BY <1>5 DEF Lock, Unlock, Delete
  <1>6. CASE Reset  BY <1>6 DEF Reset
  <1> QED  BY <1>1, <1>2, <1>3, <1>4, <1>5, <1>6 DEF Next

LEMMA NextFailure ==
  ASSUME TableInv, failure \in {"NONE", "DELETED_TWICE"}, [Next]_vars
  PROVE  failure' \in {"NONE", "DELETED_TWICE"}
  <1>1. CASE UNCHANGED vars  BY <1>1 DEF vars
  <1>2. ASSUME NEW a \in Ieee, NEW lock \in BOOLEAN, ByIeee(a, lock) PROVE failure' = failure
    BY <1>2 DEF ByIeee, Takes
  <1>3. ASSUME NEW s \in Short, NEW lock \in BOOLEAN, ByShort(s, lock) PROVE failure' = failure
    BY <1>3 DEF ByShort, Takes
  <1>4. ASSUME NEW a \in Ieee \cup {Unknown}, NEW s \in Short, NEW lock \in BOOLEAN, Update(a, s, lock)
        PROVE  failure' = failure
    <2>1. \A t, r, b : Takes(t, r, b) => failure' = failure  BY DEF Takes
    <2> QED  BY <1>4, <2>1 DEF Update
  <1>5. ASSUME NEW r \in Ref, Lock(r) \/ Delete(r) PROVE failure' = failure
    BY <1>5 DEF Lock, Takes, Delete
  <1>6. ASSUME NEW r \in Ref, Unlock(r) PROVE failure' \in {"NONE", "DELETED_TWICE"}
    BY <1>6, UnlockInv
  <1>7. CASE Reset  BY <1>7 DEF Reset
  <1> QED  BY <1>1, <1>2, <1>3, <1>4, <1>5, <1>6, <1>7 DEF Next

\* failure and tangled stay in their types.
FlagsOK == failure \in Failures /\ tangled \in BOOLEAN

LEMMA NextFlags ==
  ASSUME FlagsOK, [Next]_vars
  PROVE  FlagsOK'
  <1>0. \A t, r, b : Takes(t, r, b) => failure' = failure  BY DEF Takes
  <1>1. CASE UNCHANGED vars  BY <1>1 DEF vars, FlagsOK
  <1>2. ASSUME NEW a \in Ieee, NEW lock \in BOOLEAN, ByIeee(a, lock) PROVE FlagsOK'
    BY <1>0, <1>2 DEF ByIeee, FlagsOK
  <1>3. ASSUME NEW s \in Short, NEW lock \in BOOLEAN, ByShort(s, lock) PROVE FlagsOK'
    BY <1>0, <1>3 DEF ByShort, FlagsOK
  <1>4. ASSUME NEW a \in Ieee \cup {Unknown}, NEW s \in Short, NEW lock \in BOOLEAN, Update(a, s, lock)
        PROVE  FlagsOK'
    <2>1. failure' = failure  BY <1>0, <1>4 DEF Update
    <2>2. tangled' \in BOOLEAN  BY <1>4 DEF Update
    <2> QED  BY <2>1, <2>2 DEF FlagsOK
  <1>5. ASSUME NEW r \in Ref, Lock(r) \/ Delete(r) PROVE FlagsOK'
    BY <1>0, <1>5 DEF Lock, Delete, FlagsOK
  <1>6. ASSUME NEW r \in Ref, Unlock(r) PROVE FlagsOK'
    <2>1. failure' = UnlockFailure(r) /\ tangled' = tangled  BY <1>6 DEF Unlock
    <2>2. UnlockFailure(r) \in Failures  BY DEF UnlockFailure, Failures
    <2> QED  BY <2>1, <2>2 DEF FlagsOK
  <1>7. CASE Reset  BY <1>7 DEF Reset, FlagsOK
  <1> QED  BY <1>1, <1>2, <1>3, <1>4, <1>5, <1>6, <1>7 DEF Next

-----------------------------------------------------------------------------
(* What holds of the entries, in the words of the specification.           *)

LEMMA ToTypeOK ==
  ASSUME FlagsOK, ~ tangled => TableInv
  PROVE  TypeOK
BY MapIs DEF FlagsOK, TableInv, AInv, Tables, MapInv, TypeOK

LEMMA ToSortedIndex ==
  ASSUME TableInv
  PROVE  SortedIndex
  <1>1. Refs(sorted) = Indexed(map) /\ Increasing(map, sorted)
    BY MapIs DEF TableInv, AInv, Index
  <1>2. sorted \in Seq(Ref)  BY MapIs DEF TableInv, AInv, Tables
  <1>3. DOMAIN sorted = 1..Len(sorted)  BY <1>2
  <1>4. ToSet(sorted) = Refs(sorted)  BY <1>3 DEF ToSet, Refs
  <1> QED  BY <1>1, <1>3, <1>4 DEF SortedIndex, Indexed, Increasing

LEMMA ToFoundByShort ==
  ASSUME TableInv
  PROVE  FoundByShort
  <1> SUFFICES ASSUME NEW r \in Ref, Regular(r), map[r].addr # NoShort
               PROVE  ShortSearch(Table, map[r].addr) = r
    BY DEF FoundByShort
  <1>0. AInv(Table, held)  BY DEF TableInv
  <1>1. map \in [Ref -> Entry]  BY <1>0, MapIs DEF AInv, Tables
  <1>2. map[r].addr \in Short  BY <1>1 DEF Entry
  <1>3. r \in Indexed(map)  BY DEF Regular, Indexed
  <1>4. PICK s \in Short : s = map[r].addr  BY <1>2
  <1>5. PICK q : q = ShortSearch(Table, s)  OBVIOUS
  <1>6. \/ /\ q \in Ref /\ map[q].used /\ map[q].redirect # "SHORT" /\ map[q].addr = s
           /\ \A x \in Indexed(map) : x # q => map[x].addr # s
        \/ q = NoRef /\ \A x \in Indexed(map) : map[x].addr # s
    BY <1>0, <1>5, ShortSearchOf, MapIs
  <1>7. q = r  BY <1>3, <1>4, <1>6
  <1> QED  BY <1>4, <1>5, <1>7

LEMMA ToLocksAddUp ==
  ASSUME TableInv
  PROVE  LocksAddUp
  <1>0. MapInv(map, held)  BY MapIs DEF TableInv, AInv
  <1>1. held \in [Ref -> Nat] /\ map \in [Ref -> Entry]  BY <1>0 DEF MapInv
  <1> SUFFICES ASSUME NEW r \in Ref
               PROVE  /\ held[r] > 0 => map[r].used
                      /\ map[r].lock = held[r] + Total([x \in Ref |-> IF Redirects(x, r) THEN held[x] ELSE 0])
    BY DEF LocksAddUp
  <1>2. held[r] > 0 => map[r].used  BY <1>0 DEF MapInv, HeldUsed
  <1>3. [x \in Ref |-> IF Redirects(x, r) THEN held[x] ELSE 0] = Shares(map, held, r)
    BY DEF Shares, Redirects, Target
  <1>4. map[r].lock = held[r] + Total(Shares(map, held, r))  BY <1>0 DEF MapInv, LockSum
  <1> QED  BY <1>2, <1>3, <1>4

LEMMA ToRedirectsOnce ==
  ASSUME TableInv
  PROVE  RedirectsOnce
BY MapIs DEF TableInv, AInv, MapInv, Links, RedirectsOnce, Regular

LEMMA ToUniqueIeee ==
  ASSUME TableInv
  PROVE  UniqueIeee
  <1>0. OneHome(map) /\ map \in [Ref -> Entry]  BY MapIs DEF TableInv, AInv, MapInv
  <1> SUFFICES ASSUME NEW p \in Ref, NEW q \in Ref, Regular(p), Regular(q),
                      map[p].ieee # Unknown, map[p].ieee = map[q].ieee
               PROVE  p = q
    BY DEF UniqueIeee
  <1>1. PICK a \in Ieee : map[p].ieee = a  BY <1>0 DEF Entry
  <1>2. Matches(map, p, a) /\ Matches(map, q, a)  BY <1>1 DEF Matches, Regular
  <1>3. Home(map, p) = Home(map, q)  BY <1>0, <1>2 DEF OneHome
  <1> QED  BY <1>3 DEF Home, Regular


\* A held entry, and the one it is redirected to, are locked, so that a step
\* which keeps locked entries keeps what the holder reads.
LEMMA PairKept ==
  ASSUME TableInv, TableInv', KeepsLocked(map, map'),
         NEW r \in Ref, held[r] > 0, held'[r] > 0
  PROVE  Resolved(r)' = Resolved(r)
  <1>0. MapInv(map, held) /\ MapInv(map', held')  BY MapIs DEF TableInv, AInv, Table
  <1>1. held \in [Ref -> Nat]  BY <1>0 DEF MapInv
  <1>2. map'[r].used  BY <1>0 DEF MapInv, HeldUsed
  <1>3. CASE map[r].redirect = "NONE"
    <2>1. map[r].lock > 0  BY <1>0, HeldLocked
    <2>2. Kept(map, map', r)  BY <1>2, <2>1 DEF KeepsLocked
    <2> QED  BY <1>3, <2>2 DEF Kept, Resolved
  <1>4. CASE map[r].redirect # "NONE"
    <2> DEFINE to == map[r].to
    <2>1. map[r].lock > 0 /\ to \in Ref /\ map[to].lock > 0  BY <1>0, <1>4, HeldLocked
    <2>2. Kept(map, map', r)  BY <1>2, <2>1 DEF KeepsLocked
    <2>3. map'[r].redirect # "NONE" /\ map'[r].to = to  BY <1>4, <2>2 DEF Kept
    <2>4. map'[to].used  BY <1>0, <2>3 DEF MapInv, Links
    <2>5. Kept(map, map', to)  BY <2>1, <2>4 DEF KeepsLocked
    <2> QED  BY <1>4, <2>3, <2>5 DEF Kept, Resolved
  <1> QED  BY <1>3, <1>4

-----------------------------------------------------------------------------
(* The theorems.                                                           *)

IInv == ~ tangled => TableInv /\ failure \in {"NONE", "DELETED_TWICE"}

\* What TableInv says of the entries, the array and the locks holds until a
\* redirection gets tangled: every operation keeps it.
THEOREM TableInvariant ==
  ASSUME ~ EvictsByIeee
  PROVE  Spec => []IInv
  <1>1. Init => IInv  BY InitInv DEF IInv, Init
  <1>2. IInv /\ [Next]_vars => IInv'
    <2> SUFFICES ASSUME IInv, [Next]_vars, ~ tangled'
                 PROVE  TableInv' /\ failure' \in {"NONE", "DELETED_TWICE"}
      BY DEF IInv
    <2>1. ~ tangled  BY NextTangled
    <2>2. TableInv /\ failure \in {"NONE", "DELETED_TWICE"}  BY <2>1 DEF IInv
    <2> QED  BY <2>2, NextInv, NextFailure
  <1> QED  BY <1>1, <1>2, PTL DEF Spec

\* The fields of the entries, the array and the clients' locks stay in their
\* types: no lock counter goes below zero.
THEOREM AddrTypeOK ==
  ASSUME ~ EvictsByIeee
  PROVE  Spec => []TypeOK
  <1>1. Init => FlagsOK  BY DEF Init, FlagsOK, Failures
  <1>2. FlagsOK /\ [Next]_vars => FlagsOK'  BY NextFlags
  <1>3. FlagsOK /\ IInv => TypeOK  BY ToTypeOK DEF IInv
  <1> QED  BY <1>1, <1>2, <1>3, TableInvariant, PTL DEF Spec

\* The array refers, once each and in the order of their short addresses, to the
\* entries that have one of their own, whichever operations changed them.
THEOREM ArrayIsSorted ==
  ASSUME ~ EvictsByIeee
  PROVE  Spec => []SortedIndex
  <1>1. IInv => SortedIndex  BY ToSortedIndex DEF IInv, SortedIndex
  <1> QED  BY <1>1, TableInvariant, PTL

\* short_search finds every entry in use by its short address.
THEOREM ShortIsFound ==
  ASSUME ~ EvictsByIeee
  PROVE  Spec => []FoundByShort
  <1>1. IInv => FoundByShort  BY ToFoundByShort DEF IInv, FoundByShort
  <1> QED  BY <1>1, TableInvariant, PTL

\* The lock counter of an entry is the number of the locks held on it and on all
\* the entries redirected to it, and an entry that is held is in use.
THEOREM LocksBalance ==
  ASSUME ~ EvictsByIeee
  PROVE  Spec => []LocksAddUp
  <1>1. IInv => LocksAddUp  BY ToLocksAddUp DEF IInv, LocksAddUp
  <1> QED  BY <1>1, TableInvariant, PTL

\* What a redirection leads to is not deleted, replaced or left unlocked, whatever
\* is done to the entries, as long as zb_address_update does not redirect it.
THEOREM OneHop ==
  ASSUME ~ EvictsByIeee
  PROVE  Spec => []RedirectsOnce
  <1>1. IInv => RedirectsOnce  BY ToRedirectsOnce DEF IInv, RedirectsOnce
  <1> QED  BY <1>1, TableInvariant, PTL

\* A client that unlocks what it has locked meets no assertion about its locks.
THEOREM UnlockIsSafe ==
  ASSUME ~ EvictsByIeee
  PROVE  Spec => []UnlockFindsLock
  <1>1. IInv => UnlockFindsLock  BY DEF IInv, UnlockFindsLock
  <1> QED  BY <1>1, TableInvariant, PTL

\* No long address is in two entries that are not redirections.
THEOREM OneEntryPerDevice ==
  ASSUME ~ EvictsByIeee
  PROVE  Spec => []UniqueIeee
  <1>1. IInv => UniqueIeee  BY ToUniqueIeee DEF IInv, UniqueIeee
  <1> QED  BY <1>1, TableInvariant, PTL

\* Of the operations, zb_address_update alone changes the pair that the holder of a
\* reference reads.
THEOREM PairIsKept ==
  ASSUME ~ EvictsByIeee
  PROVE  Spec => HeldKeepsPair
  <1>1. IInv /\ [Next]_vars /\ IInv' =>
          [\/ tangled
           \/ \A r \in Ref : held[r] > 0 /\ held'[r] > 0 => Resolved(r)' = Resolved(r)
           \/ \E a \in Ieee \cup {Unknown}, s \in Short, lock \in BOOLEAN : Update(a, s, lock)]_vars
    <2> SUFFICES ASSUME IInv, IInv', [Next]_vars, ~ tangled,
                        ~ \E a \in Ieee \cup {Unknown}, s \in Short, lock \in BOOLEAN : Update(a, s, lock),
                        NEW r \in Ref, held[r] > 0, held'[r] > 0
                 PROVE  Resolved(r)' = Resolved(r)
      OBVIOUS
    <2>1. tangled' = tangled  BY NextTangled
    <2>2. TableInv /\ TableInv'  BY <2>1 DEF IInv
    <2>3. KeepsLocked(map, map')  BY <2>1, <2>2, NextInv
    <2> QED  BY <2>2, <2>3, PairKept
  <1> QED  BY <1>1, TableInvariant, PTL DEF Spec, HeldKeepsPair
=============================================================================
