------------------------- MODULE UnifiedInboxProofs -------------------------
(***************************************************************************)
(* The inbox is the newest messages of the mailboxes that answered, in     *)
(* order, for any number of accounts, any mailboxes and any limit.         *)
(*                                                                         *)
(* Three layers: what the concatenation of the pages holds, what a stable  *)
(* sort does to it, and the invariant of the fetches, from which a cut at  *)
(* the limit loses nothing that a longer page would have brought.          *)
(***************************************************************************)
EXTENDS UnifiedInbox, SequenceTheorems, FiniteSetTheorems, FunctionTheorems, TLAPS

----------------------------------------------------------------------------
(* Induction on the naturals, for a set *)

\* A set with 1 that is closed under the step to the next number, up to N, has 1..N.
LEMMA UpTo ==
    ASSUME NEW N \in Nat, NEW S, 1 \in S, \A n \in 1..(N - 1) : n \in S => n + 1 \in S
    PROVE  1..N \subseteq S
<1> DEFINE T == (1..N) \ S
           R == OpToRel(<, Nat)
<1> SUFFICES ASSUME T # {} PROVE FALSE
  OBVIOUS
<1>1. T \subseteq Nat
  OBVIOUS
<1>2. PICK x \in T : \A y \in T : ~ (<<y, x>> \in R)
  <2> HIDE DEF T, R
  <2> QED
    BY <1>1, NatLessThanWellFounded, WFMin, Zenon DEF R
<1>3. \A y \in T : ~ (y < x)
  BY <1>1, <1>2 DEF OpToRel
<1>4. x - 1 \in 1..(N - 1) /\ x - 1 \notin T
  <2>1. x # 1 /\ x \in 1..N
    OBVIOUS
  <2> HIDE DEF T
  <2> QED
    BY <2>1, <1>3
<1>5. (x - 1) + 1 = x
  BY <1>1
<1> QED
  BY <1>4, <1>5

----------------------------------------------------------------------------
(* The concatenation *)

\* What FlattenSeq takes to be the concatenation of the first pages, for each number.
Concatenations(seqs, f) ==
    f = [i \in 1..Len(seqs) |-> IF i = 1 THEN seqs[i] ELSE f[i - 1] \o seqs[i]]

\* The same up to n.
Solves(seqs, n, f) ==
    \A i \in 1..n : f[i] = IF i = 1 THEN seqs[i] ELSE f[i - 1] \o seqs[i]

\* The recursion of FlattenSeq has a solution.
LEMMA ConcatenationsExist ==
    ASSUME NEW T, NEW seqs \in Seq(Seq(T)), Len(seqs) # 0
    PROVE  \E f : Concatenations(seqs, f) /\ f \in [1..Len(seqs) -> Seq(T)]
<1> DEFINE N == Len(seqs)
           S == {n \in 1..N : \E f \in [1..n -> Seq(T)] : Solves(seqs, n, f)}
<1>1. N \in Nat \ {0} /\ \A i \in 1..N : seqs[i] \in Seq(T)
  OBVIOUS
<1> HIDE DEF N
<1>2. 1 \in S
  <2> DEFINE g == [i \in 1..1 |-> seqs[1]]
  <2>1. g \in [1..1 -> Seq(T)] /\ Solves(seqs, 1, g)
    BY <1>1 DEF Solves
  <2> QED
    BY <1>1, <2>1
<1>3. ASSUME NEW n \in 1..(N - 1), n \in S PROVE n + 1 \in S
  <2>1. PICK g \in [1..n -> Seq(T)] : Solves(seqs, n, g)
    BY <1>3
  <2> DEFINE h == [i \in 1..(n + 1) |-> IF i = n + 1 THEN g[n] \o seqs[n + 1] ELSE g[i]]
  <2>2. n \in Nat \ {0} /\ n \in 1..n /\ n + 1 \in 1..N
    BY <1>1
  <2>3. g[n] \o seqs[n + 1] \in Seq(T)
    BY <1>1, <2>2, ConcatProperties
  <2>4. h \in [1..(n + 1) -> Seq(T)]
    BY <2>2, <2>3
  <2>5. \A i \in 1..n : h[i] = g[i]
    BY <2>2
  <2>6. h[n + 1] = h[n] \o seqs[n + 1]
    <3>1. n + 1 \in 1..(n + 1) /\ h[n] = g[n]
      BY <2>2, <2>5
    <3>2. h[n + 1] = g[n] \o seqs[n + 1]
      BY <3>1, Zenon
    <3> QED
      BY <3>1, <3>2, Zenon
  <2> HIDE DEF h
  <2>7. ASSUME NEW i \in 1..(n + 1)
        PROVE  h[i] = IF i = 1 THEN seqs[i] ELSE h[i - 1] \o seqs[i]
    <3>1. CASE i = n + 1
      <4>1. i - 1 = n /\ i # 1
        BY <2>2, <3>1
      <4> QED
        BY <2>6, <3>1, <4>1, Zenon
    <3>2. CASE i # n + 1
      <4>1. i \in 1..n /\ (i # 1 => i - 1 \in 1..n)
        BY <2>2, <3>2
      <4> QED
        BY <2>1, <2>5, <4>1 DEF Solves
    <3> QED
      BY <3>1, <3>2
  <2> QED
    BY <2>2, <2>4, <2>7 DEF Solves
<1>4. N \in S
  <2> HIDE DEF S
  <2>1. \A n \in 1..(N - 1) : n \in S => n + 1 \in S
    BY <1>3
  <2>2. 1..N \subseteq S
    BY <1>1, <1>2, <2>1, UpTo
  <2> QED
    BY <1>1, <2>2
<1>5. PICK f \in [1..N -> Seq(T)] : Solves(seqs, N, f)
  BY <1>4
<1>6. f = [i \in 1..N |-> IF i = 1 THEN seqs[i] ELSE f[i - 1] \o seqs[i]]
  BY <1>5 DEF Solves
<1> QED
  BY <1>5, <1>6 DEF Concatenations, N

\* So it satisfies its recursion.
LEMMA FlattenSeqDef ==
    ASSUME NEW T, NEW seqs \in Seq(Seq(T))
    PROVE  IF Len(seqs) = 0 THEN FlattenSeq(seqs) = <<>>
           ELSE \E f : Concatenations(seqs, f) /\ FlattenSeq(seqs) = f[Len(seqs)]
<1>1. CASE Len(seqs) = 0
  BY <1>1 DEF FlattenSeq
<1>2. CASE Len(seqs) # 0
  <2> DEFINE c == CHOOSE f : Concatenations(seqs, f)
  <2>1. Concatenations(seqs, c)
    <3> HIDE DEF Concatenations
    <3> QED
      BY <1>2, ConcatenationsExist, Zenon
  <2>2. FlattenSeq(seqs) = c[Len(seqs)]
    BY <1>2, Zenon DEF FlattenSeq, Concatenations
  <2> QED
    BY <1>2, <2>1, <2>2
<1> QED
  BY <1>1, <1>2

\* a stands before b when the pages are put one after the other.
Earlier(a, b) == a.account < b.account \/ (a.account = b.account /\ a.nth < b.nth)

\* s holds what the pages F of the first n accounts hold, in the order of the accounts.
Lists(s, F, n) ==
    /\ s \in Seq(Message)
    /\ \A p \in DOMAIN s :
           /\ s[p].account \in 1..n
           /\ s[p].nth \in DOMAIN F[s[p].account]
           /\ s[p].date = F[s[p].account][s[p].nth]
    /\ \A i \in 1..n : \A k \in DOMAIN F[i] :
           \E p \in DOMAIN s : s[p] = [account |-> i, nth |-> k, date |-> F[i][k]]
    /\ \A p, q \in DOMAIN s : p < q => Earlier(s[p], s[q])

\* One page.
LEMMA OwnedPage ==
    ASSUME NEW i \in Accounts, NEW box \in Seq(Dates)
    PROVE  /\ Owned(i, box) \in Seq(Message)
           /\ Len(Owned(i, box)) = Len(box)
           /\ \A k \in 1..Len(box) : Owned(i, box)[k] = [account |-> i, nth |-> k, date |-> box[k]]
<1>1. DOMAIN box = 1..Len(box) /\ Len(box) \in Nat /\ \A k \in 1..Len(box) : box[k] \in Dates
  OBVIOUS
<1>2. Owned(i, box) \in [1..Len(box) -> Message]
  BY <1>1 DEF Owned, Message
<1> QED
  BY <1>1, <1>2 DEF Owned

\* One page more.
LEMMA ListsOneMore ==
    ASSUME NEW F \in [Accounts -> Seq(Dates)], NEW n \in Nat, n + 1 \in Accounts,
           NEW s, Lists(s, F, n)
    PROVE  Lists(s \o Owned(n + 1, F[n + 1]), F, n + 1)
<1> DEFINE t == Owned(n + 1, F[n + 1])
           u == s \o t
           a == Len(s)
           b == Len(F[n + 1])
<1>1. F[n + 1] \in Seq(Dates) /\ DOMAIN F[n + 1] = 1..b /\ b \in Nat
  OBVIOUS
<1>2. /\ t \in Seq(Message) /\ Len(t) = b
      /\ \A k \in 1..b : t[k] = [account |-> n + 1, nth |-> k, date |-> F[n + 1][k]]
  BY <1>1, OwnedPage
<1>3. s \in Seq(Message) /\ DOMAIN s = 1..a /\ a \in Nat
  BY DEF Lists
<1>4. /\ u \in Seq(Message) /\ Len(u) = a + b /\ DOMAIN u = 1..(a + b)
      /\ \A p \in 1..(a + b) : u[p] = IF p <= a THEN s[p] ELSE t[p - a]
  <2>1. t \in Seq(Message) /\ s \in Seq(Message) /\ Len(t) = b /\ Len(s) = a
    BY <1>2, <1>3
  <2> HIDE DEF t, a, b
  <2>2. /\ u \in Seq(Message) /\ Len(u) = a + b
        /\ \A p \in 1..(a + b) : u[p] = IF p <= a THEN s[p] ELSE t[p - a]
    BY <2>1, ConcatProperties
  <2>3. DOMAIN u = 1..(a + b)
    <3> HIDE DEF u
    <3> QED
      BY <2>2, LenProperties
  <2> QED
    BY <2>2, <2>3
<1>5. \A p \in 1..a : p \in DOMAIN u /\ u[p] = s[p]
  BY <1>1, <1>3, <1>4
<1>6. ASSUME NEW k \in 1..b
      PROVE  a + k \in DOMAIN u /\ u[a + k] = [account |-> n + 1, nth |-> k, date |-> F[n + 1][k]]
  <2>1. a + k \in 1..(a + b) /\ ~ (a + k <= a) /\ (a + k) - a = k
    BY <1>1, <1>3
  <2> HIDE DEF u, t, a, b
  <2> QED
    BY <1>2, <1>4, <2>1
<1>7. ASSUME NEW p \in DOMAIN u PROVE p \in 1..a \/ \E k \in 1..b : p = a + k
  <2>1. p \in 1..a \/ (p - a \in 1..b /\ p = a + (p - a))
    BY <1>1, <1>3, <1>4
  <2> QED
    BY <2>1
<1> HIDE DEF t, u, a, b
<1>8. ASSUME NEW p \in DOMAIN u
      PROVE  /\ u[p].account \in 1..(n + 1)
             /\ u[p].nth \in DOMAIN F[u[p].account]
             /\ u[p].date = F[u[p].account][u[p].nth]
  <2>1. CASE p \in 1..a
    BY <1>3, <1>5, <2>1 DEF Lists
  <2>2. ASSUME NEW k \in 1..b, p = a + k PROVE <1>8!2
    <3>1. u[p] = [account |-> n + 1, nth |-> k, date |-> F[n + 1][k]]
      BY <1>6, <2>2
    <3> QED
      BY <1>1, <3>1
  <2> QED
    BY <1>7, <2>1, <2>2
<1>9. ASSUME NEW i \in 1..(n + 1), NEW k \in DOMAIN F[i]
      PROVE  \E p \in DOMAIN u : u[p] = [account |-> i, nth |-> k, date |-> F[i][k]]
  <2>1. CASE i = n + 1
    BY <1>1, <1>6, <2>1
  <2>2. CASE i # n + 1
    <3>1. i \in 1..n
      BY <2>2
    <3>2. PICK p \in DOMAIN s : s[p] = [account |-> i, nth |-> k, date |-> F[i][k]]
      BY <3>1 DEF Lists
    <3> QED
      BY <1>3, <1>5, <3>2
  <2> QED
    BY <2>1, <2>2
<1>10. ASSUME NEW p \in DOMAIN u, NEW q \in DOMAIN u, p < q PROVE Earlier(u[p], u[q])
  <2>1. CASE p \in 1..a /\ q \in 1..a
    BY <1>3, <1>5, <1>10, <2>1 DEF Lists
  <2>2. ASSUME p \in 1..a, NEW k \in 1..b, q = a + k PROVE Earlier(u[p], u[q])
    <3>0. u[q] = [account |-> n + 1, nth |-> k, date |-> F[n + 1][k]]
      BY <1>6, <2>2
    <3>1. u[q].account = n + 1
      BY <3>0
    <3>2. u[p].account \in 1..n
      BY <1>3, <1>5, <2>2 DEF Lists
    <3> QED
      BY <3>1, <3>2 DEF Earlier
  <2>3. ASSUME NEW j \in 1..b, NEW k \in 1..b, p = a + j, q = a + k PROVE Earlier(u[p], u[q])
    <3>1. j < k
      BY <1>1, <1>3, <1>10, <2>3
    <3>2. /\ u[p] = [account |-> n + 1, nth |-> j, date |-> F[n + 1][j]]
          /\ u[q] = [account |-> n + 1, nth |-> k, date |-> F[n + 1][k]]
      BY <1>6, <2>3
    <3>3. /\ u[p].account = n + 1 /\ u[p].nth = j
          /\ u[q].account = n + 1 /\ u[q].nth = k
      BY <3>2
    <3> QED
      BY <3>1, <3>3 DEF Earlier
  <2>4. ASSUME NEW j \in 1..b, p = a + j, q \in 1..a PROVE FALSE
    BY <1>1, <1>3, <1>10, <2>4
  <2> QED
    BY <1>7, <2>1, <2>2, <2>3, <2>4
<1> QED
  BY <1>4, <1>8, <1>9, <1>10 DEF Lists, t, u

\* All pages.
LEMMA Concatenation ==
    ASSUME NEW F \in [Accounts -> Seq(Dates)]
    PROVE  Lists(FlattenSeq([i \in Accounts |-> Owned(i, F[i])]), F, NumAccounts)
<1> DEFINE pages == [i \in Accounts |-> Owned(i, F[i])]
           N == NumAccounts
<1>1. N \in Nat /\ Accounts = 1..N /\ \A i \in 1..N : F[i] \in Seq(Dates)
  BY Limits DEF Accounts
<1>2. \A i \in 1..N : pages[i] = Owned(i, F[i]) /\ pages[i] \in Seq(Message)
  BY <1>1, OwnedPage
<1>3. pages \in [1..N -> Seq(Message)]
  BY <1>1, <1>2
<1> HIDE DEF pages
<1>4. pages \in Seq(Seq(Message)) /\ Len(pages) = N
  BY <1>1, <1>3
<1>5. CASE N = 0
  <2>1. FlattenSeq(pages) = <<>>
    BY <1>4, <1>5, FlattenSeqDef
  <2>2. Lists(<<>>, F, 0)
    BY DEF Lists
  <2> QED
    BY <1>5, <2>1, <2>2 DEF pages
<1>6. CASE N # 0
  <2>1. PICK f : Concatenations(pages, f) /\ FlattenSeq(pages) = f[N]
    BY <1>4, <1>6, FlattenSeqDef
  <2>2. \A i \in 1..N : f[i] = IF i = 1 THEN pages[i] ELSE f[i - 1] \o pages[i]
    BY <1>4, <2>1 DEF Concatenations
  <2> DEFINE S == {n \in 1..N : Lists(f[n], F, n)}
  <2>3. 1 \in S
    <3>1. Lists(<<>>, F, 0)
      BY DEF Lists
    <3>2. 0 + 1 = 1 /\ 1 \in 1..N
      BY <1>1, <1>6
    <3>3. Lists(<<>> \o Owned(0 + 1, F[0 + 1]), F, 0 + 1)
      BY <1>1, <3>1, <3>2, ListsOneMore
    <3>4. f[1] = Owned(1, F[1]) /\ Owned(1, F[1]) \in Seq(Message)
      BY <1>2, <2>2, <3>2
    <3>5. <<>> \o Owned(1, F[1]) = Owned(1, F[1])
      BY <3>4, ConcatEmptySeq
    <3> QED
      BY <3>2, <3>3, <3>4, <3>5
  <2>4. ASSUME NEW n \in 1..(N - 1), n \in S PROVE n + 1 \in S
    <3>1. n + 1 \in 1..N /\ n + 1 # 1 /\ (n + 1) - 1 = n /\ n \in Nat
      BY <1>1
    <3>2. f[n + 1] = f[n] \o Owned(n + 1, F[n + 1])
      BY <1>2, <2>2, <3>1
    <3>3. Lists(f[n + 1], F, n + 1)
      BY <1>1, <2>4, <3>1, <3>2, ListsOneMore
    <3> QED
      BY <3>1, <3>3
  <2>5. N \in S
    <3> HIDE DEF S
    <3>1. \A n \in 1..(N - 1) : n \in S => n + 1 \in S
      BY <2>4
    <3>2. 1..N \subseteq S
      BY <1>1, <2>3, <3>1, UpTo
    <3> QED
      BY <1>1, <1>6, <3>2
  <2> QED
    BY <2>1, <2>5 DEF pages
<1> QED
  BY <1>5, <1>6

----------------------------------------------------------------------------
(* The stable sort *)

\* How many numbers there are up to n.
LEMMA Numbers ==
    ASSUME NEW n \in Nat
    PROVE  IsFiniteSet(1..n) /\ Cardinality(1..n) = n
BY FS_Interval

\* The element at i comes out before the one at j.
Precedes(s, i, j) == s[i].date > s[j].date \/ (s[i].date = s[j].date /\ i < j)

\* A sorted s takes its k-th element from place g[k].
Sorts(s, g) ==
    /\ g \in [1..Len(s) -> 1..Len(s)]
    /\ \A i \in 1..Len(s) : \E k \in 1..Len(s) : g[k] = i
    /\ \A k, l \in 1..Len(s) : k < l => Precedes(s, g[k], g[l])

\* The rank of an element counts those that come out no later.
LEMMA RankGrows ==
    ASSUME NEW s \in Seq(Message), NEW i \in 1..Len(s)
    PROVE  /\ Rank(s, i) \in 1..Len(s)
           /\ \A j \in 1..Len(s) : Precedes(s, i, j) => Rank(s, i) < Rank(s, j)
<1> DEFINE Down(j) == {k \in 1..Len(s) : k = j \/ Precedes(s, k, j)}
<1>1. DOMAIN s = 1..Len(s) /\ Len(s) \in Nat /\ \A k \in 1..Len(s) : s[k].date \in Int
  <2>1. \A k \in 1..Len(s) : s[k] \in Message
    OBVIOUS
  <2> QED
    BY <2>1, Limits DEF Message, Dates
<1>2. ASSUME NEW j \in 1..Len(s) PROVE Rank(s, j) = Cardinality(Down(j))
  <2>1. ASSUME NEW k \in 1..Len(s)
        PROVE  (\/ SortsBefore(s[k].date, s[j].date)
                \/ ~SortsBefore(s[j].date, s[k].date) /\ k <= j)
               <=> (k = j \/ Precedes(s, k, j))
    BY <1>1 DEF SortsBefore, Precedes
  <2> QED
    BY <1>1, <2>1 DEF Rank
<1>3. IsFiniteSet(1..Len(s)) /\ Cardinality(1..Len(s)) = Len(s)
  BY <1>1, Numbers
<1>4. ASSUME NEW j \in 1..Len(s)
      PROVE  /\ IsFiniteSet(Down(j)) /\ Cardinality(Down(j)) \in 1..Len(s)
  <2>1. Down(j) \subseteq 1..Len(s) /\ Down(j) # {}
    OBVIOUS
  <2> HIDE DEF Down
  <2>2. IsFiniteSet(Down(j)) /\ Cardinality(Down(j)) <= Len(s)
    BY <1>3, <2>1, FS_Subset
  <2>3. Cardinality(Down(j)) \in Nat /\ Cardinality(Down(j)) # 0
    BY <2>1, <2>2, FS_CardinalityType, FS_EmptySet
  <2> QED
    BY <1>1, <2>2, <2>3
<1>5. ASSUME NEW j \in 1..Len(s), Precedes(s, i, j) PROVE Rank(s, i) < Rank(s, j)
  <2>1. Down(i) \subseteq Down(j) /\ j \in Down(j) /\ j \notin Down(i)
    BY <1>1, <1>5 DEF Precedes
  <2> HIDE DEF Down
  <2>2. /\ Cardinality(Down(i)) <= Cardinality(Down(j))
        /\ Cardinality(Down(i)) # Cardinality(Down(j))
    BY <1>4, <2>1, FS_Subset
  <2>3. Cardinality(Down(i)) \in Int /\ Cardinality(Down(j)) \in Int
    BY <1>4
  <2> QED
    BY <1>2, <2>2, <2>3
<1> HIDE DEF Down
<1> QED
  BY <1>2, <1>4, <1>5

\* What Sorted(s) is: the elements of s, each once, in the order of Precedes.
LEMMA SortedSorts ==
    ASSUME NEW s \in Seq(Message)
    PROVE  \E g : Sorts(s, g) /\ Sorted(s) = [k \in 1..Len(s) |-> s[g[k]]]
<1> DEFINE L == Len(s)
           r == [i \in 1..L |-> Rank(s, i)]
           g == [k \in 1..L |-> CHOOSE i \in 1..L : Rank(s, i) = k]
<1>1. DOMAIN s = 1..L /\ L \in Nat /\ \A k \in 1..L : s[k].date \in Int
  <2>1. \A k \in 1..L : s[k] \in Message
    OBVIOUS
  <2> QED
    BY <2>1, Limits DEF Message, Dates
<1> HIDE DEF L
<1>2. /\ \A i \in 1..L : Rank(s, i) \in 1..L
      /\ \A i, j \in 1..L : Precedes(s, i, j) => Rank(s, i) < Rank(s, j)
  BY RankGrows DEF L
<1>3. \A i, j \in 1..L : i = j \/ Precedes(s, i, j) \/ Precedes(s, j, i)
  BY <1>1 DEF Precedes
<1>4. \A i, j \in 1..L : Rank(s, i) = Rank(s, j) => i = j
  BY <1>2, <1>3
<1>5. r \in Injection(1..L, 1..L)
  <2>1. r \in [1..L -> 1..L] /\ \A i, j \in 1..L : r[i] = r[j] => i = j
    BY <1>2, <1>4
  <2> HIDE DEF r
  <2> QED
    BY <2>1, Fun_IsInj
<1>6. \A k \in 1..L : \E i \in 1..L : Rank(s, i) = k
  <2>1. IsFiniteSet(1..L)
    BY <1>1, Numbers
  <2>2. r \in Surjection(1..L, 1..L)
    <3> HIDE DEF r
    <3> QED
      BY <1>5, <2>1, FS_Injection
  <2>3. \A k \in 1..L : \E i \in 1..L : r[i] = k
    <3> HIDE DEF r
    <3> QED
      BY <2>2, Fun_SurjectionProperties
  <2> QED
    BY <2>3
<1>7. \A k \in 1..L : g[k] \in 1..L /\ Rank(s, g[k]) = k
  BY <1>6
<1>8. g \in [1..L -> 1..L]
  BY <1>7
<1>9. Sorted(s) = [k \in 1..L |-> s[g[k]]]
  BY <1>1 DEF Sorted
<1> HIDE DEF g
<1>10. \A i \in 1..L : \E k \in 1..L : g[k] = i
  BY <1>2, <1>4, <1>7
<1>11. \A k, l \in 1..L : k < l => Precedes(s, g[k], g[l])
  <2> SUFFICES ASSUME NEW k \in 1..L, NEW l \in 1..L, k < l PROVE Precedes(s, g[k], g[l])
    OBVIOUS
  <2>1. g[k] \in 1..L /\ Rank(s, g[k]) = k /\ g[l] \in 1..L /\ Rank(s, g[l]) = l
    BY <1>7
  <2>2. g[k] # g[l]
    BY <1>1, <2>1
  <2>3. ~Precedes(s, g[l], g[k])
    <3>1. ~(Rank(s, g[l]) < Rank(s, g[k]))
      BY <1>1, <2>1
    <3> QED
      BY <1>2, <2>1, <3>1
  <2> QED
    BY <1>3, <2>1, <2>2, <2>3
<1> QED
  BY <1>8, <1>9, <1>10, <1>11 DEF Sorts, L

----------------------------------------------------------------------------
(* The merge of the pages *)

\* m stands before n in an answer.
Newer(m, n) == m.date > n.date \/ (m.date = n.date /\ Earlier(m, n))

\* z holds what the pages F hold, in the order of an answer.
Ranks(z, F) ==
    /\ z \in Seq(Message)
    /\ \A p \in 1..Len(z) :
           /\ z[p].nth \in DOMAIN F[z[p].account]
           /\ z[p].date = F[z[p].account][z[p].nth]
    /\ \A i \in Accounts : \A k \in DOMAIN F[i] :
           \E p \in 1..Len(z) : z[p] = [account |-> i, nth |-> k, date |-> F[i][k]]
    /\ \A p, q \in 1..Len(z) : p < q => Newer(z[p], z[q])

\* Sorting the concatenation of the pages ranks them.
LEMMA SortedRanks ==
    ASSUME NEW F, NEW s, Lists(s, F, NumAccounts)
    PROVE  Ranks(Sorted(s), F)
<1> DEFINE L == Len(s)
           z == Sorted(s)
<1>1. s \in Seq(Message) /\ DOMAIN s = 1..L /\ L \in Nat /\ \A p \in 1..L : s[p] \in Message
  BY DEF Lists
<1>2. PICK g : Sorts(s, g) /\ z = [k \in 1..L |-> s[g[k]]]
  BY <1>1, SortedSorts
<1> HIDE DEF L, z
<1>3. /\ g \in [1..L -> 1..L] /\ \A i \in 1..L : \E k \in 1..L : g[k] = i
      /\ \A k, l \in 1..L : k < l => Precedes(s, g[k], g[l])
  BY <1>2 DEF Sorts, L
<1>4. z \in [1..L -> Message] /\ \A k \in 1..L : z[k] = s[g[k]] /\ g[k] \in 1..L
  BY <1>1, <1>2, <1>3
<1>5. z \in Seq(Message) /\ Len(z) = L
  BY <1>1, <1>4
<1>6. \A p \in 1..L : /\ z[p].nth \in DOMAIN F[z[p].account]
                      /\ z[p].date = F[z[p].account][z[p].nth]
  BY <1>1, <1>4 DEF Lists
<1>7. ASSUME NEW i \in Accounts, NEW k \in DOMAIN F[i]
      PROVE  \E p \in 1..L : z[p] = [account |-> i, nth |-> k, date |-> F[i][k]]
  <2>1. PICK q \in 1..L : s[q] = [account |-> i, nth |-> k, date |-> F[i][k]]
    BY <1>1 DEF Lists, Accounts
  <2>2. PICK p \in 1..L : g[p] = q
    BY <1>3
  <2>3. z[p] = s[q]
    BY <1>4, <2>2
  <2> QED
    BY <2>1, <2>3
<1>8. ASSUME NEW p \in 1..L, NEW q \in 1..L, p < q PROVE Newer(z[p], z[q])
  <2>1. Precedes(s, g[p], g[q]) /\ z[p] = s[g[p]] /\ z[q] = s[g[q]]
    BY <1>3, <1>4, <1>8
  <2>2. g[p] < g[q] => Earlier(s[g[p]], s[g[q]])
    BY <1>1, <1>4 DEF Lists
  <2> QED
    BY <2>1, <2>2 DEF Precedes, Newer
<1> QED
  BY <1>5, <1>6, <1>7, <1>8 DEF Ranks, z

\* No message stands in two places of an answer.
LEMMA RanksOnce ==
    ASSUME NEW z \in Seq(Message), \A p, q \in 1..Len(z) : p < q => Newer(z[p], z[q])
    PROVE  /\ \A p, q \in 1..Len(z) : z[p] = z[q] => p = q
           /\ IsFiniteSet(Range(z)) /\ Cardinality(Range(z)) = Len(z)
<1> DEFINE L == Len(z)
<1>1. DOMAIN z = 1..L /\ L \in Nat /\ z \in [1..L -> Message]
  OBVIOUS
<1>2. \A m \in Message : ~Newer(m, m)
  BY Limits DEF Newer, Earlier, Message, Dates, Accounts
<1>3. \A p, q \in 1..L : z[p] = z[q] => p = q
  <2> SUFFICES ASSUME NEW p \in 1..L, NEW q \in 1..L, z[p] = z[q], p # q PROVE FALSE
    OBVIOUS
  <2>1. z[p] \in Message /\ (p < q \/ q < p)
    BY <1>1
  <2> QED
    BY <1>2, <2>1
<1>4. z \in Bijection(1..L, Range(z))
  <2> HIDE DEF L
  <2>1. z \in Injection(1..L, Message)
    BY <1>1, <1>3, Fun_IsInj
  <2> QED
    BY <2>1, Fun_InjMeansBijImage
<1>5. ExistsBijection(1..L, Range(z))
  BY <1>4, Fun_ExistsBij
<1>6. IsFiniteSet(Range(z)) /\ Cardinality(Range(z)) = L
  <2> HIDE DEF L
  <2> QED
    BY <1>1, <1>5, FS_NatBijection, FS_CountingElements
<1> QED
  BY <1>3, <1>6

\* Vec::truncate keeps the first elements.
LEMMA TruncateKeeps ==
    ASSUME NEW T, NEW s \in Seq(T), NEW n \in Nat
    PROVE  /\ Truncate(s, n) \in Seq(T)
           /\ Len(Truncate(s, n)) = Smaller(n, Len(s))
           /\ \A k \in 1..Smaller(n, Len(s)) : Truncate(s, n)[k] = s[k]
<1> DEFINE m == Smaller(n, Len(s))
<1>1. m \in 0..Len(s) /\ Len(s) \in Nat /\ \A k \in 1..Len(s) : s[k] \in T
  BY DEF Smaller
<1> HIDE DEF m
<1>2. \A k \in 1..m : s[k] \in T
  BY <1>1
<1>3. /\ SubSeq(s, 1, m) \in Seq(T)
      /\ Len(SubSeq(s, 1, m)) = IF 1 <= m THEN m - 1 + 1 ELSE 0
      /\ \A k \in 1..(m - 1 + 1) : SubSeq(s, 1, m)[k] = s[1 + k - 1]
  BY <1>1, <1>2, SubSeqProperties
<1>4. m - 1 + 1 = m /\ Len(SubSeq(s, 1, m)) = m /\ \A k \in 1..m : 1 + k - 1 = k
  BY <1>1, <1>3
<1> QED
  BY <1>3, <1>4 DEF Truncate, m

----------------------------------------------------------------------------
(* The fetches *)

\* A page is the first messages of the mailbox it was read from; an account that
\* failed, or has not answered, has offered nothing.
Answers ==
    \A i \in Accounts :
        \/ seen[i] \in Mailboxes /\ fetched[i] = Truncate(seen[i], limit)
        \/ seen[i] = None /\ fetched[i] \in {None, <<>>}

\* The k-th message of account i.
MessageOf(i, k, d) == [account |-> i, nth |-> k, date |-> d]

\* What a mailbox is.
LEMMA MailboxTypes ==
    /\ None \notin Mailboxes /\ <<>> \in Mailboxes /\ None # <<>>
    /\ \A box \in Mailboxes :
           /\ box \in Seq(Dates) /\ DOMAIN box = 1..Len(box) /\ Len(box) \in 0..MaxMail
           /\ \A i, j \in 1..Len(box) : i < j => box[i] >= box[j]
<1>1. MaxMail \in Nat /\ Dates \subseteq Nat
  BY Limits DEF Dates
<1>2. ASSUME NEW box \in Mailboxes
      PROVE  \E n \in 0..MaxMail : box \in [1..n -> Dates]
  BY DEF Mailboxes
<1>3. ASSUME NEW box \in Mailboxes
      PROVE  /\ box \in Seq(Dates) /\ DOMAIN box = 1..Len(box) /\ Len(box) \in 0..MaxMail
             /\ \A i, j \in 1..Len(box) : i < j => box[i] >= box[j]
  <2>1. PICK n \in 0..MaxMail : box \in [1..n -> Dates]
    BY <1>2
  <2>2. n \in Nat /\ DOMAIN box = 1..n
    BY <1>1, <2>1
  <2>3. box \in Seq(Dates) /\ Len(box) = n
    BY <2>1, <2>2
  <2> QED
    BY <2>1, <2>2, <2>3 DEF Mailboxes
<1>4. <<>> \in Mailboxes
  <2>1. <<>> \in [1..0 -> Dates] /\ 0 \in 0..MaxMail
    BY <1>1
  <2> QED
    BY <2>1 DEF Mailboxes
<1>5. None \notin Mailboxes
  <2> SUFFICES ASSUME None \in Mailboxes PROVE FALSE
    OBVIOUS
  <2>1. PICK n \in 0..MaxMail : None \in [1..n -> Dates]
    BY <1>2
  <2>2. None \in [1..n -> Nat]
    BY <1>1, <2>1
  <2> QED
    BY <2>1, <2>2, Limits
<1> QED
  BY <1>3, <1>4, <1>5

\* A page of a mailbox is one itself.
LEMMA PageOfMailbox ==
    ASSUME NEW box \in Mailboxes, NEW n \in Nat
    PROVE  /\ Truncate(box, n) \in Mailboxes
           /\ Len(Truncate(box, n)) = Smaller(n, Len(box))
           /\ \A k \in 1..Smaller(n, Len(box)) : Truncate(box, n)[k] = box[k]
<1> DEFINE t == Truncate(box, n)
           m == Smaller(n, Len(box))
<1>1. /\ box \in Seq(Dates) /\ Len(box) \in 0..MaxMail
      /\ \A i, j \in 1..Len(box) : i < j => box[i] >= box[j]
  BY MailboxTypes
<1>2. t \in Seq(Dates) /\ Len(t) = m /\ \A k \in 1..m : t[k] = box[k]
  BY <1>1, TruncateKeeps
<1>3. m \in 0..Len(box) /\ m \in 0..MaxMail
  BY <1>1, Limits DEF Smaller
<1> HIDE DEF t, m
<1>4. t \in [1..m -> Dates] /\ DOMAIN t = 1..m
  BY <1>2
<1>5. \A i, j \in 1..m : i < j => t[i] >= t[j]
  <2> SUFFICES ASSUME NEW i \in 1..m, NEW j \in 1..m, i < j PROVE t[i] >= t[j]
    OBVIOUS
  <2>1. i \in 1..Len(box) /\ j \in 1..Len(box)
    BY <1>1, <1>3
  <2> QED
    BY <1>1, <1>2, <2>1
<1>6. t \in Mailboxes
  BY <1>3, <1>4, <1>5 DEF Mailboxes
<1> QED
  BY <1>2, <1>6 DEF t, m

\* What has been offered.
LEMMA OfferedMessages ==
    ASSUME TypeOK
    PROVE  /\ \A i \in Accounts : seen[i] # None =>
                  \A k \in 1..Len(seen[i]) : MessageOf(i, k, seen[i][k]) \in Offered
           /\ \A m \in Offered :
                  /\ m.account \in Accounts /\ seen[m.account] \in Mailboxes
                  /\ m.nth \in 1..Len(seen[m.account])
                  /\ m = MessageOf(m.account, m.nth, seen[m.account][m.nth])
           /\ IsFiniteSet(Offered)
<1>1. /\ \A i \in Accounts : seen[i] # None => seen[i] \in Mailboxes
      /\ \A box \in Mailboxes : box \in Seq(Dates) /\ DOMAIN box = 1..Len(box) /\ Len(box) \in 0..MaxMail
  BY MailboxTypes DEF TypeOK
<1>2. ASSUME NEW i \in Accounts, seen[i] # None
      PROVE  Range(Owned(i, seen[i])) = {MessageOf(i, k, seen[i][k]) : k \in 1..Len(seen[i])}
  <2>1. DOMAIN seen[i] = 1..Len(seen[i])
    BY <1>1, <1>2
  <2> QED
    BY <2>1 DEF Range, Owned, MessageOf
<1>3. ASSUME NEW i \in Accounts, seen[i] # None, NEW k \in 1..Len(seen[i])
      PROVE  MessageOf(i, k, seen[i][k]) \in Offered
  BY <1>2, <1>3, Zenon DEF Offered
<1>4. ASSUME NEW m \in Offered
      PROVE  /\ m.account \in Accounts /\ seen[m.account] \in Mailboxes
             /\ m.nth \in 1..Len(seen[m.account])
             /\ m = MessageOf(m.account, m.nth, seen[m.account][m.nth])
  <2>1. PICK i \in Accounts : seen[i] # None /\ m \in Range(Owned(i, seen[i]))
    BY Zenon DEF Offered
  <2>2. PICK k \in 1..Len(seen[i]) : m = MessageOf(i, k, seen[i][k])
    BY <1>2, <2>1, Zenon
  <2>3. m.account = i /\ m.nth = k
    BY <2>2 DEF MessageOf
  <2> QED
    BY <1>1, <2>1, <2>2, <2>3, Zenon
<1>5. IsFiniteSet(Offered)
  <2> DEFINE places == Accounts \X (1..MaxMail)
             h == [m \in Offered |-> <<m.account, m.nth>>]
  <2>1. IsFiniteSet(places)
    <3>1. IsFiniteSet(Accounts) /\ IsFiniteSet(1..MaxMail)
      BY Limits, Numbers DEF Accounts
    <3> QED
      BY <3>1, FS_Product
  <2>2. ASSUME NEW m \in Offered PROVE <<m.account, m.nth>> \in places
    <3>1. m.account \in Accounts /\ m.nth \in 1..Len(seen[m.account]) /\ Len(seen[m.account]) \in 0..MaxMail
      BY <1>1, <1>4
    <3>2. m.nth \in 1..MaxMail
      BY <3>1, Limits
    <3> QED
      BY <3>1, <3>2
  <2>3. ASSUME NEW m \in Offered, NEW n \in Offered, <<m.account, m.nth>> = <<n.account, n.nth>>
        PROVE  m = n
    <3>1. m.account = n.account /\ m.nth = n.nth
      BY <2>3
    <3> QED
      BY <1>4, <3>1, Zenon
  <2>4. h \in Injection(Offered, places)
    <3>1. h \in [Offered -> places] /\ \A m, n \in Offered : h[m] = h[n] => m = n
      BY <2>2, <2>3
    <3> HIDE DEF h, places
    <3> QED
      BY <3>1, Fun_IsInj
  <2> HIDE DEF h, places
  <2> QED
    BY <2>1, <2>4, FS_Injection
<1> QED
  BY <1>3, <1>4, <1>5

\* What an account that answered has sent.
LEMMA AnsweredPage ==
    ASSUME TypeOK, Answers, NEW i \in Accounts, seen[i] # None
    PROVE  /\ seen[i] \in Mailboxes /\ fetched[i] \in Mailboxes /\ Len(seen[i]) \in Nat
           /\ DOMAIN fetched[i] = 1..Smaller(limit, Len(seen[i]))
           /\ \A k \in 1..Smaller(limit, Len(seen[i])) : fetched[i][k] = seen[i][k]
<1> DEFINE t == Truncate(seen[i], limit)
<1>1. seen[i] \in Mailboxes /\ fetched[i] = t /\ limit \in Nat
  BY Limits DEF TypeOK, Answers
<1>2. /\ t \in Mailboxes /\ Len(t) = Smaller(limit, Len(seen[i]))
      /\ \A k \in 1..Smaller(limit, Len(seen[i])) : t[k] = seen[i][k]
  BY <1>1, PageOfMailbox
<1>3. DOMAIN t = 1..Len(t) /\ Len(seen[i]) \in Nat
  BY <1>1, <1>2, MailboxTypes
<1> HIDE DEF t
<1> QED
  BY <1>1, <1>2, <1>3

----------------------------------------------------------------------------
(* The cut *)

\* An account that holds more than a page fills the answer: there are limit messages
\* at least, and each of the first limit is no older than some message of its page.
LEMMA FullPage ==
    ASSUME TypeOK, Answers, \A i \in Accounts : fetched[i] # None,
           NEW z, Ranks(z, fetched),
           NEW a \in Accounts, seen[a] # None, Len(seen[a]) > limit
    PROVE  /\ limit <= Len(z)
           /\ \A p \in 1..limit : \E k \in 1..limit : z[p].date >= seen[a][k]
<1> DEFINE L == Len(z)
           At(k, q) == z[q] = MessageOf(a, k, seen[a][k])
           h == [k \in 1..limit |-> CHOOSE q \in 1..L : At(k, q)]
<1>1. /\ z \in Seq(Message) /\ L \in Nat /\ limit \in Nat
      /\ \A p \in 1..L : z[p] \in Message /\ z[p].date \in Int
  <2>1. z \in Seq(Message) /\ limit \in Nat
    BY Limits DEF Ranks, TypeOK
  <2>2. L \in Nat /\ \A p \in 1..L : z[p] \in Message
    BY <2>1
  <2> QED
    BY <2>1, <2>2, Limits DEF Message, Dates
<1>2. /\ seen[a] \in Mailboxes /\ Len(seen[a]) \in Nat
      /\ DOMAIN fetched[a] = 1..Smaller(limit, Len(seen[a]))
      /\ \A k \in 1..Smaller(limit, Len(seen[a])) : fetched[a][k] = seen[a][k]
  BY AnsweredPage
<1>3. /\ Len(seen[a]) \in Nat /\ DOMAIN fetched[a] = 1..limit
      /\ \A k \in 1..limit : fetched[a][k] = seen[a][k] /\ seen[a][k] \in Int
  <2>1. \A k \in 1..Len(seen[a]) : seen[a][k] \in Int
    BY <1>2, MailboxTypes, Limits DEF Dates
  <2>2. Smaller(limit, Len(seen[a])) = limit /\ \A k \in 1..limit : k \in 1..Len(seen[a])
    BY <1>1, <1>2 DEF Smaller
  <2> QED
    BY <1>2, <2>1, <2>2
<1> HIDE DEF L
<1>4. ASSUME NEW k \in 1..limit PROVE \E q \in 1..L : At(k, q)
  <2>1. \E q \in 1..Len(z) : z[q] = [account |-> a, nth |-> k, date |-> fetched[a][k]]
    BY <1>3 DEF Ranks
  <2> QED
    BY <1>3, <2>1 DEF MessageOf, L
<1>5. \A k \in 1..limit : h[k] \in 1..L /\ At(k, h[k])
  <2> HIDE DEF At
  <2> QED
    BY <1>4
<1>6. \A k \in 1..limit : h[k] \in 1..L /\ z[h[k]].nth = k /\ z[h[k]].date = seen[a][k]
  BY <1>5 DEF MessageOf
<1>7. h \in [1..limit -> 1..L] /\ \A k, l \in 1..limit : h[k] = h[l] => k = l
  <2>1. h \in [1..limit -> 1..L]
    BY <1>6
  <2> HIDE DEF h
  <2> QED
    BY <1>6, <2>1
<1> HIDE DEF h
<1>8. ASSUME NEW n \in Nat, \A k \in 1..limit : h[k] <= n PROVE limit <= n
  <2>1. h \in [1..limit -> 1..n]
    BY <1>1, <1>7, <1>8
  <2>2. h \in Injection(1..limit, 1..n)
    BY <1>7, <2>1, Fun_IsInj
  <2> QED
    BY <1>1, <2>2, Numbers, FS_Injection
<1>9. limit <= L
  BY <1>1, <1>7, <1>8
<1>10. ASSUME NEW p \in 1..limit PROVE \E k \in 1..limit : z[p].date >= seen[a][k]
  <2>1. PICK k \in 1..limit : ~(h[k] <= p - 1)
    <3>1. p - 1 \in Nat /\ ~(limit <= p - 1)
      BY <1>1
    <3> QED
      BY <1>8, <3>1
  <2>2. p = h[k] \/ p < h[k]
    BY <1>1, <1>7, <2>1
  <2>3. p \in 1..L
    BY <1>1, <1>9
  <2>4. z[p].date >= z[h[k]].date
    <3>1. CASE p = h[k]
      BY <1>1, <2>3, <3>1
    <3>2. CASE p < h[k]
      <4>1. Newer(z[p], z[h[k]])
        BY <1>6, <2>3, <3>2 DEF Ranks, L
      <4>2. z[p].date \in Int /\ z[h[k]].date \in Int
        BY <1>1, <1>6, <2>3
      <4> QED
        BY <4>1, <4>2 DEF Newer
    <3> QED
      BY <2>2, <3>1, <3>2
  <2> QED
    BY <1>6, <2>4
<1> QED
  BY <1>9, <1>10 DEF L

\* Without one, every message that was offered is in some page.
LEMMA OfferedInPages ==
    ASSUME TypeOK, Answers, \A i \in Accounts : fetched[i] # None,
           NEW z, Ranks(z, fetched)
    PROVE  /\ Range(z) \subseteq Offered
           /\ \A m \in Offered : m.nth <= limit => m \in Range(z)
<1>1. z \in Seq(Message) /\ DOMAIN z = 1..Len(z) /\ limit \in Nat /\ \A p \in 1..Len(z) : z[p] \in Message
  BY Limits DEF Ranks, TypeOK
<1>2. ASSUME NEW p \in 1..Len(z) PROVE z[p] \in Offered
  <2> DEFINE i == z[p].account
             k == z[p].nth
  <2>1. i \in Accounts /\ k \in DOMAIN fetched[i] /\ z[p] = MessageOf(i, k, fetched[i][k])
    BY <1>1 DEF Ranks, Message, MessageOf
  <2> HIDE DEF i, k
  <2>2. fetched[i] # <<>>
    BY <2>1
  <2>3. seen[i] # None
    BY <2>1, <2>2, MailboxTypes DEF Answers
  <2>4. /\ seen[i] \in Mailboxes /\ Len(seen[i]) \in Nat
        /\ k \in 1..Smaller(limit, Len(seen[i])) /\ fetched[i][k] = seen[i][k]
    BY <2>1, <2>3, AnsweredPage
  <2>5. k \in 1..Len(seen[i])
    BY <1>1, <2>4 DEF Smaller
  <2> QED
    BY <2>1, <2>3, <2>4, <2>5, OfferedMessages
<1>3. ASSUME NEW m \in Offered, m.nth <= limit PROVE m \in Range(z)
  <2> DEFINE i == m.account
             k == m.nth
  <2>1. /\ i \in Accounts /\ seen[i] \in Mailboxes /\ k \in 1..Len(seen[i])
        /\ m = MessageOf(i, k, seen[i][k])
    BY OfferedMessages
  <2>2. k <= limit
    BY <1>3
  <2> HIDE DEF i, k
  <2>3. seen[i] # None
    BY <2>1, MailboxTypes
  <2>4. /\ Len(seen[i]) \in Nat
        /\ DOMAIN fetched[i] = 1..Smaller(limit, Len(seen[i]))
        /\ \A n \in 1..Smaller(limit, Len(seen[i])) : fetched[i][n] = seen[i][n]
    BY <2>1, <2>3, AnsweredPage
  <2>5. k \in 1..Smaller(limit, Len(seen[i]))
    BY <1>1, <2>1, <2>2, <2>4 DEF Smaller
  <2>6. k \in DOMAIN fetched[i] /\ m = [account |-> i, nth |-> k, date |-> fetched[i][k]]
    BY <2>1, <2>4, <2>5 DEF MessageOf
  <2>7. PICK p \in 1..Len(z) : z[p] = m
    BY <2>1, <2>6 DEF Ranks
  <2> QED
    BY <1>1, <2>7 DEF Range
<1> QED
  BY <1>1, <1>2, <1>3 DEF Range

\* The first limit of what the pages hold are the newest of what was offered.
LEMMA CutIsNewest ==
    ASSUME TypeOK, Answers, \A i \in Accounts : fetched[i] # None,
           NEW z, Ranks(z, fetched), NEW box, box = Truncate(z, limit)
    PROVE  /\ Range(box) \subseteq Offered
           /\ Cardinality(Range(box)) = Len(box)
           /\ Len(box) = Smaller(limit, Cardinality(Offered))
           /\ \A m \in Range(box), n \in Offered \ Range(box) : m.date >= n.date
           /\ box \in Seq(Message)
           /\ \A p, q \in 1..Len(box) : p < q => Newer(box[p], box[q])
<1> DEFINE L == Len(z)
           M == Smaller(limit, L)
           C == Cardinality(Offered)
<1>1. /\ z \in Seq(Message) /\ DOMAIN z = 1..L /\ L \in Nat /\ limit \in Nat
      /\ \A p, q \in 1..L : p < q => Newer(z[p], z[q])
  <2>1. z \in Seq(Message) /\ limit \in Nat
    BY Limits DEF Ranks, TypeOK
  <2> QED
    BY <2>1 DEF Ranks
<1>2. M \in 0..L /\ M <= limit /\ (M = limit \/ M = L)
  BY <1>1 DEF Smaller
<1>3. box \in Seq(Message) /\ Len(box) = M /\ DOMAIN box = 1..M /\ \A k \in 1..M : box[k] = z[k]
  <2>1. box \in Seq(Message) /\ Len(box) = M /\ \A k \in 1..M : box[k] = z[k]
    BY <1>1, TruncateKeeps
  <2> QED
    BY <2>1, LenProperties
<1> HIDE DEF L, M
<1>4. \A p, q \in 1..M : p < q => Newer(box[p], box[q])
  <2> SUFFICES ASSUME NEW p \in 1..M, NEW q \in 1..M, p < q PROVE Newer(box[p], box[q])
    OBVIOUS
  <2>1. p \in 1..L /\ q \in 1..L
    BY <1>1, <1>2
  <2> QED
    BY <1>1, <1>3, <2>1
<1>5. IsFiniteSet(Range(box)) /\ Cardinality(Range(box)) = M
  BY <1>3, <1>4, RanksOnce
<1>6. Range(box) \subseteq Range(z)
  BY <1>1, <1>2, <1>3 DEF Range
<1>7. Range(z) \subseteq Offered /\ \A m \in Offered : m.nth <= limit => m \in Range(z)
  BY OfferedInPages
<1>8. /\ IsFiniteSet(Offered) /\ C \in Nat /\ M <= C
      /\ IsFiniteSet(Range(z)) /\ Cardinality(Range(z)) = L
  <2>1. IsFiniteSet(Offered)
    BY OfferedMessages
  <2>2. C \in Nat /\ Cardinality(Range(box)) <= C
    BY <1>6, <1>7, <2>1, FS_CardinalityType, FS_Subset
  <2> QED
    BY <1>1, <1>5, <2>1, <2>2, RanksOnce DEF L
<1> HIDE DEF C
<1>9. M = Smaller(limit, C)
  <2>1. CASE \E i \in Accounts : seen[i] # None /\ Len(seen[i]) > limit
    <3>1. limit <= L
      BY <2>1, FullPage DEF L
    <3>2. M = limit
      BY <1>1, <3>1 DEF M, Smaller
    <3> QED
      BY <1>1, <1>8, <3>2 DEF Smaller
  <2>2. CASE \A i \in Accounts : seen[i] # None => ~(Len(seen[i]) > limit)
    <3>1. ASSUME NEW m \in Offered PROVE m \in Range(z)
      <4>1. /\ m.account \in Accounts /\ seen[m.account] \in Mailboxes
            /\ m.nth \in 1..Len(seen[m.account])
        BY OfferedMessages
      <4>2. Len(seen[m.account]) \in Nat /\ ~(Len(seen[m.account]) > limit)
        BY <2>2, <4>1, MailboxTypes
      <4>3. m.nth <= limit
        BY <1>1, <4>1, <4>2
      <4> QED
        BY <1>7, <4>3
    <3>2. Range(z) = Offered
      BY <1>7, <3>1
    <3> QED
      BY <1>8, <3>2 DEF M, C
  <2> QED
    BY <2>1, <2>2
<1>10. ASSUME NEW m \in Range(box), NEW n \in Offered \ Range(box) PROVE m.date >= n.date
  <2>1. PICK p \in 1..M : m = z[p]
    BY <1>3 DEF Range
  <2>2. p \in 1..L /\ p \in 1..limit
    BY <1>1, <1>2
  <2>3. \A q \in 1..L : z[q].date \in Int
    <3>1. \A q \in 1..L : z[q] \in Message
      BY <1>1 DEF L
    <3> QED
      BY <3>1, Limits DEF Message, Dates
  <2>4. CASE n \in Range(z)
    <3>1. PICK q \in 1..L : n = z[q]
      BY <1>1, <2>4 DEF Range
    <3>2. q \notin 1..M
      BY <1>3, <3>1 DEF Range
    <3>3. p < q
      BY <1>1, <1>2, <3>2
    <3>4. Newer(z[p], z[q])
      BY <1>1, <2>2, <3>3
    <3>5. z[p].date >= z[q].date
      BY <2>2, <2>3, <3>4 DEF Newer
    <3> QED
      BY <2>1, <3>1, <3>5
  <2>5. CASE n \notin Range(z)
    <3> DEFINE i == n.account
               k == n.nth
    <3>1. /\ i \in Accounts /\ seen[i] \in Mailboxes /\ k \in 1..Len(seen[i])
          /\ n = MessageOf(i, k, seen[i][k])
      BY OfferedMessages
    <3>2. ~(k <= limit)
      BY <1>7, <2>5
    <3> HIDE DEF i, k
    <3>3. /\ Len(seen[i]) \in Nat /\ seen[i] # None
          /\ \A a, b \in 1..Len(seen[i]) : a < b => seen[i][a] >= seen[i][b]
          /\ \A a \in 1..Len(seen[i]) : seen[i][a] \in Int
      <4>1. seen[i] # None /\ seen[i] \in Seq(Dates) /\ Len(seen[i]) \in Nat
        BY <3>1, MailboxTypes
      <4>2. \A a, b \in 1..Len(seen[i]) : a < b => seen[i][a] >= seen[i][b]
        BY <3>1, MailboxTypes
      <4>3. \A a \in 1..Len(seen[i]) : seen[i][a] \in Dates
        BY <4>1
      <4> QED
        BY <4>1, <4>2, <4>3 DEF Dates
    <3>4. Len(seen[i]) > limit
      BY <1>1, <3>1, <3>2, <3>3
    <3>5. PICK j \in 1..limit : z[p].date >= seen[i][j]
      BY <2>2, <3>1, <3>3, <3>4, FullPage
    <3>6. j \in 1..Len(seen[i]) /\ j < k
      BY <1>1, <3>1, <3>2, <3>3, <3>4
    <3>7. seen[i][j] >= seen[i][k]
      BY <3>1, <3>3, <3>6
    <3>8. n.date = seen[i][k] /\ seen[i][k] \in Int /\ seen[i][j] \in Int /\ z[p].date \in Int
      BY <2>2, <2>3, <3>1, <3>3, <3>6 DEF MessageOf
    <3> QED
      BY <2>1, <3>5, <3>7, <3>8
  <2> QED
    BY <2>4, <2>5
<1> QED
  BY <1>3, <1>4, <1>5, <1>6, <1>7, <1>9, <1>10 DEF C

----------------------------------------------------------------------------
(* The invariant *)

\* Nobody has answered before the caller has asked, and there is no answer before
\* the merge.
Untouched ==
    /\ phase = "idle" => \A i \in Accounts : seen[i] = None /\ fetched[i] = None
    /\ phase # "done" => inbox = <<>>

IInv == TypeOK /\ Answers /\ Untouched /\ InboxIsNewest /\ InboxIsOrdered

LEMMA InitInvariant == Init => IInv
<1> SUFFICES ASSUME Init PROVE IInv
  OBVIOUS
<1>1. phase = "idle" /\ inbox = <<>> /\ \A i \in Accounts : seen[i] = None /\ fetched[i] = None
  BY DEF Init
<1>2. TypeOK
  BY Limits, MailboxTypes DEF Init, TypeOK
<1>3. DOMAIN inbox = {}
  BY <1>1
<1> QED
  BY <1>1, <1>2, <1>3 DEF IInv, Answers, Untouched, InboxIsNewest, InboxIsOrdered

\* A cap bounds what a caller asks for.
LEMMA CappedType ==
    ASSUME NEW l \in Asked \cup {None}
    PROVE  Capped(l) \in 0..MaxLimit
BY Limits DEF Capped, Smaller

LEMMA AskStep ==
    ASSUME IInv, NEW l \in Asked \cup {None}, Ask(l)
    PROVE  IInv'
<1> USE DEF Ask
<1>1. TypeOK'
  BY CappedType DEF IInv, TypeOK
<1>2. Answers' /\ Untouched'
  BY DEF IInv, Answers, Untouched
<1>3. InboxIsNewest' /\ InboxIsOrdered'
  BY DEF IInv, InboxIsNewest, InboxIsOrdered
<1> QED
  BY <1>1, <1>2, <1>3 DEF IInv

LEMMA AnswerStep ==
    ASSUME IInv, NEW i \in Accounts, Answer(i)
    PROVE  IInv'
<1>1. PICK box \in Mailboxes : /\ seen' = [seen EXCEPT ![i] = box]
                               /\ fetched' = [fetched EXCEPT ![i] = Truncate(box, limit)]
  BY DEF Answer, Page
<1>2. phase = "fetching" /\ UNCHANGED <<phase, limit, inbox>> /\ limit \in Nat
  BY Limits DEF Answer, IInv, TypeOK
<1>3. Truncate(box, limit) \in Mailboxes
  BY <1>2, PageOfMailbox
<1>4. TypeOK'
  BY <1>1, <1>2, <1>3 DEF IInv, TypeOK
<1>5. Answers'
  BY <1>1, <1>2 DEF IInv, TypeOK, Answers
<1>6. Untouched' /\ InboxIsNewest' /\ InboxIsOrdered'
  BY <1>2 DEF IInv, Untouched, InboxIsNewest, InboxIsOrdered
<1> QED
  BY <1>4, <1>5, <1>6 DEF IInv

LEMMA FailStep ==
    ASSUME IInv, NEW i \in Accounts, Fail(i)
    PROVE  IInv'
<1>1. /\ phase = "fetching" /\ UNCHANGED <<phase, limit, seen, inbox>>
      /\ fetched[i] = None /\ fetched' = [fetched EXCEPT ![i] = <<>>]
  BY DEF Fail
<1>2. TypeOK'
  BY <1>1, MailboxTypes DEF IInv, TypeOK
<1>3. seen[i] = None
  <2> SUFFICES ASSUME seen[i] # None PROVE FALSE
    OBVIOUS
  <2>1. fetched[i] \in Mailboxes
    BY AnsweredPage DEF IInv
  <2> QED
    BY <1>1, <2>1, MailboxTypes
<1>4. Answers'
  BY <1>1, <1>3 DEF IInv, TypeOK, Answers
<1>5. Untouched' /\ InboxIsNewest' /\ InboxIsOrdered'
  BY <1>1 DEF IInv, Untouched, InboxIsNewest, InboxIsOrdered
<1> QED
  BY <1>2, <1>4, <1>5 DEF IInv

LEMMA MergeStep ==
    ASSUME IInv, Merge
    PROVE  IInv'
<1> DEFINE all == FlattenSeq([i \in Accounts |-> Owned(i, fetched[i])])
<1>1. /\ phase = "fetching" /\ phase' = "done" /\ UNCHANGED <<limit, seen, fetched>>
      /\ \A i \in Accounts : fetched[i] # None
      /\ inbox' = Truncate(Sorted(all), limit)
  BY DEF Merge
<1>2. fetched \in [Accounts -> Seq(Dates)]
  <2>1. \A i \in Accounts : fetched[i] \in Seq(Dates)
    BY <1>1, MailboxTypes DEF IInv, TypeOK
  <2> QED
    BY <2>1 DEF IInv, TypeOK
<1>3. Ranks(Sorted(all), fetched)
  BY <1>2, Concatenation, SortedRanks
<1> HIDE DEF all
<1>4. /\ Range(inbox') \subseteq Offered
      /\ Cardinality(Range(inbox')) = Len(inbox')
      /\ Len(inbox') = Smaller(limit, Cardinality(Offered))
      /\ \A m \in Range(inbox'), n \in Offered \ Range(inbox') : m.date >= n.date
      /\ inbox' \in Seq(Message)
      /\ \A p, q \in 1..Len(inbox') : p < q => Newer(inbox'[p], inbox'[q])
  BY <1>1, <1>3, CutIsNewest DEF IInv
<1>5. Offered' = Offered
  BY <1>1 DEF Offered
<1>6. InboxIsNewest'
  BY <1>1, <1>4, <1>5 DEF InboxIsNewest
<1>7. InboxIsOrdered'
  <2>1. DOMAIN inbox' = 1..Len(inbox')
    BY <1>4
  <2> QED
    BY <1>4, <2>1 DEF InboxIsOrdered, Newer, Earlier
<1>8. TypeOK' /\ Answers' /\ Untouched'
  BY <1>1, <1>4 DEF IInv, TypeOK, Answers, Untouched
<1> QED
  BY <1>6, <1>7, <1>8 DEF IInv

LEMMA NextInvariant == IInv /\ [Next]_vars => IInv'
<1> SUFFICES ASSUME IInv, [Next]_vars PROVE IInv'
  OBVIOUS
<1>1. CASE \E l \in Asked \cup {None} : Ask(l)
  BY <1>1, AskStep
<1>2. CASE \E i \in Accounts : Answer(i) \/ Fail(i)
  BY <1>2, AnswerStep, FailStep
<1>3. CASE Merge
  BY <1>3, MergeStep
<1>4. CASE UNCHANGED vars
  BY <1>4 DEF vars, IInv, TypeOK, Answers, Untouched, InboxIsNewest, InboxIsOrdered, Offered
<1> QED
  BY <1>1, <1>2, <1>3, <1>4 DEF Next

\* What was fetched are the first pages of what was seen, and the inbox is their merge,
\* in every state of every call (mod.rs:47-84).
THEOREM Invariant == Spec => []IInv
<1> QED
  BY InitInvariant, NextInvariant, PTL DEF Spec

----------------------------------------------------------------------------
(* The theorems *)

\* Every variable has its type, and no caller gets past MAX_LIMIT (routes.rs:20).
THEOREM TypeCorrect == Spec => []TypeOK
<1>1. IInv => TypeOK
  BY DEF IInv
<1> QED
  BY <1>1, Invariant, PTL

\* One page of each account is enough: whatever fails, the inbox is the newest of all
\* the messages of the mailboxes that answered (mod.rs:47-49, 60).
THEOREM Newest == Spec => []InboxIsNewest
<1>1. IInv => InboxIsNewest
  BY DEF IInv
<1> QED
  BY <1>1, Invariant, PTL

\* It does not depend on who answered first (mod.rs:49, 84).
THEOREM Ordered == Spec => []InboxIsOrdered
<1>1. IInv => InboxIsOrdered
  BY DEF IInv
<1> QED
  BY <1>1, Invariant, PTL
=============================================================================
