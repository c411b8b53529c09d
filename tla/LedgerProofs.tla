---------------------------- MODULE LedgerProofs ----------------------------
(***************************************************************************)
(* Lemmas about the operators of Ledger: what applying a block and rolling *)
(* one back do to the accounts, for every block.  They are folds over the  *)
(* block's items, so they rest on an induction.                            *)
(***************************************************************************)
EXTENDS Ledger, SequenceTheorems, WellFoundedInduction, TLAPS

\* Every set of naturals that is not empty has a least element.
LEMMA LeastNatural ==
    ASSUME NEW T, T \subseteq Nat, T # {}
    PROVE  \E x \in T : \A y \in T : x <= y
<1> DEFINE R == {ss \in Nat \X Nat : ss[1] < ss[2]}
<1>1. IsWellFoundedOn(R, Nat)
    BY NatLessThanWellFounded, Zenon DEF OpToRel
<1> HIDE DEF R
<1>2. \E x \in T : \A y \in T : ~ (<<y, x>> \in R)
    BY <1>1, WFMin
<1>3. ASSUME NEW x \in Nat, NEW y \in Nat, ~ (<<y, x>> \in R) PROVE x <= y
    BY <1>3 DEF R
<1> QED BY <1>2, <1>3

\* Induction: what holds of 0 and of every successor up to n holds up to n.
LEMMA Induction ==
    ASSUME NEW n \in Nat, NEW P, 0 \in P, \A i \in 1 .. n : i - 1 \in P => i \in P
    PROVE  \A i \in 0 .. n : i \in P
<1> DEFINE T == (0 .. n) \ P
<1>1. SUFFICES ASSUME T # {} PROVE FALSE
    OBVIOUS
<1>2. T \subseteq Nat
    OBVIOUS
<1> HIDE DEF T
<1>5. PICK i \in T : \A j \in T : i <= j
    BY <1>1, <1>2, LeastNatural
<1> USE DEF T
<1>3. i \in 1 .. n
    BY <1>5
<1>4. i - 1 \in P
    BY <1>3, <1>5
<1> QED BY <1>3, <1>4, <1>5

\* The largest of a set in which n is and nothing above it.
LEMMA MaxIs ==
    ASSUME NEW n \in Nat, NEW s \in SUBSET (1 .. n), n \in s
    PROVE  Max(s) = n
<1>1. \A y \in s : n >= y
    OBVIOUS
<1>2. \A x \in s : (\A y \in s : x >= y) => x = n
    BY <1>1
<1> QED BY <1>1, <1>2 DEF Max

\* Every set of positive numbers up to n that is not empty has a largest.
LEMMA MaxIn ==
    ASSUME NEW n \in Nat, NEW s \in SUBSET (1 .. n), s # {}
    PROVE  Max(s) \in s
<1> DEFINE T == {n - x : x \in s}
<1>1. T \subseteq Nat
    <2> SUFFICES ASSUME NEW x \in s PROVE n - x \in Nat
        OBVIOUS
    <2> QED OBVIOUS
<1>5. T # {}
    OBVIOUS
<1> HIDE DEF T
<1>2. PICK z \in T : \A y \in T : z <= y
    BY <1>1, <1>5, LeastNatural
<1> USE DEF T
<1>3. PICK x \in s : z = n - x
    BY <1>2
<1>4. \A y \in s : x >= y
    <2> TAKE y \in s
    <2>1. n - y \in T
        OBVIOUS
    <2> QED BY <1>2, <1>3, <2>1
<1> QED BY <1>3, <1>4 DEF Max

\* A fold by G over 1 .. n, as MapThenFoldSet recurs: over the subsets of 1 .. n, the
\* largest index last.
FoldsAt(G, base, s, h) == h[s] = IF s = {} THEN base ELSE G[<<Max(s), h[s \ {Max(s)}]>>]

\* A fold over the subsets of 1 .. n is a function.
LEMMA FoldExists ==
    ASSUME NEW n \in Nat, NEW S, NEW base \in S, NEW G \in [(1 .. n) \X S -> S]
    PROVE  \E h \in [SUBSET (1 .. n) -> S] : \A s \in SUBSET (1 .. n) : FoldsAt(G, base, s, h)
<1> DEFINE Has(k) == \E h \in [SUBSET (1 .. k) -> S] : \A s \in SUBSET (1 .. k) : FoldsAt(G, base, s, h)
           P == {k \in 0 .. n : Has(k)}
<1>1. 0 \in P
    <2> DEFINE h == [s \in SUBSET (1 .. 0) |-> base]
    <2>1. h \in [SUBSET (1 .. 0) -> S]
        OBVIOUS
    <2>2. ASSUME NEW s \in SUBSET (1 .. 0) PROVE FoldsAt(G, base, s, h)
        BY DEF FoldsAt
    <2> QED BY <2>1, <2>2
<1>2. ASSUME NEW k \in 1 .. n, k - 1 \in P PROVE k \in P
    <2>1. PICK h \in [SUBSET (1 .. (k - 1)) -> S] :
              \A s \in SUBSET (1 .. (k - 1)) : FoldsAt(G, base, s, h)
        BY <1>2
    <2> DEFINE g == [s \in SUBSET (1 .. k) |-> IF k \in s THEN G[<<k, h[s \ {k}]>>] ELSE h[s]]
    <2>2. ASSUME NEW s \in SUBSET (1 .. k) PROVE s \ {k} \in SUBSET (1 .. (k - 1))
        OBVIOUS
    <2>3. ASSUME NEW s \in SUBSET (1 .. k), k \notin s PROVE s \in SUBSET (1 .. (k - 1))
        BY <2>3
    <2>4. g \in [SUBSET (1 .. k) -> S]
        <3> SUFFICES ASSUME NEW s \in SUBSET (1 .. k)
                     PROVE  (IF k \in s THEN G[<<k, h[s \ {k}]>>] ELSE h[s]) \in S
            OBVIOUS
        <3>1. CASE k \in s
            <4>1. h[s \ {k}] \in S
                BY <2>2
            <4>2. <<k, h[s \ {k}]>> \in (1 .. n) \X S
                BY <4>1
            <4> QED BY <3>1, <4>2
        <3>2. CASE k \notin s
            BY <2>3, <3>2
        <3> QED BY <3>1, <3>2
    <2>5. ASSUME NEW s \in SUBSET (1 .. k) PROVE FoldsAt(G, base, s, g)
        <3>1. CASE k \in s
            <4>1. Max(s) = k
                BY <3>1, MaxIs
            <4>2. g[s \ {k}] = h[s \ {k}]
                BY <2>2
            <4> HIDE DEF g
            <4>3. g[s] = G[<<k, h[s \ {k}]>>]
                BY <3>1 DEF g
            <4> QED BY <3>1, <4>1, <4>2, <4>3 DEF FoldsAt
        <3>2. CASE k \notin s
            <4>1. s \in SUBSET (1 .. (k - 1)) /\ g[s] = h[s]
                BY <2>3, <3>2
            <4>2. s \ {Max(s)} \in SUBSET (1 .. k) /\ k \notin s \ {Max(s)}
                BY <3>2
            <4>3. g[s \ {Max(s)}] = h[s \ {Max(s)}]
                BY <4>2
            <4>4. FoldsAt(G, base, s, h)
                BY <2>1, <4>1
            <4> HIDE DEF g
            <4> QED BY <4>1, <4>3, <4>4 DEF FoldsAt
        <3> QED BY <3>1, <3>2
    <2> HIDE DEF g
    <2>6. Has(k)
        BY <2>4, <2>5
    <2> QED BY <2>6
<1> HIDE DEF P
<1>3. \A i \in 0 .. n : i \in P
    BY <1>1, <1>2, Induction
<1>4. n \in P
    BY <1>3
<1> QED BY <1>4 DEF P

\* Prefixes of an interval, as a fold takes them.
LEMMA IntervalPrefix ==
    ASSUME NEW n \in Nat, NEW i \in 1 .. n
    PROVE  /\ 1 .. i \in SUBSET (1 .. n) /\ 1 .. i # {}
           /\ Max(1 .. i) = i /\ (1 .. i) \ {i} = 1 .. (i - 1)
<1>1. (1 .. i) \in SUBSET (1 .. n) /\ i \in 1 .. i /\ (1 .. i) \ {i} = 1 .. (i - 1)
    OBVIOUS
<1>2. Max(1 .. i) = i
    BY MaxIs
<1> QED BY <1>1, <1>2

\* it recurs as MapThenFoldSet does, within S.
Recurs(n, S, base, G, it) ==
    /\ it[{}] = base
    /\ \A s \in SUBSET (1 .. n) : s # {} /\ it[s \ {Max(s)}] \in S =>
           it[s] = G[<<Max(s), it[s \ {Max(s)}]>>]

\* There is one value per index, from base to result.
Passes(n, S, base, G, result) ==
    \E f \in [0 .. n -> S] : /\ f[0] = base /\ f[n] = result
                            /\ \A i \in 1 .. n : f[i] = G[<<i, f[i - 1]>>]

\* A function that recurs passes through one value per index.
LEMMA FoldChain ==
    ASSUME NEW n \in Nat, NEW S, NEW base \in S, NEW G \in [(1 .. n) \X S -> S], NEW it,
           Recurs(n, S, base, G, it)
    PROVE  Passes(n, S, base, G, it[1 .. n])
<1> USE DEF Recurs
<1> DEFINE f == [i \in 0 .. n |-> it[1 .. i]]
<1>1. ASSUME NEW i \in 1 .. n, it[1 .. (i - 1)] \in S
      PROVE  it[1 .. i] = G[<<i, it[1 .. (i - 1)]>>] /\ it[1 .. i] \in S
    <2>1. it[1 .. i] = G[<<i, it[1 .. (i - 1)]>>]
        BY <1>1, IntervalPrefix
    <2>2. <<i, it[1 .. (i - 1)]>> \in (1 .. n) \X S
        BY <1>1
    <2> QED BY <2>1, <2>2
<1>2. 1 .. 0 = {}
    OBVIOUS
<1>3. \A i \in 0 .. n : it[1 .. i] \in S
    <2> DEFINE P == {i \in 0 .. n : it[1 .. i] \in S}
    <2>1. 0 \in P
        BY <1>2
    <2>2. ASSUME NEW i \in 1 .. n, i - 1 \in P PROVE i \in P
        <3>1. it[1 .. (i - 1)] \in S
            BY <2>2
        <3>2. it[1 .. i] \in S
            BY <1>1, <3>1
        <3> QED BY <3>2
    <2> HIDE DEF P
    <2>3. \A i \in 0 .. n : i \in P
        BY <2>1, <2>2, Induction
    <2> QED BY <2>3 DEF P
<1>4. f \in [0 .. n -> S] /\ f[n] = it[1 .. n] /\ f[0] = base
    BY <1>2, <1>3
<1>5. \A i \in 1 .. n : f[i] = G[<<i, f[i - 1]>>]
    BY <1>1, <1>3
<1> HIDE DEF f
<1> QED BY <1>4, <1>5 DEF Passes

TransactionsApplied(base, seq) == FoldLeft(ApplyTransaction, base, seq)

TransactionsClosed(S, seq) ==
    /\ Len(seq) \in Nat /\ DOMAIN seq = 1 .. Len(seq)
    /\ \A st \in S : \A i \in 1 .. Len(seq) : ApplyTransaction(st, seq[i]) \in S

TransactionsPath(S, base, seq, f) ==
    /\ f \in [0 .. Len(seq) -> S] /\ f[0] = base /\ f[Len(seq)] = TransactionsApplied(base, seq)
    /\ \A i \in 1 .. Len(seq) : f[i] = ApplyTransaction(f[i - 1], seq[i])

\* Applying the transactions of a block passes through one state per transaction.
LEMMA TransactionsUnfold ==
    ASSUME NEW S, NEW base \in S, NEW seq, TransactionsClosed(S, seq)
    PROVE  \E f : TransactionsPath(S, base, seq, f)
<1> DEFINE n == Len(seq)
<1>0. n \in Nat /\ DOMAIN seq = 1 .. n /\ \A st \in S : \A i \in 1 .. n : ApplyTransaction(st, seq[i]) \in S
    BY DEF TransactionsClosed
<1> HIDE DEF n
<1> DEFINE E(h) == h = [s \in SUBSET (1 .. n) |->
                           IF s = {} THEN base ELSE ApplyTransaction(h[s \ {Max(s)}], seq[Max(s)])]
           it == CHOOSE h : E(h)
           G == [p \in (1 .. n) \X S |-> ApplyTransaction(p[2], seq[p[1]])]
<1>1. G \in [(1 .. n) \X S -> S]
    BY <1>0
<1>2. ASSUME NEW s \in SUBSET (1 .. n), s # {} PROVE Max(s) \in 1 .. n
    BY <1>0, <1>2, MaxIn
<1>3. \E h : E(h)
    <2>1. PICK h \in [SUBSET (1 .. n) -> S] : \A s \in SUBSET (1 .. n) : FoldsAt(G, base, s, h)
        <3> HIDE DEF G
        <3> QED BY <1>0, <1>1, FoldExists
    <2>2. ASSUME NEW s \in SUBSET (1 .. n), s # {}
          PROVE  h[s] = ApplyTransaction(h[s \ {Max(s)}], seq[Max(s)])
        BY <1>2, <2>1, <2>2 DEF FoldsAt
    <2>3. h[{}] = base
        BY <2>1 DEF FoldsAt
    <2>4. E(h)
        BY <2>2, <2>3
    <2> HIDE DEF E
    <2> QED BY <2>4
<1>4. E(it)
    BY <1>3
<1>5. TransactionsApplied(base, seq) = it[1 .. n]
    BY <1>0, Zenon DEF TransactionsApplied, FoldLeft, MapThenFoldSet
<1> HIDE DEF it
<1>6. ASSUME NEW s \in SUBSET (1 .. n), s # {}, it[s \ {Max(s)}] \in S
      PROVE  it[s] = G[<<Max(s), it[s \ {Max(s)}]>>]
    BY <1>2, <1>4, <1>6
<1>7. it[{}] = base
    BY <1>4
<1> HIDE DEF E, G
<1>8. PICK f \in [0 .. n -> S] : /\ f[0] = base /\ f[n] = it[1 .. n]
                                 /\ \A i \in 1 .. n : f[i] = G[<<i, f[i - 1]>>]
    <2>1. Recurs(n, S, base, G, it)
        BY <1>6, <1>7 DEF Recurs
    <2>2. Passes(n, S, base, G, it[1 .. n])
        BY <1>0, <1>1, <2>1, FoldChain
    <2> QED BY <2>2 DEF Passes
<1>9. \A i \in 1 .. n : f[i] = ApplyTransaction(f[i - 1], seq[i])
    <2> TAKE i \in 1 .. n
    <2>1. <<i, f[i - 1]>> \in (1 .. n) \X S /\ f[i] = G[<<i, f[i - 1]>>]
        BY <1>0, <1>8
    <2> QED BY <2>1 DEF G
<1> QED BY <1>5, <1>8, <1>9 DEF TransactionsPath, n

AffairsApplied(base, seq) == FoldLeft(ApplyAffair, base, seq)

AffairsClosed(S, seq) ==
    /\ Len(seq) \in Nat /\ DOMAIN seq = 1 .. Len(seq)
    /\ \A st \in S : \A i \in 1 .. Len(seq) : ApplyAffair(st, seq[i]) \in S

AffairsPath(S, base, seq, f) ==
    /\ f \in [0 .. Len(seq) -> S] /\ f[0] = base /\ f[Len(seq)] = AffairsApplied(base, seq)
    /\ \A i \in 1 .. Len(seq) : f[i] = ApplyAffair(f[i - 1], seq[i])

\* The same for its affairs.
LEMMA AffairsUnfold ==
    ASSUME NEW S, NEW base \in S, NEW seq, AffairsClosed(S, seq)
    PROVE  \E f : AffairsPath(S, base, seq, f)
<1> DEFINE n == Len(seq)
<1>0. n \in Nat /\ DOMAIN seq = 1 .. n /\ \A st \in S : \A i \in 1 .. n : ApplyAffair(st, seq[i]) \in S
    BY DEF AffairsClosed
<1> HIDE DEF n
<1> DEFINE E(h) == h = [s \in SUBSET (1 .. n) |->
                           IF s = {} THEN base ELSE ApplyAffair(h[s \ {Max(s)}], seq[Max(s)])]
           it == CHOOSE h : E(h)
           G == [p \in (1 .. n) \X S |-> ApplyAffair(p[2], seq[p[1]])]
<1>1. G \in [(1 .. n) \X S -> S]
    BY <1>0
<1>2. ASSUME NEW s \in SUBSET (1 .. n), s # {} PROVE Max(s) \in 1 .. n
    BY <1>0, <1>2, MaxIn
<1>3. \E h : E(h)
    <2>1. PICK h \in [SUBSET (1 .. n) -> S] : \A s \in SUBSET (1 .. n) : FoldsAt(G, base, s, h)
        <3> HIDE DEF G
        <3> QED BY <1>0, <1>1, FoldExists
    <2>2. ASSUME NEW s \in SUBSET (1 .. n), s # {}
          PROVE  h[s] = ApplyAffair(h[s \ {Max(s)}], seq[Max(s)])
        BY <1>2, <2>1, <2>2 DEF FoldsAt
    <2>3. h[{}] = base
        BY <2>1 DEF FoldsAt
    <2>4. E(h)
        BY <2>2, <2>3
    <2> HIDE DEF E
    <2> QED BY <2>4
<1>4. E(it)
    BY <1>3
<1>5. AffairsApplied(base, seq) = it[1 .. n]
    BY <1>0, Zenon DEF AffairsApplied, FoldLeft, MapThenFoldSet
<1> HIDE DEF it
<1>6. ASSUME NEW s \in SUBSET (1 .. n), s # {}, it[s \ {Max(s)}] \in S
      PROVE  it[s] = G[<<Max(s), it[s \ {Max(s)}]>>]
    BY <1>2, <1>4, <1>6
<1>7. it[{}] = base
    BY <1>4
<1> HIDE DEF E, G
<1>8. PICK f \in [0 .. n -> S] : /\ f[0] = base /\ f[n] = it[1 .. n]
                                 /\ \A i \in 1 .. n : f[i] = G[<<i, f[i - 1]>>]
    <2>1. Recurs(n, S, base, G, it)
        BY <1>6, <1>7 DEF Recurs
    <2>2. Passes(n, S, base, G, it[1 .. n])
        BY <1>0, <1>1, <2>1, FoldChain
    <2> QED BY <2>2 DEF Passes
<1>9. \A i \in 1 .. n : f[i] = ApplyAffair(f[i - 1], seq[i])
    <2> TAKE i \in 1 .. n
    <2>1. <<i, f[i - 1]>> \in (1 .. n) \X S /\ f[i] = G[<<i, f[i - 1]>>]
        BY <1>0, <1>8
    <2> QED BY <2>1 DEF G
<1> QED BY <1>5, <1>8, <1>9 DEF AffairsPath, n

Undone(base, seq) == FoldLeft(Undo, base, seq)

UndoClosed(S, seq) ==
    /\ Len(seq) \in Nat /\ DOMAIN seq = 1 .. Len(seq)
    /\ \A st \in S : \A i \in 1 .. Len(seq) : Undo(st, seq[i]) \in S

UndoPath(S, base, seq, f) ==
    /\ f \in [0 .. Len(seq) -> S] /\ f[0] = base /\ f[Len(seq)] = Undone(base, seq)
    /\ \A i \in 1 .. Len(seq) : f[i] = Undo(f[i - 1], seq[i])

\* The same for the operations of a rollback.
LEMMA UndoUnfold ==
    ASSUME NEW S, NEW base \in S, NEW seq, UndoClosed(S, seq)
    PROVE  \E f : UndoPath(S, base, seq, f)
<1> DEFINE n == Len(seq)
<1>0. n \in Nat /\ DOMAIN seq = 1 .. n /\ \A st \in S : \A i \in 1 .. n : Undo(st, seq[i]) \in S
    BY DEF UndoClosed
<1> HIDE DEF n
<1> DEFINE E(h) == h = [s \in SUBSET (1 .. n) |->
                           IF s = {} THEN base ELSE Undo(h[s \ {Max(s)}], seq[Max(s)])]
           it == CHOOSE h : E(h)
           G == [p \in (1 .. n) \X S |-> Undo(p[2], seq[p[1]])]
<1>1. G \in [(1 .. n) \X S -> S]
    BY <1>0
<1>2. ASSUME NEW s \in SUBSET (1 .. n), s # {} PROVE Max(s) \in 1 .. n
    BY <1>0, <1>2, MaxIn
<1>3. \E h : E(h)
    <2>1. PICK h \in [SUBSET (1 .. n) -> S] : \A s \in SUBSET (1 .. n) : FoldsAt(G, base, s, h)
        <3> HIDE DEF G
        <3> QED BY <1>0, <1>1, FoldExists
    <2>2. ASSUME NEW s \in SUBSET (1 .. n), s # {}
          PROVE  h[s] = Undo(h[s \ {Max(s)}], seq[Max(s)])
        BY <1>2, <2>1, <2>2 DEF FoldsAt
    <2>3. h[{}] = base
        BY <2>1 DEF FoldsAt
    <2>4. E(h)
        BY <2>2, <2>3
    <2> HIDE DEF E
    <2> QED BY <2>4
<1>4. E(it)
    BY <1>3
<1>5. Undone(base, seq) = it[1 .. n]
    BY <1>0, Zenon DEF Undone, FoldLeft, MapThenFoldSet
<1> HIDE DEF it
<1>6. ASSUME NEW s \in SUBSET (1 .. n), s # {}, it[s \ {Max(s)}] \in S
      PROVE  it[s] = G[<<Max(s), it[s \ {Max(s)}]>>]
    BY <1>2, <1>4, <1>6
<1>7. it[{}] = base
    BY <1>4
<1> HIDE DEF E, G
<1>8. PICK f \in [0 .. n -> S] : /\ f[0] = base /\ f[n] = it[1 .. n]
                                 /\ \A i \in 1 .. n : f[i] = G[<<i, f[i - 1]>>]
    <2>1. Recurs(n, S, base, G, it)
        BY <1>6, <1>7 DEF Recurs
    <2>2. Passes(n, S, base, G, it[1 .. n])
        BY <1>0, <1>1, <2>1, FoldChain
    <2> QED BY <2>2 DEF Passes
<1>9. \A i \in 1 .. n : f[i] = Undo(f[i - 1], seq[i])
    <2> TAKE i \in 1 .. n
    <2>1. <<i, f[i - 1]>> \in (1 .. n) \X S /\ f[i] = G[<<i, f[i - 1]>>]
        BY <1>0, <1>8
    <2> QED BY <2>1 DEF G
<1> QED BY <1>5, <1>8, <1>9 DEF UndoPath, n

Credited(a, base, seq) == FoldLeft(LAMBDA accts, out : Credit(accts, a, out), base, seq)

CreditClosed(a, S, seq) ==
    /\ Len(seq) \in Nat /\ DOMAIN seq = 1 .. Len(seq)
    /\ \A st \in S : \A i \in 1 .. Len(seq) : Credit(st, a, seq[i]) \in S

CreditPath(a, S, base, seq, f) ==
    /\ f \in [0 .. Len(seq) -> S] /\ f[0] = base /\ f[Len(seq)] = Credited(a, base, seq)
    /\ \A i \in 1 .. Len(seq) : f[i] = Credit(f[i - 1], a, seq[i])

\* The same for the outputs of a transfer.
LEMMA CreditUnfold ==
    ASSUME NEW a, NEW S, NEW base \in S, NEW seq, CreditClosed(a, S, seq)
    PROVE  \E f : CreditPath(a, S, base, seq, f)
<1> DEFINE n == Len(seq)
<1>0. n \in Nat /\ DOMAIN seq = 1 .. n /\ \A st \in S : \A i \in 1 .. n : Credit(st, a, seq[i]) \in S
    BY DEF CreditClosed
<1> HIDE DEF n
<1> DEFINE E(h) == h = [s \in SUBSET (1 .. n) |->
                           IF s = {} THEN base ELSE Credit(h[s \ {Max(s)}], a, seq[Max(s)])]
           it == CHOOSE h : E(h)
           G == [p \in (1 .. n) \X S |-> Credit(p[2], a, seq[p[1]])]
<1>1. G \in [(1 .. n) \X S -> S]
    BY <1>0
<1>2. ASSUME NEW s \in SUBSET (1 .. n), s # {} PROVE Max(s) \in 1 .. n
    BY <1>0, <1>2, MaxIn
<1>3. \E h : E(h)
    <2>1. PICK h \in [SUBSET (1 .. n) -> S] : \A s \in SUBSET (1 .. n) : FoldsAt(G, base, s, h)
        <3> HIDE DEF G
        <3> QED BY <1>0, <1>1, FoldExists
    <2>2. ASSUME NEW s \in SUBSET (1 .. n), s # {}
          PROVE  h[s] = Credit(h[s \ {Max(s)}], a, seq[Max(s)])
        BY <1>2, <2>1, <2>2 DEF FoldsAt
    <2>3. h[{}] = base
        BY <2>1 DEF FoldsAt
    <2>4. E(h)
        BY <2>2, <2>3
    <2> HIDE DEF E
    <2> QED BY <2>4
<1>4. E(it)
    BY <1>3
<1>5. Credited(a, base, seq) = it[1 .. n]
    BY <1>0, Zenon DEF Credited, FoldLeft, MapThenFoldSet
<1> HIDE DEF it
<1>6. ASSUME NEW s \in SUBSET (1 .. n), s # {}, it[s \ {Max(s)}] \in S
      PROVE  it[s] = G[<<Max(s), it[s \ {Max(s)}]>>]
    BY <1>2, <1>4, <1>6
<1>7. it[{}] = base
    BY <1>4
<1> HIDE DEF E, G
<1>8. PICK f \in [0 .. n -> S] : /\ f[0] = base /\ f[n] = it[1 .. n]
                                 /\ \A i \in 1 .. n : f[i] = G[<<i, f[i - 1]>>]
    <2>1. Recurs(n, S, base, G, it)
        BY <1>6, <1>7 DEF Recurs
    <2>2. Passes(n, S, base, G, it[1 .. n])
        BY <1>0, <1>1, <2>1, FoldChain
    <2> QED BY <2>2 DEF Passes
<1>9. \A i \in 1 .. n : f[i] = Credit(f[i - 1], a, seq[i])
    <2> TAKE i \in 1 .. n
    <2>1. <<i, f[i - 1]>> \in (1 .. n) \X S /\ f[i] = G[<<i, f[i - 1]>>]
        BY <1>0, <1>8
    <2> QED BY <2>1 DEF G
<1> QED BY <1>5, <1>8, <1>9 DEF CreditPath, n

-----------------------------------------------------------------------------
(* Types *)

Maps(A, V) == UNION {[D -> V] : D \in SUBSET A}
AccountSet == [nonce : Uint64, balances : Maps(Assets, Uint64)]
AccountMaps == Maps(Addresses, AccountSet)
RopTypes == {"DELETE_ACCOUNT", "UPDATE_ADD", "UPDATE_DELETE_ASSET", "UPDATE_REDUCE", "ONLY_REDUCE_NONCE"}
AssetRops == [type : RopTypes, target : Addresses, asset : Assets, value : Uint64]
NonceRops == [type : {"DELETE_ACCOUNT", "ONLY_REDUCE_NONCE"}, target : Addresses, asset : {0}, value : {0}]
Rops == AssetRops \cup NonceRops
ApplyStates == [accounts : AccountMaps, ops : Seq(Rops), filter : SUBSET Assets,
                touched : SUBSET Addresses, ok : BOOLEAN]
UndoStates == [accounts : AccountMaps, ok : BOOLEAN]

\* A map is a function of its domain with values in V.
LEMMA MapIs ==
    ASSUME NEW A, NEW V, NEW f
    PROVE  f \in Maps(A, V) <=> /\ f = [x \in DOMAIN f |-> f[x]] /\ DOMAIN f \subseteq A
                                /\ \A x \in DOMAIN f : f[x] \in V
<1>1. ASSUME f \in Maps(A, V) PROVE f = [x \in DOMAIN f |-> f[x]] /\ DOMAIN f \subseteq A
                                    /\ \A x \in DOMAIN f : f[x] \in V
    BY <1>1 DEF Maps
<1>2. ASSUME f = [x \in DOMAIN f |-> f[x]], DOMAIN f \subseteq A, \A x \in DOMAIN f : f[x] \in V
      PROVE  f \in Maps(A, V)
    <2>1. f \in [DOMAIN f -> V]
        BY <1>2
    <2> QED BY <1>2, <2>1 DEF Maps
<1> QED BY <1>1, <1>2

\* Put and Without keep the type of a map.
LEMMA PutMap ==
    ASSUME NEW A, NEW V, NEW f \in Maps(A, V), NEW k \in A, NEW v \in V
    PROVE  /\ Put(f, k, v) \in Maps(A, V) /\ DOMAIN Put(f, k, v) = DOMAIN f \cup {k}
           /\ Put(f, k, v)[k] = v /\ \A x \in DOMAIN f \ {k} : Put(f, k, v)[x] = f[x]
<1>1. DOMAIN f \subseteq A /\ \A x \in DOMAIN f : f[x] \in V
    BY MapIs
<1>2. /\ DOMAIN Put(f, k, v) = DOMAIN f \cup {k} /\ Put(f, k, v)[k] = v
      /\ \A x \in DOMAIN f \ {k} : Put(f, k, v)[x] = f[x]
    BY DEF Put
<1>3. Put(f, k, v) = [x \in DOMAIN Put(f, k, v) |-> Put(f, k, v)[x]]
    BY <1>2 DEF Put
<1>4. \A x \in DOMAIN Put(f, k, v) : Put(f, k, v)[x] \in V
    BY <1>1, <1>2
<1>5. DOMAIN Put(f, k, v) \subseteq A
    BY <1>1, <1>2
<1>6. Put(f, k, v) \in Maps(A, V)
    BY <1>3, <1>4, <1>5, MapIs
<1> QED BY <1>2, <1>6

\* Removing an entry gives a map.
LEMMA WithoutMap ==
    ASSUME NEW A, NEW V, NEW f \in Maps(A, V), NEW k
    PROVE  /\ Without(f, k) \in Maps(A, V) /\ DOMAIN Without(f, k) = DOMAIN f \ {k}
           /\ \A x \in DOMAIN f \ {k} : Without(f, k)[x] = f[x]
<1>1. DOMAIN f \subseteq A /\ \A x \in DOMAIN f : f[x] \in V
    BY MapIs
<1>2. /\ DOMAIN Without(f, k) = DOMAIN f \ {k}
      /\ \A x \in DOMAIN f \ {k} : Without(f, k)[x] = f[x]
    BY DEF Without
<1>3. Without(f, k) = [x \in DOMAIN Without(f, k) |-> Without(f, k)[x]]
    BY <1>2 DEF Without
<1>4. \A x \in DOMAIN Without(f, k) : Without(f, k)[x] \in V
    BY <1>1, <1>2
<1>5. DOMAIN Without(f, k) \subseteq A
    BY <1>1, <1>2
<1>6. Without(f, k) \in Maps(A, V)
    BY <1>3, <1>4, <1>5, MapIs
<1> QED BY <1>2, <1>6

\* The empty map is one.
LEMMA NothingMap == ASSUME NEW A, NEW V PROVE Nothing \in Maps(A, V) /\ DOMAIN Nothing = {}
<1>1. Nothing = [x \in DOMAIN Nothing |-> Nothing[x]] /\ DOMAIN Nothing = {}
    BY DEF Nothing
<1> QED BY <1>1, MapIs

-----------------------------------------------------------------------------
(* Accounts *)

\* Every operation on an account gives an account: amounts and nonces wrap.
LEMMA Wraps ==
    /\ 0 \in Uint64 /\ 1 \in Uint64 /\ AssetMax \in Uint64 /\ Uint64 \subseteq Nat
    /\ \A n \in Int : n % Wrap \in Uint64
BY AmountAssumption DEF Uint64

\* The operations of account.cpp give accounts.
LEMMA AccountOps ==
    ASSUME NEW act \in AccountSet, NEW a \in Assets, NEW n \in Uint64, NEW m \in Int
    PROVE  /\ add_balance(act, a, n) \in AccountSet
           /\ can_reduce(act, a, n) => reduce_balance(act, a, n) \in AccountSet
           /\ set_nonce(act, m) \in AccountSet
           /\ set_balance(act, a, n) \in AccountSet
           /\ delete_asset(act, a) \in AccountSet
           /\ get_balance(act, a) \in Uint64
           /\ act.nonce \in Uint64
<1>1. act.balances \in Maps(Assets, Uint64) /\ act.nonce \in Uint64
    BY DEF AccountSet
<1>2. ASSUME NEW f \in Maps(Assets, Uint64) PROVE [act EXCEPT !.balances = f] \in AccountSet
    BY DEF AccountSet
<1>3. get_balance(act, a) \in Uint64
    BY <1>1, MapIs, Wraps DEF get_balance
<1>4. add_balance(act, a, n) \in AccountSet
    <2>3. get_balance(act, a) + n \in Int
        BY <1>3, AmountAssumption DEF Uint64
    <2>1. (get_balance(act, a) + n) % Wrap \in Uint64
        BY <2>3, Wraps
    <2>2. Put(act.balances, a, (get_balance(act, a) + n) % Wrap) \in Maps(Assets, Uint64)
        BY <1>1, <2>1, PutMap
    <2> QED BY <1>2, <2>2 DEF add_balance
<1>5. ASSUME can_reduce(act, a, n) PROVE reduce_balance(act, a, n) \in AccountSet
    <2>1. a \in DOMAIN act.balances /\ act.balances[a] >= n
        BY <1>5 DEF can_reduce
    <2>2. act.balances[a] \in Uint64
        BY <1>1, <2>1, MapIs
    <2>3. act.balances[a] - n \in Uint64
        BY <2>1, <2>2, AmountAssumption DEF Uint64
    <2>4. Put(act.balances, a, act.balances[a] - n) \in Maps(Assets, Uint64)
        BY <1>1, <2>3, PutMap
    <2>5. Without(act.balances, a) \in Maps(Assets, Uint64)
        BY <1>1, WithoutMap
    <2> QED BY <1>2, <2>4, <2>5 DEF reduce_balance
<1>6. set_nonce(act, m) \in AccountSet
    BY Wraps DEF set_nonce, AccountSet
<1>7. set_balance(act, a, n) \in AccountSet
    BY <1>1, <1>2, PutMap, WithoutMap DEF set_balance
<1>8. delete_asset(act, a) \in AccountSet
    BY <1>1, <1>2, WithoutMap DEF delete_asset
<1> QED BY <1>1, <1>3, <1>4, <1>5, <1>6, <1>7, <1>8

\* A new account is one.
LEMMA NewAccountType == ASSUME NEW n \in Uint64 PROVE NewAccount(n) \in AccountSet
BY NothingMap DEF NewAccount, AccountSet

\* Putting an account into an account map gives one.
LEMMA PutAccount ==
    ASSUME NEW f \in AccountMaps, NEW x \in Addresses, NEW act \in AccountSet
    PROVE  /\ Put(f, x, act) \in AccountMaps /\ DOMAIN Put(f, x, act) = DOMAIN f \cup {x}
           /\ \A y \in DOMAIN f \ {x} : Put(f, x, act)[y] = f[y]
BY PutMap DEF AccountMaps

-----------------------------------------------------------------------------
(* Rolling back *)

\* A rollback operation gives an account map.
LEMMA UndoType ==
    ASSUME NEW st \in UndoStates, NEW op \in Rops
    PROVE  Undo(st, op) \in UndoStates
<1> DEFINE x == op.target
           act == st.accounts[x]
           back(new) == [st EXCEPT !.accounts[x] = new]
<1>1. st.accounts \in AccountMaps /\ st.ok \in BOOLEAN /\ x \in Addresses /\ op.type \in RopTypes
    BY DEF UndoStates, Rops, AssetRops, NonceRops, RopTypes
<1>2. ASSUME NEW f \in AccountMaps PROVE [st EXCEPT !.accounts = f] \in UndoStates
    BY DEF UndoStates
<1>3. CASE ~st.ok \/ x \notin DOMAIN st.accounts
    BY <1>3, Zenon DEF Undo
<1>4. CASE st.ok /\ x \in DOMAIN st.accounts
    <2>1. act \in AccountSet
        BY <1>1, <1>4, MapIs DEF AccountMaps
    <2>2. ASSUME NEW new \in AccountSet PROVE back(new) \in UndoStates
        <3>1. [st.accounts EXCEPT ![x] = new] \in AccountMaps
            <4> DEFINE f == [st.accounts EXCEPT ![x] = new]
            <4>1. st.accounts = [y \in DOMAIN st.accounts |-> st.accounts[y]]
                  /\ DOMAIN st.accounts \subseteq Addresses
                  /\ \A y \in DOMAIN st.accounts : st.accounts[y] \in AccountSet
                BY <1>1, MapIs DEF AccountMaps
            <4>2. f = [y \in DOMAIN f |-> f[y]] /\ DOMAIN f \subseteq Addresses
                  /\ \A y \in DOMAIN f : f[y] \in AccountSet
                BY <4>1
            <4> QED BY <4>2, MapIs DEF AccountMaps
        <3>2. back(new) = [st EXCEPT !.accounts = [st.accounts EXCEPT ![x] = new]]
            OBVIOUS
        <3> QED BY <1>2, <3>1, <3>2
    <2>3. act.nonce - 1 \in Int
        BY <2>1, AmountAssumption DEF AccountSet, Uint64
    <2>4. CASE op.type = "DELETE_ACCOUNT"
        <3>1. Without(st.accounts, x) \in AccountMaps
            BY <1>1, WithoutMap DEF AccountMaps
        <3>2. Undo(st, op) = [st EXCEPT !.accounts = Without(st.accounts, x)]
            BY <1>4, <2>4 DEF Undo
        <3> QED BY <1>2, <3>1, <3>2
    <2>5. CASE op.type = "ONLY_REDUCE_NONCE"
        <3>1. Undo(st, op) = back(set_nonce(act, act.nonce - 1))
            BY <1>4, <2>5 DEF Undo
        <3> QED BY <2>1, <2>2, <2>3, <3>1, Wraps DEF set_nonce, AccountSet
    <2>6. ASSUME op.type \in {"UPDATE_ADD", "UPDATE_DELETE_ASSET", "UPDATE_REDUCE"}
          PROVE  op.asset \in Assets /\ op.value \in Uint64
        BY <2>6 DEF Rops, AssetRops, NonceRops
    <2>7. CASE op.type = "UPDATE_ADD"
        <3>1. add_balance(act, op.asset, op.value) \in AccountSet
            BY <2>1, <2>3, <2>6, <2>7, AccountOps
        <3>2. set_nonce(add_balance(act, op.asset, op.value), act.nonce - 1) \in AccountSet
            BY <2>3, <2>6, <2>7, <3>1, AccountOps
        <3>3. Undo(st, op) = back(set_nonce(add_balance(act, op.asset, op.value), act.nonce - 1))
            BY <1>4, <2>7 DEF Undo
        <3> QED BY <2>2, <3>2, <3>3
    <2>8. CASE op.type = "UPDATE_DELETE_ASSET"
        <3>1. delete_asset(act, op.asset) \in AccountSet
            BY <2>1, <2>3, <2>6, <2>8, AccountOps
        <3>2. set_nonce(delete_asset(act, op.asset), act.nonce - 1) \in AccountSet
            BY <2>3, <2>6, <2>8, <3>1, AccountOps
        <3>3. Undo(st, op) = back(set_nonce(delete_asset(act, op.asset), act.nonce - 1))
            BY <1>4, <2>8 DEF Undo
        <3> QED BY <2>2, <3>2, <3>3
    <2>9. CASE op.type = "UPDATE_REDUCE"
        <3>1. CASE can_reduce(act, op.asset, op.value)
            <4>1. reduce_balance(act, op.asset, op.value) \in AccountSet
                BY <2>1, <2>3, <2>6, <2>9, <3>1, AccountOps
            <4>2. Undo(st, op) = back(reduce_balance(act, op.asset, op.value))
                BY <1>4, <2>9, <3>1 DEF Undo
            <4> QED BY <2>2, <4>1, <4>2
        <3>2. CASE ~can_reduce(act, op.asset, op.value)
            <4>1. Undo(st, op) = [st EXCEPT !.ok = FALSE]
                BY <1>4, <2>9, <3>2 DEF Undo
            <4> QED BY <1>1, <4>1 DEF UndoStates
        <3> QED BY <3>1, <3>2
    <2> QED BY <1>1, <2>4, <2>5, <2>7, <2>8, <2>9 DEF RopTypes
<1> QED BY <1>1, <1>3, <1>4

\* So does a whole rollback.
LEMMA RollbackType ==
    ASSUME NEW ops \in Seq(Rops), NEW accts \in AccountMaps
    PROVE  execute_rollback(ops, accts) \in UndoStates
<1> DEFINE base == [accounts |-> accts, ok |-> TRUE]
<1>1. base \in UndoStates
    BY DEF UndoStates
<1>2. Len(ops) \in Nat /\ DOMAIN ops = 1 .. Len(ops) /\ \A i \in 1 .. Len(ops) : ops[i] \in Rops
    OBVIOUS
<1>3. UndoClosed(UndoStates, ops)
    BY <1>2, UndoType DEF UndoClosed
<1> HIDE DEF base
<1>4. PICK f : UndoPath(UndoStates, base, ops, f)
    BY <1>1, <1>3, UndoUnfold
<1>5. Undone(base, ops) \in UndoStates
    BY <1>2, <1>4 DEF UndoPath
<1>6. execute_rollback(ops, accts) = Undone(base, ops)
    BY Zenon DEF execute_rollback, Undone, base
<1> QED BY <1>5, <1>6

-----------------------------------------------------------------------------
(* Applying a block *)

OutSet == [receiver : Addresses, count : Uint64]

\* The outputs of a transfer have a receiver and an amount.
LEMMA OutsAre ==
    ASSUME NEW outs \in Outs
    PROVE  /\ Len(outs) \in Nat /\ DOMAIN outs = 1 .. Len(outs)
           /\ \A i \in 1 .. Len(outs) : outs[i] \in OutSet
<1>1. outs \in Seq(OutSet)
    BY Zenon DEF Outs, OutSet
<1> QED BY <1>1

\* Crediting an output gives an account map with the receiver in it.
LEMMA CreditType ==
    ASSUME NEW a \in Assets, NEW accts \in AccountMaps, NEW out \in OutSet
    PROVE  /\ Credit(accts, a, out) \in AccountMaps
           /\ DOMAIN Credit(accts, a, out) = DOMAIN accts \cup {out.receiver}
           /\ \A x \in DOMAIN accts \ {out.receiver} : Credit(accts, a, out)[x] = accts[x]
<1> DEFINE x == out.receiver
           act == IF x \in DOMAIN accts THEN accts[x] ELSE NewAccount(0)
<1>1. x \in Addresses /\ out.count \in Uint64
    BY DEF OutSet
<1>2. act \in AccountSet
    <2>1. x \in DOMAIN accts => accts[x] \in AccountSet
        BY MapIs DEF AccountMaps
    <2>2. NewAccount(0) \in AccountSet
        BY NewAccountType, Wraps
    <2> QED BY <2>1, <2>2
<1> HIDE DEF act
<1> DEFINE new == add_balance(act, a, out.count)
<1>3. new \in AccountSet
    <2>1. 0 \in Int
        OBVIOUS
    <2> QED BY <1>1, <1>2, <2>1, AccountOps
<1>4. Credit(accts, a, out) = Put(accts, x, new)
    BY DEF Credit, act
<1> HIDE DEF x, new
<1>5. /\ Put(accts, x, new) \in AccountMaps /\ DOMAIN Put(accts, x, new) = DOMAIN accts \cup {x}
      /\ \A y \in DOMAIN accts \ {x} : Put(accts, x, new)[y] = accts[y]
    BY <1>1, <1>3, PutAccount
<1> QED BY <1>4, <1>5 DEF x

\* The outputs of a transfer change only the accounts of its receivers.
LEMMA CreditedType ==
    ASSUME NEW a \in Assets, NEW base \in AccountMaps, NEW outs \in Outs
    PROVE  LET to == {outs[i].receiver : i \in 1 .. Len(outs)}
           IN  /\ Credited(a, base, outs) \in AccountMaps
               /\ DOMAIN Credited(a, base, outs) = DOMAIN base \cup to
               /\ \A x \in DOMAIN base \ to : Credited(a, base, outs)[x] = base[x]
<1> DEFINE n == Len(outs)
           to(k) == {outs[i].receiver : i \in 1 .. k}
<1>1. n \in Nat /\ DOMAIN outs = 1 .. n /\ \A i \in 1 .. n : outs[i] \in OutSet
    BY OutsAre
<1>2. CreditClosed(a, AccountMaps, outs)
    BY <1>1, CreditType DEF CreditClosed
<1>3. PICK f : CreditPath(a, AccountMaps, base, outs, f)
    BY <1>2, CreditUnfold
<1>4. /\ f \in [0 .. n -> AccountMaps] /\ f[0] = base /\ f[n] = Credited(a, base, outs)
      /\ \A i \in 1 .. n : f[i] = Credit(f[i - 1], a, outs[i])
    BY <1>3 DEF CreditPath
<1> HIDE DEF n
<1> DEFINE Good(k) == /\ DOMAIN f[k] = DOMAIN base \cup to(k)
                      /\ \A x \in DOMAIN base \ to(k) : f[k][x] = base[x]
           P == {k \in 0 .. n : Good(k)}
<1>5. 0 \in P
    <2>1. to(0) = {}
        OBVIOUS
    <2> QED BY <1>1, <1>4, <2>1
<1>6. ASSUME NEW i \in 1 .. n, i - 1 \in P PROVE i \in P
    <2>1. f[i - 1] \in AccountMaps /\ f[i] = Credit(f[i - 1], a, outs[i]) /\ Good(i - 1)
        BY <1>1, <1>4, <1>6
    <2>2. /\ DOMAIN f[i] = DOMAIN f[i - 1] \cup {outs[i].receiver}
          /\ \A x \in DOMAIN f[i - 1] \ {outs[i].receiver} : f[i][x] = f[i - 1][x]
        <3> DEFINE g == f[i - 1]
                   out == outs[i]
        <3>1. g \in AccountMaps /\ out \in OutSet /\ f[i] = Credit(g, a, out)
            BY <1>1, <2>1
        <3> HIDE DEF g, out
        <3>2. /\ DOMAIN Credit(g, a, out) = DOMAIN g \cup {out.receiver}
              /\ \A x \in DOMAIN g \ {out.receiver} : Credit(g, a, out)[x] = g[x]
            BY ONLY a \in Assets, <3>1, CreditType
        <3> QED BY <3>1, <3>2 DEF g, out
    <2>3. to(i) = to(i - 1) \cup {outs[i].receiver}
        <3>1. \A k \in 1 .. i : k \in 1 .. (i - 1) \/ k = i
            BY <1>1
        <3>2. i \in 1 .. i /\ \A k \in 1 .. (i - 1) : k \in 1 .. i
            BY <1>1
        <3> QED BY <3>1, <3>2
    <2> HIDE DEF to
    <2>4. Good(i)
        BY <2>1, <2>2, <2>3
    <2> HIDE DEF Good
    <2> QED BY <2>4
<1> HIDE DEF P
<1>7. n \in P
    <2>1. \A k \in 0 .. n : k \in P
        BY <1>1, <1>5, <1>6, Induction
    <2> QED BY <1>1, <2>1
<1>8. Good(n) /\ f[n] \in AccountMaps
    BY <1>1, <1>4, <1>7 DEF P
<1> QED BY <1>4, <1>8 DEF n

\* Memory agrees with the accounts before the block but for the touched ones.
Agrees(accts, st) ==
    /\ DOMAIN st.accounts = DOMAIN accts \cup st.touched
    /\ \A x \in DOMAIN accts \ st.touched : st.accounts[x] = accts[x]

\* append_created_rollback writes rollback operations.
LEMMA RollbackOps ==
    ASSUME NEW t \in Transactions, NEW accts
    PROVE  RollbackOfTransaction(t, accts) \in Seq(Rops)
<1>1. /\ t.sender \in Addresses /\ t.asset \in Assets /\ t.count \in Uint64
      /\ t.outs \in Outs /\ t.op \in Operators
    BY DEF Transactions
<1>2. ASSUME NEW type \in RopTypes, NEW x \in Addresses, NEW n \in Uint64
      PROVE  Rop(type, x, t.asset, n) \in Rops
    BY <1>1 DEF Rop, Rops, AssetRops
<1>3. CASE t.op = "Append"
    <2> DEFINE to == [i \in 1 .. Len(t.outs) |->
               Rop(IF t.outs[i].receiver \in DOMAIN accts THEN "UPDATE_REDUCE" ELSE "DELETE_ACCOUNT",
                   t.outs[i].receiver, t.asset, t.outs[i].count)]
               from == Rop("UPDATE_ADD", t.sender, t.asset, t.count)
    <2>1. to \in Seq(Rops)
        <3>1. Len(t.outs) \in Nat /\ \A i \in 1 .. Len(t.outs) : t.outs[i] \in OutSet
            BY <1>1, OutsAre
        <3>2. ASSUME NEW i \in 1 .. Len(t.outs) PROVE to[i] \in Rops
            BY <1>2, <3>1 DEF RopTypes, OutSet
        <3>3. to \in [1 .. Len(t.outs) -> Rops]
            BY <3>2
        <3> QED BY <3>1, <3>3
    <2>2. from \in Rops
        BY <1>1, <1>2 DEF RopTypes
    <2> HIDE DEF to, from
    <2>3. <<from>> \o to \in Seq(Rops)
        BY <2>1, <2>2
    <2> QED BY <1>3, <2>3 DEF RollbackOfTransaction, to, from
<1>4. CASE t.op = "Establish"
    <2> DEFINE r == Rop(IF t.sender \in DOMAIN accts THEN "UPDATE_DELETE_ASSET" ELSE "DELETE_ACCOUNT",
                        t.sender, t.asset, t.count)
    <2>1. r \in Rops
        BY <1>1, <1>2 DEF RopTypes
    <2>2. RollbackOfTransaction(t, accts) = <<r>>
        BY <1>4 DEF RollbackOfTransaction
    <2> QED BY <2>1, <2>2
<1>5. CASE t.op = "NullOP"
    BY <1>5 DEF RollbackOfTransaction
<1> QED BY <1>1, <1>3, <1>4, <1>5 DEF Operators

\* A state of the application is made of its parts ...
LEMMA StateIs ==
    ASSUME NEW accts \in AccountMaps, NEW ops \in Seq(Rops), NEW filter \in SUBSET Assets,
           NEW touched \in SUBSET Addresses, NEW ok \in BOOLEAN
    PROVE  /\ ApplyState(accts, ops, filter, touched, ok) \in ApplyStates
           /\ ApplyState(accts, ops, filter, touched, ok).accounts = accts
           /\ ApplyState(accts, ops, filter, touched, ok).ops = ops
           /\ ApplyState(accts, ops, filter, touched, ok).filter = filter
           /\ ApplyState(accts, ops, filter, touched, ok).touched = touched
           /\ ApplyState(accts, ops, filter, touched, ok).ok = ok
BY DEF ApplyState, ApplyStates

\* ... and has parts of the right type.
LEMMA StateFields ==
    ASSUME NEW st \in ApplyStates
    PROVE  /\ st.accounts \in AccountMaps /\ st.ops \in Seq(Rops) /\ st.filter \in SUBSET Assets
           /\ st.touched \in SUBSET Addresses /\ st.ok \in BOOLEAN
BY DEF ApplyStates

\* What a step of the application keeps: the type; where it succeeds, agreement with
\* the accounts before the block and the assets of the filter.
Keeps(st, new) ==
    /\ new \in ApplyStates /\ st.filter \subseteq new.filter
    /\ new.ok => st.ok /\ \A accts : Agrees(accts, st) => Agrees(accts, new)

\* Applying a transfer touches every account it changes.
LEMMA AppendKeeps ==
    ASSUME NEW st \in ApplyStates, NEW t \in Transactions, st.ok
    PROVE  Keeps(st, ApplyAppend(st, t))
<1> DEFINE s == t.sender
           ops == st.ops \o RollbackOfTransaction(t, st.accounts)
           ok == s \in DOMAIN st.accounts /\ can_reduce(st.accounts[s], t.asset, t.count)
           payer == SenderAfter(st.accounts[s], t)
           paid == Put(st.accounts, s, payer)
           credited == Credited(t.asset, paid, t.outs)
           same == set_balance(st.accounts[s], t.asset, get_balance(st.accounts[s], t.asset))
           restored == IF s \notin DOMAIN st.accounts THEN st.accounts ELSE Put(st.accounts, s, same)
           touched == st.touched \cup Touched(t)
           after == IF ok THEN credited ELSE restored
<1>1. /\ s \in Addresses /\ t.asset \in Assets /\ t.count \in Uint64 /\ t.outs \in Outs
      /\ t.nonce \in Uint64
    BY DEF Transactions
<1>2. /\ st.accounts \in AccountMaps /\ st.ops \in Seq(Rops) /\ st.filter \in SUBSET Assets
      /\ st.touched \in SUBSET Addresses
    BY StateFields
<1>3. ApplyAppend(st, t) = ApplyState(after, ops, st.filter, touched, ok)
    BY Zenon DEF ApplyAppend, Credited
<1>4. ops \in Seq(Rops)
    BY <1>2, RollbackOps
<1>5. touched \in SUBSET Addresses
    <2>1. \A i \in 1 .. Len(t.outs) : t.outs[i].receiver \in Addresses
        BY <1>1, OutsAre DEF OutSet
    <2> QED BY <1>1, <1>2, <2>1 DEF Touched, Receivers
<1>6. ok \in BOOLEAN
    BY Zenon DEF can_reduce
<1>7. s \in DOMAIN st.accounts => st.accounts[s] \in AccountSet
    BY <1>2, MapIs DEF AccountMaps
<1>8. t.nonce + 1 \in Int
    BY <1>1, AmountAssumption DEF Uint64
<1>9. restored \in AccountMaps
    <2>1. CASE s \in DOMAIN st.accounts
        <3>1. get_balance(st.accounts[s], t.asset) \in Uint64
            BY <1>1, <1>7, <1>8, <2>1, AccountOps
        <3>2. same \in AccountSet
            BY <1>1, <1>7, <1>8, <2>1, <3>1, AccountOps
        <3> HIDE DEF same
        <3>3. Put(st.accounts, s, same) \in AccountMaps
            BY <1>1, <1>2, <3>2, PutAccount
        <3> QED BY <2>1, <3>3
    <2>2. CASE s \notin DOMAIN st.accounts
        BY <1>2, <2>2
    <2> QED BY <2>1, <2>2
<1>10. ASSUME ok
       PROVE  /\ credited \in AccountMaps /\ DOMAIN credited = DOMAIN st.accounts \cup Touched(t)
              /\ \A x \in DOMAIN st.accounts \ Touched(t) : credited[x] = st.accounts[x]
    <2>1. payer \in AccountSet
        <3>1. reduce_balance(st.accounts[s], t.asset, t.count) \in AccountSet
            BY <1>1, <1>7, <1>8, <1>10, AccountOps
        <3> QED BY <1>1, <1>8, <3>1, AccountOps DEF SenderAfter
    <2> HIDE DEF payer
    <2>2. /\ paid \in AccountMaps /\ DOMAIN paid = DOMAIN st.accounts \cup {s}
          /\ \A x \in DOMAIN st.accounts \ {s} : paid[x] = st.accounts[x]
        BY <1>1, <1>2, <2>1, PutAccount
    <2> HIDE DEF paid
    <2>3. /\ credited \in AccountMaps /\ DOMAIN credited = DOMAIN paid \cup Receivers(t)
          /\ \A x \in DOMAIN paid \ Receivers(t) : credited[x] = paid[x]
        BY <1>1, <2>2, CreditedType DEF Receivers
    <2> HIDE DEF credited
    <2> QED BY <2>2, <2>3 DEF Touched
<1>11. after \in AccountMaps
    BY <1>9, <1>10
<1> DEFINE new == ApplyState(after, ops, st.filter, touched, ok)
<1>12. /\ new \in ApplyStates /\ new.accounts = after /\ new.filter = st.filter
       /\ new.touched = touched /\ new.ok = ok
    <2> HIDE DEF after, ops, touched, ok
    <2> QED BY <1>2, <1>4, <1>5, <1>6, <1>11, StateIs
<1> HIDE DEF new
<1>13. ASSUME new.ok, NEW accts, Agrees(accts, st) PROVE Agrees(accts, new)
    <2>1. ok
        BY <1>12, <1>13
    <2>2. after = credited
        BY <2>1
    <2> HIDE DEF after, credited, ok
    <2>3. new.accounts = credited /\ new.touched = st.touched \cup Touched(t)
        BY <1>12, <2>2
    <2> QED BY <1>10, <1>13, <2>1, <2>3 DEF Agrees
<1>14. Keeps(st, new)
    BY <1>12, <1>13 DEF Keeps
<1> QED BY <1>3, <1>14 DEF new

\* So does establishing an asset, which the filter then knows ...
LEMMA EstablishKeeps ==
    ASSUME NEW st \in ApplyStates, NEW t \in Transactions, st.ok, t.op = "Establish"
    PROVE  /\ Keeps(st, ApplyEstablish(st, t))
           /\ ApplyEstablish(st, t).ok => t.asset \in ApplyEstablish(st, t).filter
<1> DEFINE s == t.sender
           act == IF s \in DOMAIN st.accounts THEN st.accounts[s] ELSE NewAccount(1)
           holder == add_balance(act, t.asset, AssetMax)
           after == Put(st.accounts, s, holder)
           ops == st.ops \o RollbackOfTransaction(t, st.accounts)
           filter == st.filter \cup {t.asset}
           touched == st.touched \cup {s}
           new == ApplyState(after, ops, filter, touched, TRUE)
<1>1. s \in Addresses /\ t.asset \in Assets /\ t.outs \in Outs
    BY DEF Transactions
<1>2. /\ st.accounts \in AccountMaps /\ st.ops \in Seq(Rops) /\ st.filter \in SUBSET Assets
      /\ st.touched \in SUBSET Addresses
    BY StateFields
<1>3. CASE t.asset \in st.filter
    <2>1. ApplyEstablish(st, t) = [st EXCEPT !.ok = FALSE]
        BY <1>3 DEF ApplyEstablish
    <2>2. [st EXCEPT !.ok = FALSE] \in ApplyStates /\ [st EXCEPT !.ok = FALSE].filter = st.filter
          /\ ~[st EXCEPT !.ok = FALSE].ok
        BY DEF ApplyStates
    <2> QED BY <2>1, <2>2 DEF Keeps
<1>4. CASE t.asset \notin st.filter
    <2>1. ApplyEstablish(st, t) = new
        BY <1>4, Zenon DEF ApplyEstablish
    <2>2. touched \in SUBSET Addresses
        BY <1>1, <1>2
    <2>3. act \in AccountSet
        <3>1. s \in DOMAIN st.accounts => st.accounts[s] \in AccountSet
            BY <1>2, MapIs DEF AccountMaps
        <3>2. NewAccount(1) \in AccountSet
            BY NewAccountType, Wraps
        <3> QED BY <3>1, <3>2
    <2> HIDE DEF act
    <2>4. holder \in AccountSet
        <3>1. AssetMax \in Uint64 /\ 0 \in Int
            BY Wraps
        <3> QED BY <1>1, <2>3, <3>1, AccountOps
    <2> HIDE DEF holder
    <2>5. /\ after \in AccountMaps /\ DOMAIN after = DOMAIN st.accounts \cup {s}
          /\ \A x \in DOMAIN st.accounts \ {s} : after[x] = st.accounts[x]
        BY <1>1, <1>2, <2>4, PutAccount
    <2>6. ops \in Seq(Rops)
        BY <1>2, RollbackOps
    <2>7. filter \in SUBSET Assets
        BY <1>1, <1>2
    <2>8. /\ new \in ApplyStates /\ new.accounts = after /\ new.filter = filter
          /\ new.touched = touched /\ new.ok
        <3> HIDE DEF after, ops, filter, touched
        <3> QED BY <1>2, <2>2, <2>5, <2>6, <2>7 DEF ApplyState, ApplyStates
    <2> HIDE DEF new
    <2>9. ASSUME NEW accts, Agrees(accts, st) PROVE Agrees(accts, new)
        <3> HIDE DEF after
        <3> QED BY <2>5, <2>8, <2>9 DEF Agrees
    <2>10. Keeps(st, new) /\ t.asset \in new.filter
        BY <2>8, <2>9 DEF Keeps
    <2> QED BY <2>1, <2>10
<1> QED BY <1>3, <1>4

\* ... so any transaction ...
LEMMA TransactionKeeps ==
    ASSUME NEW st \in ApplyStates, NEW t \in Transactions
    PROVE  /\ Keeps(st, ApplyTransaction(st, t))
           /\ ApplyTransaction(st, t).ok /\ t.op = "Establish" =>
                  t.asset \in ApplyTransaction(st, t).filter
<1>1. Keeps(st, st)
    BY DEF Keeps
<1>2. CASE ~st.ok
    <2>1. ApplyTransaction(st, t) = st
        BY <1>2 DEF ApplyTransaction
    <2> QED BY <1>1, <1>2, <2>1
<1>3. CASE st.ok /\ t.op = "Append"
    <2>1. ApplyTransaction(st, t) = ApplyAppend(st, t)
        BY <1>3 DEF ApplyTransaction
    <2> QED BY <1>3, <2>1, AppendKeeps
<1>4. CASE st.ok /\ t.op = "Establish"
    <2>1. ApplyTransaction(st, t) = ApplyEstablish(st, t)
        BY <1>4 DEF ApplyTransaction
    <2> QED BY <1>4, <2>1, EstablishKeeps
<1>5. CASE st.ok /\ t.op \notin {"Append", "Establish"}
    <2>1. ApplyTransaction(st, t) = st
        BY <1>5 DEF ApplyTransaction
    <2> QED BY <1>1, <1>5, <2>1
<1> QED BY <1>2, <1>3, <1>4, <1>5

\* ... and an affair.
LEMMA AffairKeeps ==
    ASSUME NEW st \in ApplyStates, NEW air \in Affairs
    PROVE  Keeps(st, ApplyAffair(st, air))
<1> DEFINE x == air.owner
           old == st.accounts[x]
           act == IF x \in DOMAIN st.accounts THEN set_nonce(old, old.nonce + 1) ELSE NewAccount(1)
           after == Put(st.accounts, x, act)
           op == Rop(IF x \in DOMAIN st.accounts THEN "ONLY_REDUCE_NONCE" ELSE "DELETE_ACCOUNT", x, 0, 0)
           ops == st.ops \o <<op>>
           touched == st.touched \cup {x}
           new == ApplyState(after, ops, st.filter, touched, TRUE)
<1>1. x \in Addresses
    BY DEF Affairs
<1>2. /\ st.accounts \in AccountMaps /\ st.ops \in Seq(Rops) /\ st.filter \in SUBSET Assets
      /\ st.touched \in SUBSET Addresses
    BY StateFields
<1>3. CASE ~st.ok \/ ~is_db_level_affair_type(air)
    <2>1. ApplyAffair(st, air) = st
        BY <1>3, Zenon DEF ApplyAffair
    <2> QED BY <2>1 DEF Keeps
<1>4. CASE st.ok /\ is_db_level_affair_type(air)
    <2>1. ApplyAffair(st, air) = new
        BY <1>4, Zenon DEF ApplyAffair, RollbackOfAffair
    <2>2. act \in AccountSet
        <3>1. ASSUME x \in DOMAIN st.accounts PROVE set_nonce(old, old.nonce + 1) \in AccountSet
            <4>1. old \in AccountSet
                BY <1>2, <3>1, MapIs DEF AccountMaps
            <4>2. old.nonce + 1 \in Int
                BY <4>1, AmountAssumption DEF AccountSet, Uint64
            <4> HIDE DEF old
            <4> QED BY <4>1, <4>2, Wraps DEF set_nonce, AccountSet
        <3>2. NewAccount(1) \in AccountSet
            BY NewAccountType, Wraps
        <3> QED BY <3>1, <3>2
    <2> HIDE DEF act
    <2>3. /\ after \in AccountMaps /\ DOMAIN after = DOMAIN st.accounts \cup {x}
          /\ \A y \in DOMAIN st.accounts \ {x} : after[y] = st.accounts[y]
        BY <1>1, <1>2, <2>2, PutAccount
    <2>4. op \in Rops
        BY <1>1 DEF Rop, Rops, NonceRops
    <2>5. ops \in Seq(Rops)
        <3> HIDE DEF op
        <3> QED BY <1>2, <2>4
    <2>6. touched \in SUBSET Addresses
        BY <1>1, <1>2
    <2>7. /\ new \in ApplyStates /\ new.accounts = after /\ new.filter = st.filter
          /\ new.touched = touched /\ new.ok
        <3> HIDE DEF after, ops, touched
        <3> QED BY <1>2, <2>3, <2>5, <2>6 DEF ApplyState, ApplyStates
    <2> HIDE DEF new
    <2>8. ASSUME NEW accts, Agrees(accts, st) PROVE Agrees(accts, new)
        <3> HIDE DEF after
        <3> QED BY <2>3, <2>7, <2>8 DEF Agrees
    <2>9. Keeps(st, new)
        BY <1>4, <2>7, <2>8 DEF Keeps
    <2> QED BY <2>1, <2>9
<1> QED BY <1>3, <1>4

\* Two such steps make one.
LEMMA KeepsTransitive ==
    ASSUME NEW a, NEW b, NEW c, Keeps(a, b), Keeps(b, c)
    PROVE  Keeps(a, c)
BY DEF Keeps

\* The assets the first i transactions of a block establish are in a filter.
EstablishedIn(txs, i, known) ==
    \A k \in 1 .. i : txs[k].op = "Establish" => txs[k].asset \in known

\* Applying a list of transactions.
LEMMA TransactionsKeep ==
    ASSUME NEW base \in ApplyStates, NEW txs \in Seq(Transactions)
    PROVE  LET new == TransactionsApplied(base, txs)
           IN  Keeps(base, new) /\ (new.ok => EstablishedIn(txs, Len(txs), new.filter))
<1> DEFINE n == Len(txs)
<1>1. n \in Nat /\ DOMAIN txs = 1 .. n /\ \A i \in 1 .. n : txs[i] \in Transactions
    OBVIOUS
<1>2. TransactionsClosed(ApplyStates, txs)
    BY <1>1, TransactionKeeps DEF TransactionsClosed, Keeps
<1>3. PICK f : TransactionsPath(ApplyStates, base, txs, f)
    BY <1>2, TransactionsUnfold
<1>4. /\ f \in [0 .. n -> ApplyStates] /\ f[0] = base /\ f[n] = TransactionsApplied(base, txs)
      /\ \A i \in 1 .. n : f[i] = ApplyTransaction(f[i - 1], txs[i])
    BY <1>3 DEF TransactionsPath
<1> HIDE DEF n
<1> DEFINE Good(i) == Keeps(base, f[i]) /\ (f[i].ok => EstablishedIn(txs, i, f[i].filter))
           P == {i \in 0 .. n : Good(i)}
<1>5. 0 \in P
    <2>1. Keeps(base, base)
        BY DEF Keeps
    <2> QED BY <1>1, <1>4, <2>1 DEF EstablishedIn
<1>6. ASSUME NEW i \in 1 .. n, i - 1 \in P PROVE i \in P
    <2>1. i - 1 \in 0 .. n /\ i \in 0 .. n
        BY <1>1
    <2>2. f[i - 1] \in ApplyStates /\ txs[i] \in Transactions /\ f[i] = ApplyTransaction(f[i - 1], txs[i])
        BY <1>1, <1>4, <2>1
    <2>3. Keeps(f[i - 1], f[i]) /\ (f[i].ok /\ txs[i].op = "Establish" => txs[i].asset \in f[i].filter)
        BY <2>2, TransactionKeeps
    <2>4. Keeps(base, f[i - 1]) /\ (f[i - 1].ok => EstablishedIn(txs, i - 1, f[i - 1].filter))
        BY <1>6
    <2>5. Keeps(base, f[i])
        BY <2>3, <2>4, KeepsTransitive
    <2>6. ASSUME f[i].ok PROVE EstablishedIn(txs, i, f[i].filter)
        <3>1. f[i - 1].ok /\ f[i - 1].filter \subseteq f[i].filter
            BY <2>3, <2>6 DEF Keeps
        <3>2. \A k \in 1 .. i : k \in 1 .. (i - 1) \/ k = i
            BY <1>1
        <3> QED BY <2>3, <2>4, <2>6, <3>1, <3>2 DEF EstablishedIn
    <2> QED BY <2>1, <2>5, <2>6
<1> HIDE DEF P
<1>7. \A i \in 0 .. n : i \in P
    BY <1>1, <1>5, <1>6, Induction
<1>8. n \in P
    BY <1>1, <1>7
<1> QED BY <1>4, <1>8 DEF P, n

\* Applying a list of affairs.
LEMMA AffairsKeep ==
    ASSUME NEW base \in ApplyStates, NEW airs \in Seq(Affairs)
    PROVE  Keeps(base, AffairsApplied(base, airs))
<1> DEFINE n == Len(airs)
<1>1. n \in Nat /\ DOMAIN airs = 1 .. n /\ \A i \in 1 .. n : airs[i] \in Affairs
    OBVIOUS
<1>2. AffairsClosed(ApplyStates, airs)
    BY <1>1, AffairKeeps DEF AffairsClosed, Keeps
<1>3. PICK f : AffairsPath(ApplyStates, base, airs, f)
    BY <1>2, AffairsUnfold
<1>4. /\ f \in [0 .. n -> ApplyStates] /\ f[0] = base /\ f[n] = AffairsApplied(base, airs)
      /\ \A i \in 1 .. n : f[i] = ApplyAffair(f[i - 1], airs[i])
    BY <1>3 DEF AffairsPath
<1> HIDE DEF n
<1> DEFINE P == {i \in 0 .. n : Keeps(base, f[i])}
<1>5. 0 \in P
    <2>1. Keeps(base, base)
        BY DEF Keeps
    <2> QED BY <1>1, <1>4, <2>1
<1>6. ASSUME NEW i \in 1 .. n, i - 1 \in P PROVE i \in P
    <2>1. i - 1 \in 0 .. n /\ i \in 0 .. n
        BY <1>1
    <2>2. f[i - 1] \in ApplyStates /\ airs[i] \in Affairs /\ f[i] = ApplyAffair(f[i - 1], airs[i])
        BY <1>1, <1>4, <2>1
    <2>3. Keeps(f[i - 1], f[i]) /\ Keeps(base, f[i - 1])
        BY <1>6, <2>2, AffairKeeps
    <2> QED BY <2>1, <2>3, KeepsTransitive
<1> HIDE DEF P
<1>7. \A i \in 0 .. n : i \in P
    BY <1>1, <1>5, <1>6, Induction
<1>8. n \in P
    BY <1>1, <1>7
<1> QED BY <1>4, <1>8 DEF P

\* Applying a block, for every block of well-typed items: the accounts stay typed,
\* an account that is not in the commit is the one before the block, and the filter
\* keeps what it had and gains every asset the block establishes.
LEMMA AppliedFacts ==
    ASSUME NEW b, b.transactions \in Seq(Transactions), b.affairs \in Seq(Affairs),
           accounts \in AccountMaps, assetFilter \in SUBSET Assets
    PROVE  LET st == Applied(b)
           IN  /\ st \in ApplyStates /\ assetFilter \subseteq st.filter
               /\ st.ok => /\ Agrees(accounts, st)
                           /\ EstablishedIn(b.transactions, Len(b.transactions), st.filter)
<1> DEFINE base == ApplyState(accounts, <<>>, assetFilter, {}, TRUE)
           mid == TransactionsApplied(base, b.transactions)
           st == AffairsApplied(mid, b.affairs)
<1>1. /\ base \in ApplyStates /\ base.accounts = accounts /\ base.filter = assetFilter
      /\ base.touched = {}
    BY DEF ApplyState, ApplyStates
<1>2. Applied(b) = st
    BY Zenon DEF Applied, TransactionsApplied, AffairsApplied
<1>3. Agrees(accounts, base)
    BY <1>1 DEF Agrees
<1> HIDE DEF base
<1>4. Keeps(base, mid) /\ (mid.ok => EstablishedIn(b.transactions, Len(b.transactions), mid.filter))
    BY <1>1, TransactionsKeep
<1> HIDE DEF mid
<1>5. mid \in ApplyStates
    BY <1>4 DEF Keeps
<1>6. Keeps(mid, st)
    BY <1>5, AffairsKeep
<1> HIDE DEF st
<1>7. Keeps(base, st)
    BY <1>4, <1>6, KeepsTransitive
<1>8. st \in ApplyStates /\ assetFilter \subseteq st.filter
    BY <1>1, <1>7 DEF Keeps
<1>9. ASSUME st.ok
      PROVE  Agrees(accounts, st) /\ EstablishedIn(b.transactions, Len(b.transactions), st.filter)
    <2>1. Agrees(accounts, st)
        BY <1>3, <1>7, <1>9 DEF Keeps
    <2>2. mid.ok /\ mid.filter \subseteq st.filter
        BY <1>6, <1>9 DEF Keeps
    <2> QED BY <1>4, <2>1, <2>2 DEF EstablishedIn
<1> QED BY <1>2, <1>8, <1>9

-----------------------------------------------------------------------------
(* Nonces *)

\* No account goes, none has another nonce, and those that are new start at 0 or 1.
SameNonces(old, new) ==
    /\ DOMAIN old \subseteq DOMAIN new
    /\ \A x \in DOMAIN old : new[x].nonce = old[x].nonce
    /\ \A x \in DOMAIN new \ DOMAIN old : new[x].nonce \in {0, 1}

\* Two such changes make one.
LEMMA SameNoncesTransitive ==
    ASSUME NEW f, NEW g, NEW h, SameNonces(f, g), SameNonces(g, h)
    PROVE  SameNonces(f, h)
BY DEF SameNonces

\* An output adds to a balance.
LEMMA CreditNonces ==
    ASSUME NEW a \in Assets, NEW accts \in AccountMaps, NEW out \in OutSet
    PROVE  SameNonces(accts, Credit(accts, a, out))
<1> DEFINE x == out.receiver
           act == IF x \in DOMAIN accts THEN accts[x] ELSE NewAccount(0)
           new == add_balance(act, a, out.count)
<1>1. act \in AccountSet
    <2>1. x \in DOMAIN accts => accts[x] \in AccountSet
        BY MapIs DEF AccountMaps
    <2>2. NewAccount(0) \in AccountSet
        BY NewAccountType, Wraps
    <2> QED BY <2>1, <2>2
<1>2. Credit(accts, a, out) = Put(accts, x, new)
    BY DEF Credit
<1>3. act.nonce = IF x \in DOMAIN accts THEN accts[x].nonce ELSE 0
    BY DEF NewAccount
<1> HIDE DEF act
<1>4. new.nonce = act.nonce
    BY <1>1 DEF add_balance, AccountSet
<1> HIDE DEF new, x
<1>5. /\ DOMAIN Put(accts, x, new) = DOMAIN accts \cup {x} /\ Put(accts, x, new)[x] = new
      /\ \A y \in DOMAIN accts \ {x} : Put(accts, x, new)[y] = accts[y]
    BY DEF Put
<1> QED BY <1>2, <1>3, <1>4, <1>5 DEF SameNonces

\* Crediting all outputs of a transfer changes no nonce.
LEMMA CreditedNonces ==
    ASSUME NEW a \in Assets, NEW base \in AccountMaps, NEW outs \in Outs
    PROVE  SameNonces(base, Credited(a, base, outs))
<1> DEFINE n == Len(outs)
<1>1. n \in Nat /\ DOMAIN outs = 1 .. n /\ \A i \in 1 .. n : outs[i] \in OutSet
    BY OutsAre
<1>2. CreditClosed(a, AccountMaps, outs)
    BY <1>1, CreditType DEF CreditClosed
<1>3. PICK f : CreditPath(a, AccountMaps, base, outs, f)
    BY <1>2, CreditUnfold
<1>4. /\ f \in [0 .. n -> AccountMaps] /\ f[0] = base /\ f[n] = Credited(a, base, outs)
      /\ \A i \in 1 .. n : f[i] = Credit(f[i - 1], a, outs[i])
    BY <1>3 DEF CreditPath
<1> HIDE DEF n
<1> DEFINE P == {k \in 0 .. n : SameNonces(base, f[k])}
<1>5. 0 \in P
    <2>1. SameNonces(base, base)
        BY DEF SameNonces
    <2> QED BY <1>1, <1>4, <2>1
<1>6. ASSUME NEW i \in 1 .. n, i - 1 \in P PROVE i \in P
    <2>1. f[i - 1] \in AccountMaps /\ f[i] = Credit(f[i - 1], a, outs[i]) /\ outs[i] \in OutSet /\ i \in 0 .. n
        BY <1>1, <1>4
    <2>2. SameNonces(base, f[i - 1])
        BY <1>6
    <2>3. SameNonces(f[i - 1], f[i])
        BY <2>1, CreditNonces
    <2>4. SameNonces(base, f[i])
        BY <2>2, <2>3, SameNoncesTransitive
    <2> QED BY <2>1, <2>4
<1> HIDE DEF P
<1>7. \A k \in 0 .. n : k \in P
    BY <1>1, <1>5, <1>6, Induction
<1>8. n \in P
    BY <1>1, <1>7
<1> QED BY <1>4, <1>8 DEF P

\* The nonces after a transaction that is applied: a transfer sets its sender's.
NoncesAfter(st, t, new) ==
    /\ DOMAIN st.accounts \subseteq DOMAIN new.accounts
    /\ \A x \in DOMAIN st.accounts :
           new.accounts[x].nonce = IF t.op = "Append" /\ x = t.sender THEN t.nonce + 1 ELSE st.accounts[x].nonce
    /\ \A x \in DOMAIN new.accounts \ DOMAIN st.accounts : new.accounts[x].nonce \in {0, 1}
    /\ t.op = "Append" => t.sender \in DOMAIN st.accounts

\* A transfer sets its sender's nonce to its own plus one.
LEMMA AppendSets ==
    ASSUME NEW st \in ApplyStates, NEW t \in Transactions, t.op = "Append", t.nonce + 1 < Wrap,
           ApplyAppend(st, t).ok
    PROVE  NoncesAfter(st, t, ApplyAppend(st, t))
<1> DEFINE s == t.sender
           old == st.accounts[s]
           ok == s \in DOMAIN st.accounts /\ can_reduce(old, t.asset, t.count)
           payer == SenderAfter(old, t)
           paid == Put(st.accounts, s, payer)
           credited == Credited(t.asset, paid, t.outs)
           ops == st.ops \o RollbackOfTransaction(t, st.accounts)
           same == set_balance(old, t.asset, get_balance(old, t.asset))
           restored == IF s \notin DOMAIN st.accounts THEN st.accounts ELSE Put(st.accounts, s, same)
           after == IF ok THEN credited ELSE restored
           touched == st.touched \cup Touched(t)
<1>1. /\ s \in Addresses /\ t.asset \in Assets /\ t.count \in Uint64 /\ t.outs \in Outs
      /\ t.nonce \in Uint64 /\ t.nonce + 1 \in Int
    BY AmountAssumption DEF Transactions, Uint64
<1>2. ApplyAppend(st, t) = ApplyState(after, ops, st.filter, touched, ok)
    BY Zenon DEF ApplyAppend, Credited
<1>3. ok
    <2> HIDE DEF after, ops, touched, ok
    <2>1. ApplyState(after, ops, st.filter, touched, ok).ok = ok
        BY Zenon DEF ApplyState
    <2> QED BY <1>2, <2>1
<1>4. ApplyAppend(st, t).accounts = credited
    <2> HIDE DEF credited, restored, ops, touched, ok
    <2>1. ApplyState(after, ops, st.filter, touched, ok).accounts = after
        BY Zenon DEF ApplyState
    <2> QED BY <1>2, <1>3, <2>1
<1>5. st.accounts \in AccountMaps /\ old \in AccountSet
    BY <1>3, StateFields, MapIs DEF AccountMaps
<1>6. payer \in AccountSet /\ payer.nonce = t.nonce + 1
    <2> DEFINE less == reduce_balance(old, t.asset, t.count)
    <2>1. less \in AccountSet
        BY <1>1, <1>3, <1>5, AccountOps
    <2>2. payer = set_nonce(less, t.nonce + 1)
        BY DEF SenderAfter
    <2> HIDE DEF less, payer
    <2>3. (t.nonce + 1) % Wrap = t.nonce + 1
        <3>1. t.nonce + 1 \in 0 .. Wrap - 1 /\ Wrap \in Nat \ {0}
            BY <1>1, AmountAssumption DEF Uint64
        <3> QED BY <3>1
    <2>4. set_nonce(less, t.nonce + 1).nonce = (t.nonce + 1) % Wrap
        BY <2>1 DEF set_nonce, AccountSet
    <2>5. set_nonce(less, t.nonce + 1) \in AccountSet
        BY <1>1, <2>1, AccountOps
    <2> QED BY <2>2, <2>3, <2>4, <2>5
<1> HIDE DEF payer
<1>7. /\ paid \in AccountMaps /\ DOMAIN paid = DOMAIN st.accounts /\ paid[s] = payer
      /\ \A x \in DOMAIN st.accounts \ {s} : paid[x] = st.accounts[x]
    <2>1. /\ paid \in AccountMaps /\ DOMAIN paid = DOMAIN st.accounts \cup {s}
          /\ \A x \in DOMAIN st.accounts \ {s} : paid[x] = st.accounts[x]
        BY <1>1, <1>5, <1>6, PutAccount
    <2>2. paid[s] = payer
        BY DEF Put
    <2> QED BY <1>3, <2>1, <2>2
<1> HIDE DEF paid
<1>8. SameNonces(paid, credited)
    BY <1>1, <1>7, CreditedNonces
<1> HIDE DEF credited
<1>9. ASSUME NEW x \in DOMAIN st.accounts
      PROVE  credited[x].nonce = IF x = s THEN t.nonce + 1 ELSE st.accounts[x].nonce
    BY <1>6, <1>7, <1>8 DEF SameNonces
<1>10. DOMAIN st.accounts \subseteq DOMAIN credited
       /\ \A x \in DOMAIN credited \ DOMAIN st.accounts : credited[x].nonce \in {0, 1}
    BY <1>7, <1>8 DEF SameNonces
<1> QED BY <1>3, <1>4, <1>9, <1>10 DEF NoncesAfter

\* Establishing an asset changes no nonce.
LEMMA EstablishSets ==
    ASSUME NEW st \in ApplyStates, NEW t \in Transactions, t.op = "Establish", ApplyEstablish(st, t).ok
    PROVE  NoncesAfter(st, t, ApplyEstablish(st, t))
<1> DEFINE s == t.sender
           act == IF s \in DOMAIN st.accounts THEN st.accounts[s] ELSE NewAccount(1)
           new == add_balance(act, t.asset, AssetMax)
           after == Put(st.accounts, s, new)
           ops == st.ops \o RollbackOfTransaction(t, st.accounts)
           filter == st.filter \cup {t.asset}
           touched == st.touched \cup {s}
<1>1. CASE t.asset \in st.filter
    <2>1. ApplyEstablish(st, t) = [st EXCEPT !.ok = FALSE]
        BY <1>1, Zenon DEF ApplyEstablish
    <2>2. ~[st EXCEPT !.ok = FALSE].ok
        BY DEF ApplyStates
    <2> QED BY <2>1, <2>2
<1>2. CASE t.asset \notin st.filter
    <2>1. ApplyEstablish(st, t) = ApplyState(after, ops, filter, touched, TRUE)
        BY <1>2, Zenon DEF ApplyEstablish
    <2>2. ApplyState(after, ops, filter, touched, TRUE).accounts = after
        <3> HIDE DEF after, ops, filter, touched
        <3> QED BY Zenon DEF ApplyState
    <2>3. act \in AccountSet
        <3>1. s \in DOMAIN st.accounts => st.accounts[s] \in AccountSet
            BY StateFields, MapIs DEF AccountMaps
        <3>2. NewAccount(1) \in AccountSet
            BY NewAccountType, Wraps
        <3> QED BY <3>1, <3>2
    <2>4. act.nonce = IF s \in DOMAIN st.accounts THEN st.accounts[s].nonce ELSE 1
        BY DEF NewAccount
    <2> HIDE DEF act
    <2>5. new.nonce = act.nonce
        BY <2>3 DEF add_balance, AccountSet
    <2> HIDE DEF new, s
    <2>6. /\ DOMAIN after = DOMAIN st.accounts \cup {s} /\ after[s] = new
          /\ \A y \in DOMAIN st.accounts \ {s} : after[y] = st.accounts[y]
        BY DEF Put
    <2> HIDE DEF after
    <2> QED BY <2>1, <2>2, <2>4, <2>5, <2>6 DEF NoncesAfter
<1> QED BY <1>1, <1>2

\* What a transaction that is applied does to the nonces.
LEMMA TransactionSets ==
    ASSUME NEW st \in ApplyStates, NEW t \in Transactions, t.nonce + 1 < Wrap, ApplyTransaction(st, t).ok
    PROVE  st.ok /\ NoncesAfter(st, t, ApplyTransaction(st, t))
<1>1. st.ok
    BY TransactionKeeps DEF Keeps
<1>2. CASE t.op = "Append"
    <2>1. ApplyTransaction(st, t) = ApplyAppend(st, t)
        BY <1>1, <1>2 DEF ApplyTransaction
    <2> QED BY <1>1, <1>2, <2>1, AppendSets
<1>3. CASE t.op = "Establish"
    <2>1. ApplyTransaction(st, t) = ApplyEstablish(st, t)
        BY <1>1, <1>3 DEF ApplyTransaction
    <2> QED BY <1>1, <1>3, <2>1, EstablishSets
<1>4. CASE t.op \notin {"Append", "Establish"}
    <2>1. ApplyTransaction(st, t) = st
        BY <1>1, <1>4 DEF ApplyTransaction
    <2> QED BY <1>1, <1>4, <2>1 DEF NoncesAfter
<1> QED BY <1>2, <1>3, <1>4

NonceOf(accts, x) == IF x \in DOMAIN accts THEN accts[x].nonce ELSE 0

\* A body in which the nonces of a sender rise from above the account's, with room for
\* `more` steps below the largest number.
Ascends(accts, txs, more) ==
    /\ \A i \in 1 .. Len(txs) : txs[i].nonce > NonceOf(accts, txs[i].sender) /\ txs[i].nonce + 1 + more < Wrap
    /\ \A i, j \in 1 .. Len(txs) : i < j /\ txs[i].sender = txs[j].sender => txs[i].nonce < txs[j].nonce

\* No account is below f in g.
NotBelow(f, g) == DOMAIN f \subseteq DOMAIN g /\ \A x \in DOMAIN f : f[x].nonce <= g[x].nonce

\* The senders of the first i transfers are above them.
Passed(txs, i, accts) ==
    \A k \in 1 .. i : txs[k].op = "Append" => /\ txs[k].sender \in DOMAIN accts
                                              /\ txs[k].nonce < accts[txs[k].sender].nonce

\* Accounts have room for `more` steps.
Roomy(accts, more) == \A x \in DOMAIN accts : accts[x].nonce + more < Wrap

\* Nonces are numbers.
LEMMA NoncesNat ==
    ASSUME NEW accts \in AccountMaps
    PROVE  \A x \in DOMAIN accts : accts[x].nonce \in Nat
<1>1. \A x \in DOMAIN accts : accts[x] \in AccountSet
    BY MapIs DEF AccountMaps
<1>2. \A act \in AccountSet : act.nonce \in Nat
    BY Wraps DEF AccountSet
<1> QED BY <1>1, <1>2

\* The nonces after the first i transactions.
NoncesAt(base, txs, i, new, more) ==
    /\ NotBelow(base.accounts, new.accounts) /\ Passed(txs, i, new.accounts) /\ Roomy(new.accounts, more)
    /\ \A k \in i + 1 .. Len(txs) : txs[k].sender \in DOMAIN new.accounts =>
                                        new.accounts[txs[k].sender].nonce <= txs[k].nonce

\* One transaction more.
LEMMA NextNonces ==
    ASSUME NEW base \in ApplyStates, NEW txs \in Seq(Transactions), NEW more \in Nat, 1 + more < Wrap,
           Ascends(base.accounts, txs, more), NEW i \in 1 .. Len(txs),
           NEW st \in ApplyStates, NEW new \in ApplyStates, NoncesAt(base, txs, i - 1, st, more),
           NoncesAfter(st, txs[i], new)
    PROVE  NoncesAt(base, txs, i, new, more)
<1> DEFINE n == Len(txs)
           t == txs[i]
           f == st.accounts
           g == new.accounts
           h == base.accounts
<1>1. n \in Nat /\ i \in 1 .. n /\ \A k \in 1 .. n : txs[k] \in Transactions
    BY LenProperties, ElementOfSeq
<1>2. \A k \in 1 .. n : txs[k].nonce \in Nat
    BY <1>1, Wraps DEF Transactions
<1>3. (\A x \in DOMAIN f : f[x].nonce \in Nat) /\ (\A x \in DOMAIN g : g[x].nonce \in Nat)
      /\ \A x \in DOMAIN h : h[x].nonce \in Nat
    BY StateFields, NoncesNat
<1>4. /\ DOMAIN f \subseteq DOMAIN g
      /\ \A x \in DOMAIN f : g[x].nonce = IF t.op = "Append" /\ x = t.sender THEN t.nonce + 1 ELSE f[x].nonce
      /\ \A x \in DOMAIN g \ DOMAIN f : g[x].nonce \in {0, 1}
      /\ t.op = "Append" => t.sender \in DOMAIN f
    BY DEF NoncesAfter
<1>5. /\ NotBelow(h, f) /\ Passed(txs, i - 1, f) /\ Roomy(f, more)
      /\ \A k \in i .. n : txs[k].sender \in DOMAIN f => f[txs[k].sender].nonce <= txs[k].nonce
    <2>1. (i - 1) + 1 = i
        BY <1>1
    <2> QED BY <2>1 DEF NoncesAt
<1>6. /\ \A k \in 1 .. n : txs[k].nonce > NonceOf(h, txs[k].sender) /\ txs[k].nonce + 1 + more < Wrap
      /\ \A j, k \in 1 .. n : j < k /\ txs[j].sender = txs[k].sender => txs[j].nonce < txs[k].nonce
    BY DEF Ascends
<1> HIDE DEF n, f, g, h
<1>7. \A x \in DOMAIN f : f[x].nonce <= g[x].nonce
    <2> TAKE x \in DOMAIN f
    <2>1. CASE t.op = "Append" /\ x = t.sender
        <3>1. f[x].nonce <= t.nonce /\ t.nonce \in Nat /\ f[x].nonce \in Nat
            BY <1>1, <1>2, <1>3, <1>5, <2>1
        <3> QED BY <1>4, <2>1, <3>1
    <2>2. CASE ~(t.op = "Append" /\ x = t.sender)
        BY <1>3, <1>4, <2>2
    <2> QED BY <2>1, <2>2
<1>8. NotBelow(h, g)
    BY <1>3, <1>4, <1>5, <1>7 DEF NotBelow
<1>9. Passed(txs, i, g)
    <2> SUFFICES ASSUME NEW k \in 1 .. i, txs[k].op = "Append"
                 PROVE  txs[k].sender \in DOMAIN g /\ txs[k].nonce < g[txs[k].sender].nonce
        BY DEF Passed
    <2>1. CASE k = i
        BY <1>1, <1>2, <1>4, <2>1
    <2>2. CASE k \in 1 .. (i - 1)
        <3>1. txs[k].sender \in DOMAIN f /\ txs[k].nonce < f[txs[k].sender].nonce
            BY <1>5, <2>2 DEF Passed
        <3>2. k \in 1 .. n
            BY <1>1
        <3> QED BY <1>2, <1>3, <1>4, <1>7, <3>1, <3>2
    <2> QED BY <1>1, <2>1, <2>2
<1>10. Roomy(g, more)
    <2> SUFFICES ASSUME NEW x \in DOMAIN g PROVE g[x].nonce + more < Wrap
        BY DEF Roomy
    <2>1. CASE x \notin DOMAIN f
        BY <1>4, <2>1, AmountAssumption
    <2>2. CASE x \in DOMAIN f /\ t.op = "Append" /\ x = t.sender
        BY <1>1, <1>4, <1>6, <2>2
    <2>3. CASE x \in DOMAIN f /\ ~(t.op = "Append" /\ x = t.sender)
        BY <1>4, <1>5, <2>3 DEF Roomy
    <2> QED BY <2>1, <2>2, <2>3
<1>11. ASSUME NEW k \in i + 1 .. n, txs[k].sender \in DOMAIN g
       PROVE  g[txs[k].sender].nonce <= txs[k].nonce
    <2> DEFINE x == txs[k].sender
    <2>1. k \in 1 .. n /\ k \in i .. n /\ i < k /\ i \in 1 .. n
        BY <1>1
    <2>2. txs[k].nonce \in Nat /\ t.nonce \in Nat
        BY <1>2, <2>1
    <2>3. CASE x \notin DOMAIN f
        <3>1. txs[k].nonce > NonceOf(h, x)
            BY <1>6, <2>1
        <3>2. NonceOf(h, x) = 0
            BY <1>5, <2>3 DEF NotBelow, NonceOf
        <3>3. g[x].nonce \in {0, 1}
            BY <1>4, <1>11, <2>3
        <3> QED BY <2>2, <3>1, <3>2, <3>3
    <2>4. CASE x \in DOMAIN f /\ t.op = "Append" /\ x = t.sender
        <3>1. t.nonce < txs[k].nonce
            BY <1>6, <2>1, <2>4
        <3>2. g[x].nonce = t.nonce + 1
            BY <1>4, <2>4
        <3> QED BY <2>2, <3>1, <3>2
    <2>5. CASE x \in DOMAIN f /\ ~(t.op = "Append" /\ x = t.sender)
        BY <1>4, <1>5, <2>1, <2>5
    <2> QED BY <2>3, <2>4, <2>5
<1> QED BY <1>8, <1>9, <1>10, <1>11 DEF NoncesAt, n, g, h

\* The nonces after the transactions of a block.
LEMMA TransactionsNonces ==
    ASSUME NEW base \in ApplyStates, NEW txs \in Seq(Transactions), NEW more \in Nat, 1 + more < Wrap,
           Ascends(base.accounts, txs, more), Roomy(base.accounts, more),
           TransactionsApplied(base, txs).ok
    PROVE  LET g == TransactionsApplied(base, txs).accounts
           IN  NotBelow(base.accounts, g) /\ Passed(txs, Len(txs), g) /\ Roomy(g, more)
<1> DEFINE n == Len(txs)
<1>1. n \in Nat /\ DOMAIN txs = 1 .. n /\ \A i \in 1 .. n : txs[i] \in Transactions
    OBVIOUS
<1>2. TransactionsClosed(ApplyStates, txs)
    BY <1>1, TransactionKeeps DEF TransactionsClosed, Keeps
<1>3. PICK f : TransactionsPath(ApplyStates, base, txs, f)
    BY <1>2, TransactionsUnfold
<1>4. /\ f \in [0 .. n -> ApplyStates] /\ f[0] = base /\ f[n] = TransactionsApplied(base, txs)
      /\ \A i \in 1 .. n : f[i] = ApplyTransaction(f[i - 1], txs[i])
    BY <1>3 DEF TransactionsPath
<1>5. NoncesAt(base, txs, 0, base, more)
    <2>1. \A x \in DOMAIN base.accounts : base.accounts[x].nonce \in Nat
        BY StateFields, NoncesNat
    <2>2. ASSUME NEW k \in 0 + 1 .. Len(txs), txs[k].sender \in DOMAIN base.accounts
          PROVE  base.accounts[txs[k].sender].nonce <= txs[k].nonce
        <3>1. txs[k].nonce > base.accounts[txs[k].sender].nonce
            BY <1>1, <2>2 DEF Ascends, NonceOf
        <3>2. txs[k] \in Transactions
            BY <1>1
        <3>3. txs[k].nonce \in Nat
            BY <3>2, Wraps DEF Transactions
        <3> QED BY <2>1, <2>2, <3>1, <3>3
    <2>3. NotBelow(base.accounts, base.accounts) /\ Passed(txs, 0, base.accounts)
        BY <2>1 DEF NotBelow, Passed
    <2> QED BY <2>2, <2>3 DEF NoncesAt
<1> HIDE DEF n
<1> DEFINE P == {i \in 0 .. n : f[i].ok => NoncesAt(base, txs, i, f[i], more)}
<1>6. 0 \in P
    BY <1>1, <1>4, <1>5
<1>7. ASSUME NEW i \in 1 .. n, i - 1 \in P PROVE i \in P
    <2>1. i - 1 \in 0 .. n /\ i \in 0 .. n
        BY <1>1
    <2>2. f[i - 1] \in ApplyStates /\ f[i] \in ApplyStates /\ txs[i] \in Transactions
          /\ f[i] = ApplyTransaction(f[i - 1], txs[i])
        BY <1>1, <1>4, <2>1
    <2>3. ASSUME f[i].ok PROVE NoncesAt(base, txs, i, f[i], more)
        <3>1. txs[i].nonce + 1 + more < Wrap /\ txs[i].nonce \in Nat
            BY <2>2, Wraps DEF Ascends, n, Transactions
        <3>2. txs[i].nonce + 1 < Wrap
            BY <3>1, AmountAssumption
        <3>3. f[i - 1].ok /\ NoncesAfter(f[i - 1], txs[i], f[i])
            BY <2>2, <2>3, <3>2, TransactionSets
        <3>4. NoncesAt(base, txs, i - 1, f[i - 1], more)
            BY <1>7, <3>3
        <3> QED BY <2>2, <3>3, <3>4, NextNonces DEF n
    <2> QED BY <2>1, <2>3
<1> HIDE DEF P
<1>8. \A i \in 0 .. n : i \in P
    BY <1>1, <1>6, <1>7, Induction
<1>9. n \in P
    BY <1>1, <1>8
<1>10. NoncesAt(base, txs, n, f[n], more)
    BY <1>4, <1>9 DEF P
<1> QED BY <1>4, <1>10 DEF NoncesAt, n

\* An affair raises the nonce of its owner.
LEMMA AffairSets ==
    ASSUME NEW st \in ApplyStates, NEW air \in Affairs, NEW more \in Nat, 1 + more < Wrap,
           Roomy(st.accounts, more + 1)
    PROVE  LET new == ApplyAffair(st, air)
           IN  NotBelow(st.accounts, new.accounts) /\ Roomy(new.accounts, more)
<1> DEFINE x == air.owner
           f == st.accounts
           old == st.accounts[x]
           act == IF x \in DOMAIN st.accounts THEN set_nonce(old, old.nonce + 1) ELSE NewAccount(1)
           after == Put(st.accounts, x, act)
           new == ApplyState(after, st.ops \o RollbackOfAffair(air, st.accounts), st.filter, st.touched \cup {x}, TRUE)
<1>1. f \in AccountMaps /\ \A y \in DOMAIN f : f[y].nonce \in Nat
    BY StateFields, NoncesNat
<1>2. CASE ~st.ok \/ ~is_db_level_affair_type(air)
    <2>1. ApplyAffair(st, air) = st
        BY <1>2, Zenon DEF ApplyAffair
    <2> QED BY <1>1, <2>1, AmountAssumption DEF NotBelow, Roomy
<1>3. CASE st.ok /\ is_db_level_affair_type(air)
    <2>1. ApplyAffair(st, air) = new
        BY <1>3, Zenon DEF ApplyAffair
    <2>2. new.accounts = after
        <3> HIDE DEF after
        <3> QED BY Zenon DEF ApplyState
    <2>3. act.nonce = IF x \in DOMAIN f THEN f[x].nonce + 1 ELSE 1
        <3>1. CASE x \in DOMAIN f
            <4>1. old \in AccountSet /\ old.nonce \in Nat /\ old.nonce + (more + 1) < Wrap
                BY <1>1, <3>1, MapIs DEF AccountMaps, Roomy
            <4>2. (old.nonce + 1) % Wrap = old.nonce + 1
                <5>1. old.nonce + 1 \in 0 .. Wrap - 1 /\ Wrap \in Nat \ {0}
                    BY <4>1, AmountAssumption
                <5> QED BY <5>1
            <4>3. set_nonce(old, old.nonce + 1).nonce = (old.nonce + 1) % Wrap
                <5> HIDE DEF old
                <5> QED BY <4>1 DEF set_nonce, AccountSet
            <4> QED BY <3>1, <4>2, <4>3
        <3>2. CASE x \notin DOMAIN f
            BY <3>2 DEF NewAccount
        <3> QED BY <3>1, <3>2
    <2> HIDE DEF act, x
    <2>4. /\ DOMAIN after = DOMAIN f \cup {x} /\ after[x] = act
          /\ \A y \in DOMAIN f \ {x} : after[y] = f[y]
        BY DEF Put
    <2> HIDE DEF after, f, new
    <2>5. NotBelow(f, after)
        BY <1>1, <2>3, <2>4 DEF NotBelow
    <2>6. Roomy(after, more)
        <3> SUFFICES ASSUME NEW y \in DOMAIN after PROVE after[y].nonce + more < Wrap
            BY DEF Roomy
        <3>1. CASE y \in DOMAIN f
            <4>1. f[y].nonce \in Nat /\ f[y].nonce + (more + 1) < Wrap
                BY <1>1, <3>1 DEF Roomy, f
            <4>2. after[y].nonce \in {f[y].nonce, f[y].nonce + 1}
                BY <2>3, <2>4, <3>1
            <4> QED BY <4>1, <4>2, AmountAssumption
        <3>2. CASE y \notin DOMAIN f
            BY <2>3, <2>4, <3>2, AmountAssumption
        <3> QED BY <3>1, <3>2
    <2> QED BY <2>1, <2>2, <2>5, <2>6 DEF f
<1> QED BY <1>2, <1>3

\* The affairs of a block lower no nonce.
LEMMA AffairsNonces ==
    ASSUME NEW base \in ApplyStates, NEW airs \in Seq(Affairs), 1 + Len(airs) < Wrap,
           Roomy(base.accounts, Len(airs))
    PROVE  NotBelow(base.accounts, AffairsApplied(base, airs).accounts)
<1> DEFINE n == Len(airs)
<1>1. n \in Nat /\ DOMAIN airs = 1 .. n /\ \A i \in 1 .. n : airs[i] \in Affairs
    OBVIOUS
<1>2. AffairsClosed(ApplyStates, airs)
    BY <1>1, AffairKeeps DEF AffairsClosed, Keeps
<1>3. PICK f : AffairsPath(ApplyStates, base, airs, f)
    BY <1>2, AffairsUnfold
<1>4. /\ f \in [0 .. n -> ApplyStates] /\ f[0] = base /\ f[n] = AffairsApplied(base, airs)
      /\ \A i \in 1 .. n : f[i] = ApplyAffair(f[i - 1], airs[i])
    BY <1>3 DEF AffairsPath
<1>5. 1 + n < Wrap /\ Roomy(base.accounts, n)
    OBVIOUS
<1> HIDE DEF n
<1> DEFINE Good(i) == NotBelow(base.accounts, f[i].accounts) /\ Roomy(f[i].accounts, n - i)
           P == {i \in 0 .. n : Good(i)}
<1>6. 0 \in P
    <2>1. NotBelow(base.accounts, base.accounts)
        BY StateFields, NoncesNat DEF NotBelow
    <2>2. n - 0 = n
        BY <1>1
    <2> QED BY <1>1, <1>4, <1>5, <2>1, <2>2
<1>7. ASSUME NEW i \in 1 .. n, i - 1 \in P PROVE i \in P
    <2>1. i - 1 \in 0 .. n /\ i \in 0 .. n /\ n - i \in Nat /\ n - (i - 1) = (n - i) + 1 /\ 1 + (n - i) < Wrap
        BY <1>1, <1>5, AmountAssumption
    <2>2. f[i - 1] \in ApplyStates /\ f[i] \in ApplyStates /\ airs[i] \in Affairs /\ f[i] = ApplyAffair(f[i - 1], airs[i])
        BY <1>1, <1>4, <2>1
    <2>3. NotBelow(base.accounts, f[i - 1].accounts) /\ Roomy(f[i - 1].accounts, (n - i) + 1)
        BY <1>7, <2>1
    <2>4. NotBelow(f[i - 1].accounts, f[i].accounts) /\ Roomy(f[i].accounts, n - i)
        BY <2>1, <2>2, <2>3, AffairSets
    <2>5. NotBelow(base.accounts, f[i].accounts)
        <3> DEFINE a == base.accounts
                   b == f[i - 1].accounts
                   c == f[i].accounts
        <3>1. (\A y \in DOMAIN a : a[y].nonce \in Nat) /\ (\A y \in DOMAIN b : b[y].nonce \in Nat)
              /\ \A y \in DOMAIN c : c[y].nonce \in Nat
            BY <2>2, StateFields, NoncesNat
        <3>2. NotBelow(a, b) /\ NotBelow(b, c)
            BY <2>3, <2>4
        <3> HIDE DEF a, b, c
        <3>3. NotBelow(a, c)
            BY <3>1, <3>2 DEF NotBelow
        <3> QED BY <3>3 DEF a, c
    <2> QED BY <2>1, <2>4, <2>5
<1> HIDE DEF P
<1>8. \A i \in 0 .. n : i \in P
    BY <1>1, <1>6, <1>7, Induction
<1>9. n \in P
    BY <1>1, <1>8
<1> QED BY <1>4, <1>9 DEF P

\* Applying a block lowers no nonce and passes every transfer of it.
LEMMA AppliedNonces ==
    ASSUME NEW b, b.transactions \in Seq(Transactions), b.affairs \in Seq(Affairs),
           accounts \in AccountMaps, assetFilter \in SUBSET Assets, Applied(b).ok,
           1 + Len(b.affairs) < Wrap, Roomy(accounts, Len(b.affairs)),
           Ascends(accounts, b.transactions, Len(b.affairs))
    PROVE  LET g == Applied(b).accounts
           IN  NotBelow(accounts, g) /\ Passed(b.transactions, Len(b.transactions), g)
<1> DEFINE base == ApplyState(accounts, <<>>, assetFilter, {}, TRUE)
           mid == TransactionsApplied(base, b.transactions)
           st == AffairsApplied(mid, b.affairs)
           txs == b.transactions
           more == Len(b.affairs)
<1>1. base \in ApplyStates /\ base.accounts = accounts
    BY DEF ApplyState, ApplyStates
<1>2. Applied(b) = st
    BY Zenon DEF Applied, TransactionsApplied, AffairsApplied
<1>3. more \in Nat
    BY LenProperties
<1> HIDE DEF base
<1>4. Keeps(base, mid)
    BY <1>1, TransactionsKeep
<1>5. mid \in ApplyStates
    BY <1>4 DEF Keeps
<1>6. Keeps(mid, st)
    BY <1>5, AffairsKeep
<1>7. mid.ok /\ st \in ApplyStates
    BY <1>2, <1>6 DEF Keeps
<1>8. NotBelow(accounts, mid.accounts) /\ Passed(txs, Len(txs), mid.accounts) /\ Roomy(mid.accounts, more)
    BY <1>1, <1>3, <1>7, TransactionsNonces
<1> HIDE DEF mid
<1>9. NotBelow(mid.accounts, st.accounts)
    BY <1>5, <1>8, AffairsNonces
<1> HIDE DEF st
<1> DEFINE f == mid.accounts
           g == st.accounts
<1>10. (\A y \in DOMAIN accounts : accounts[y].nonce \in Nat) /\ (\A y \in DOMAIN f : f[y].nonce \in Nat)
       /\ \A y \in DOMAIN g : g[y].nonce \in Nat
    BY <1>5, <1>7, StateFields, NoncesNat
<1>11. \A k \in 1 .. Len(txs) : txs[k].nonce \in Nat
    <2>1. \A k \in 1 .. Len(txs) : txs[k] \in Transactions
        BY ElementOfSeq
    <2> QED BY <2>1, Wraps DEF Transactions
<1> HIDE DEF f, g, txs
<1>12. NotBelow(accounts, g)
    BY <1>8, <1>9, <1>10 DEF NotBelow, f, g
<1>13. Passed(txs, Len(txs), g)
    <2> SUFFICES ASSUME NEW k \in 1 .. Len(txs), txs[k].op = "Append"
                 PROVE  txs[k].sender \in DOMAIN g /\ txs[k].nonce < g[txs[k].sender].nonce
        BY DEF Passed
    <2>1. txs[k].sender \in DOMAIN f /\ txs[k].nonce < f[txs[k].sender].nonce
        BY <1>8 DEF Passed, f
    <2>2. txs[k].sender \in DOMAIN g /\ f[txs[k].sender].nonce <= g[txs[k].sender].nonce
        BY <1>9, <2>1 DEF NotBelow, f, g
    <2> QED BY <1>10, <1>11, <2>1, <2>2
<1> QED BY <1>2, <1>12, <1>13 DEF txs, g
=============================================================================
