--------------------------- MODULE BalanceProofs ---------------------------
(***************************************************************************)
(* Proofs about the money of Chain: the balances in memory are what the    *)
(* transactions of the chain add up to, and an asset that exists has its   *)
(* full supply, for every set of well-formed inputs and every bound.       *)
(***************************************************************************)
EXTENDS ChainProofs, FiniteSetTheorems

-----------------------------------------------------------------------------
(* Sums over a finite set *)

Some(s) == CHOOSE x \in s : TRUE

SumOver(f, S) == FoldFunctionOnSet(LAMBDA x, y : x + y, 0, f, S)

\* h has the sum of f over every subset of S.
Sums(S, f, h) ==
    h[{}] = 0 /\ \A s \in SUBSET S : s # {} => h[s] = f[Some(s)] + h[s \ {Some(s)}]

\* What holds of the empty set, and of a set when it holds without one of its elements,
\* holds of every subset of a finite set.
LEMMA SubsetInduction ==
    ASSUME NEW S, IsFiniteSet(S), NEW P, {} \in P,
           \A s \in SUBSET S : s # {} /\ s \ {Some(s)} \in P => s \in P
    PROVE  \A s \in SUBSET S : s \in P
<1> DEFINE n == Cardinality(S)
           Q == {k \in 0 .. n : \A s \in SUBSET S : Cardinality(s) = k => s \in P}
<1>1. n \in Nat /\ \A s \in SUBSET S : IsFiniteSet(s) /\ Cardinality(s) \in 0 .. n
    BY FS_Subset, FS_CardinalityType
<1>2. 0 \in Q
    BY <1>1, FS_EmptySet
<1>3. ASSUME NEW k \in 1 .. n, k - 1 \in Q PROVE k \in Q
    <2> SUFFICES ASSUME NEW s \in SUBSET S, Cardinality(s) = k PROVE s \in P
        BY <1>1
    <2>1. s # {} /\ IsFiniteSet(s)
        BY <1>1, FS_EmptySet
    <2>2. Some(s) \in s
        BY <2>1 DEF Some
    <2>3. Cardinality(s \ {Some(s)}) = k - 1 /\ s \ {Some(s)} \in SUBSET S
        BY <2>1, <2>2, FS_RemoveElement
    <2> QED BY <1>3, <2>1, <2>3
<1> HIDE DEF Q
<1>4. \A k \in 0 .. n : k \in Q
    BY <1>1, <1>2, <1>3, Induction
<1> QED BY <1>1, <1>4 DEF Q

\* The sums of f over the subsets of S are a function.
LEMMA SumsExist ==
    ASSUME NEW S, IsFiniteSet(S), NEW f \in [S -> Nat]
    PROVE  \E h \in [SUBSET S -> Nat] : Sums(S, f, h)
<1> DEFINE n == Cardinality(S)
           Of(k) == {s \in SUBSET S : Cardinality(s) <= k}
           Has(k) == \E h \in [Of(k) -> Nat] :
                        /\ h[{}] = 0
                        /\ \A s \in Of(k) : s # {} => h[s] = f[Some(s)] + h[s \ {Some(s)}]
           P == {k \in 0 .. n : Has(k)}
<1>1. n \in Nat /\ \A s \in SUBSET S : IsFiniteSet(s) /\ Cardinality(s) \in 0 .. n
    BY FS_Subset, FS_CardinalityType
<1>2. ASSUME NEW s \in SUBSET S, s # {}
      PROVE  /\ Some(s) \in s /\ s \ {Some(s)} \in SUBSET S
             /\ Cardinality(s \ {Some(s)}) = Cardinality(s) - 1 /\ f[Some(s)] \in Nat
    <2>1. Some(s) \in s
        BY <1>2 DEF Some
    <2> QED BY <1>1, <2>1, FS_RemoveElement
<1>3. 0 \in P
    <2> DEFINE h == [s \in Of(0) |-> 0]
    <2>1. {} \in Of(0) /\ \A s \in Of(0) : s = {}
        BY <1>1, FS_EmptySet
    <2>2. h \in [Of(0) -> Nat] /\ h[{}] = 0
        BY <2>1
    <2>3. Has(0)
        BY <2>1, <2>2
    <2> HIDE DEF Has
    <2> QED BY <1>1, <2>3
<1>4. ASSUME NEW k \in 1 .. n, k - 1 \in P PROVE k \in P
    <2>1. PICK h \in [Of(k - 1) -> Nat] :
              /\ h[{}] = 0
              /\ \A s \in Of(k - 1) : s # {} => h[s] = f[Some(s)] + h[s \ {Some(s)}]
        BY <1>4
    <2> DEFINE g == [s \in Of(k) |-> IF s \in Of(k - 1) THEN h[s] ELSE f[Some(s)] + h[s \ {Some(s)}]]
    <2>2. {} \in Of(k - 1) /\ Of(k - 1) \subseteq Of(k)
        BY <1>1, FS_EmptySet
    <2>3. ASSUME NEW s \in Of(k), s # {} PROVE s \ {Some(s)} \in Of(k - 1)
        BY <1>1, <1>2, <2>3
    <2>4. ASSUME NEW s \in Of(k) PROVE g[s] \in Nat
        <3>1. CASE s \in Of(k - 1)
            BY <3>1
        <3>2. CASE s \notin Of(k - 1)
            <4>1. s # {}
                BY <2>2, <3>2
            <4>2. h[s \ {Some(s)}] \in Nat /\ f[Some(s)] \in Nat
                BY <1>2, <2>3, <4>1
            <4> QED BY <3>2, <4>2
        <3> QED BY <3>1, <3>2
    <2>5. g \in [Of(k) -> Nat]
        <3>1. g = [s \in Of(k) |-> g[s]]
            OBVIOUS
        <3> HIDE DEF g
        <3> QED BY <2>4, <3>1
    <2>6. g[{}] = 0
        BY <2>1, <2>2
    <2>7. ASSUME NEW s \in Of(k), s # {} PROVE g[s] = f[Some(s)] + g[s \ {Some(s)}]
        <3>1. s \ {Some(s)} \in Of(k - 1) /\ s \ {Some(s)} \in Of(k)
            BY <2>2, <2>3, <2>7
        <3>2. g[s \ {Some(s)}] = h[s \ {Some(s)}]
            BY <3>1
        <3>3. g[s] = f[Some(s)] + h[s \ {Some(s)}]
            BY <2>1, <2>7
        <3> QED BY <3>2, <3>3
    <2> HIDE DEF g
    <2>8. Has(k)
        BY <2>5, <2>6, <2>7
    <2> HIDE DEF Has
    <2> QED BY <1>1, <2>8
<1> HIDE DEF P
<1>5. \A k \in 0 .. n : k \in P
    BY <1>1, <1>3, <1>4, Induction
<1>6. Of(n) = SUBSET S
    BY <1>1
<1>7. Has(n)
    <2> HIDE DEF Has
    <2> QED BY <1>1, <1>5 DEF P
<1> QED BY <1>6, <1>7 DEF Sums

\* A sum over a set is the last of such sums.
LEMMA SumIs ==
    ASSUME NEW S, IsFiniteSet(S), NEW f \in [S -> Nat]
    PROVE  \E h \in [SUBSET S -> Nat] : Sums(S, f, h) /\ SumOver(f, S) = h[S]
<1> DEFINE E(h) == h = [s \in SUBSET S |-> IF s = {} THEN 0 ELSE Plus(f[Some(s)], h[s \ {Some(s)}])]
           it == CHOOSE h : E(h)
<1>1. PICK h \in [SUBSET S -> Nat] : Sums(S, f, h)
    BY SumsExist
<1>2. E(h)
    BY <1>1 DEF Sums, Plus
<1>3. E(it)
    <2> HIDE DEF E
    <2> QED BY <1>2
<1>4. SumOver(f, S) = it[S]
    BY Zenon DEF SumOver, Plus, Some, FoldFunctionOnSet, MapThenFoldSet
<1> HIDE DEF it
<1>5. /\ it = [s \in SUBSET S |-> it[s]] /\ it[{}] = 0
      /\ \A s \in SUBSET S : s # {} => it[s] = f[Some(s)] + it[s \ {Some(s)}]
    BY <1>3 DEF Plus
<1>6. \A s \in SUBSET S : it[s] \in Nat
    <2> DEFINE P == {s \in SUBSET S : it[s] \in Nat}
    <2>1. {} \in P
        BY <1>5
    <2>2. ASSUME NEW s \in SUBSET S, s # {}, s \ {Some(s)} \in P PROVE s \in P
        <3>1. Some(s) \in s
            BY <2>2 DEF Some
        <3>2. f[Some(s)] \in Nat /\ it[s \ {Some(s)}] \in Nat
            BY <2>2, <3>1
        <3>3. it[s] = f[Some(s)] + it[s \ {Some(s)}]
            BY <1>5, <2>2
        <3>4. it[s] \in Nat
            BY <3>2, <3>3
        <3> QED BY <3>4
    <2> HIDE DEF P
    <2>3. \A s \in SUBSET S : s \in P
        BY <2>1, <2>2, SubsetInduction
    <2> QED BY <2>3 DEF P
<1>7. it \in [SUBSET S -> Nat] /\ Sums(S, f, it)
    BY <1>5, <1>6 DEF Sums
<1> QED BY <1>4, <1>7

\* A sum is a number, no less than any of its parts, and nothing if all of them are.
LEMMA SumFacts ==
    ASSUME NEW S, IsFiniteSet(S), NEW f \in [S -> Nat]
    PROVE  /\ SumOver(f, S) \in Nat /\ \A x \in S : f[x] <= SumOver(f, S)
           /\ (\A x \in S : f[x] = 0) => SumOver(f, S) = 0
<1>1. PICK h \in [SUBSET S -> Nat] : Sums(S, f, h) /\ SumOver(f, S) = h[S]
    BY SumIs
<1>2. h[{}] = 0 /\ \A s \in SUBSET S : s # {} => h[s] = f[Some(s)] + h[s \ {Some(s)}]
    BY <1>1 DEF Sums
<1>3. ASSUME NEW s \in SUBSET S, s # {}
      PROVE  /\ Some(s) \in s /\ f[Some(s)] \in Nat /\ s \ {Some(s)} \in SUBSET S
             /\ h[s \ {Some(s)}] \in Nat /\ h[s] = f[Some(s)] + h[s \ {Some(s)}]
    <2>1. Some(s) \in s
        BY <1>3 DEF Some
    <2> QED BY <1>2, <1>3, <2>1
<1> DEFINE Low(s) == \A x \in s : f[x] <= h[s]
           P == {s \in SUBSET S : Low(s)}
           Q == {s \in SUBSET S : (\A x \in s : f[x] = 0) => h[s] = 0}
<1>4. {} \in P /\ {} \in Q
    BY <1>2
<1>5. ASSUME NEW s \in SUBSET S, s # {}, s \ {Some(s)} \in P PROVE s \in P
    <2>1. ASSUME NEW x \in s PROVE f[x] <= h[s]
        <3>1. CASE x = Some(s)
            BY <1>3, <1>5, <3>1
        <3>2. CASE x # Some(s)
            <4>1. f[x] <= h[s \ {Some(s)}] /\ f[x] \in Nat
                BY <1>5, <3>2
            <4> QED BY <1>3, <1>5, <4>1
        <3> QED BY <3>1, <3>2
    <2> QED BY <2>1
<1>6. ASSUME NEW s \in SUBSET S, s # {}, s \ {Some(s)} \in Q PROVE s \in Q
    <2> SUFFICES ASSUME \A x \in s : f[x] = 0 PROVE h[s] = 0
        OBVIOUS
    <2>1. f[Some(s)] = 0 /\ h[s \ {Some(s)}] = 0
        BY <1>3, <1>6
    <2> QED BY <1>3, <1>6, <2>1
<1> HIDE DEF P, Q
<1>7. S \in P
    BY <1>4, <1>5, SubsetInduction
<1>8. S \in Q
    BY <1>4, <1>6, SubsetInduction
<1> QED BY <1>1, <1>7, <1>8 DEF P, Q

\* A sum changes by as much as one of its parts does.
LEMMA SumChange ==
    ASSUME NEW S, IsFiniteSet(S), NEW f \in [S -> Nat], NEW g \in [S -> Nat], NEW x \in S,
           \A y \in S \ {x} : g[y] = f[y]
    PROVE  SumOver(g, S) + f[x] = SumOver(f, S) + g[x]
<1>1. PICK h \in [SUBSET S -> Nat] : Sums(S, f, h) /\ SumOver(f, S) = h[S]
    BY SumIs
<1>2. PICK k \in [SUBSET S -> Nat] : Sums(S, g, k) /\ SumOver(g, S) = k[S]
    BY SumIs
<1>3. h[{}] = 0 /\ \A s \in SUBSET S : s # {} => h[s] = f[Some(s)] + h[s \ {Some(s)}]
    BY <1>1 DEF Sums
<1>4. k[{}] = 0 /\ \A s \in SUBSET S : s # {} => k[s] = g[Some(s)] + k[s \ {Some(s)}]
    BY <1>2 DEF Sums
<1> DEFINE P == {s \in SUBSET S : IF x \in s THEN k[s] + f[x] = h[s] + g[x] ELSE k[s] = h[s]}
<1>5. {} \in P
    BY <1>3, <1>4
<1>6. ASSUME NEW s \in SUBSET S, s # {}, s \ {Some(s)} \in P PROVE s \in P
    <2> DEFINE c == Some(s)
               r == s \ {c}
    <2>1. c \in s
        BY <1>6 DEF Some
    <2> HIDE DEF c
    <2>2. /\ r \in SUBSET S /\ h[s] = f[c] + h[r] /\ k[s] = g[c] + k[r]
          /\ f[c] \in Nat /\ g[c] \in Nat /\ h[r] \in Nat /\ k[r] \in Nat /\ f[x] \in Nat /\ g[x] \in Nat
        BY <1>3, <1>4, <1>6, <2>1 DEF c
    <2>3. IF x \in r THEN k[r] + f[x] = h[r] + g[x] ELSE k[r] = h[r]
        BY <1>6 DEF c
    <2>4. c # x => g[c] = f[c]
        BY <2>1
    <2>5. x \in s <=> x = c \/ x \in r
        BY <2>1
    <2>6. c \notin r
        OBVIOUS
    <2> HIDE DEF r
    <2>7. IF x \in s THEN k[s] + f[x] = h[s] + g[x] ELSE k[s] = h[s]
        BY <2>1, <2>2, <2>3, <2>4, <2>5, <2>6
    <2> QED BY <2>7
<1> HIDE DEF P
<1>7. S \in P
    BY <1>5, <1>6, SubsetInduction
<1> QED BY <1>1, <1>2, <1>7 DEF P

-----------------------------------------------------------------------------
(* Balances of an account map *)

Bal(accts, x, a) == IF x \in DOMAIN accts THEN get_balance(accts[x], a) ELSE 0

SameBalances(f, g) == \A x \in Addresses, a \in Assets : Bal(f, x, a) = Bal(g, x, a)

\* What the accounts hold of an asset together.
Supply(accts, a) == SumOver([x \in Addresses |-> Bal(accts, x, a)], Addresses)

\* An asset is there in full or not at all, and not at all unless the filter knows it.
SupplyOK(accts, known) ==
    \A a \in Assets : Supply(accts, a) \in {0, AssetMax} /\ (a \notin known => Supply(accts, a) = 0)

\* A uint64_t is a number, and so is the next one.
LEMMA UintNat == \A n \in Uint64 : n \in Nat /\ n + 1 \in Int
<1>1. Uint64 \subseteq Nat
    BY Wraps
<1> QED BY <1>1

\* A balance is a uint64_t.
LEMMA BalType ==
    ASSUME NEW f \in AccountMaps, NEW x, NEW a
    PROVE  Bal(f, x, a) \in Uint64 /\ Bal(f, x, a) \in Nat
<1>1. CASE x \in DOMAIN f
    <2>1. f[x] \in AccountSet
        BY <1>1, MapIs DEF AccountMaps
    <2>2. a \in DOMAIN f[x].balances => f[x].balances[a] \in Uint64
        BY <2>1, MapIs DEF AccountSet
    <2> QED BY <1>1, <2>2, Wraps DEF Bal, get_balance
<1>2. CASE x \notin DOMAIN f
    BY <1>2, Wraps DEF Bal
<1> QED BY <1>1, <1>2

\* What the operations of an account do to its balances.
LEMMA BalancesAfter ==
    ASSUME NEW act \in AccountSet, NEW a \in Assets, NEW n \in Uint64, NEW b
    PROVE  /\ get_balance(add_balance(act, a, n), b) =
                  IF b = a THEN (get_balance(act, a) + n) % Wrap ELSE get_balance(act, b)
           /\ can_reduce(act, a, n) =>
                  get_balance(reduce_balance(act, a, n), b) =
                      IF b = a THEN get_balance(act, a) - n ELSE get_balance(act, b)
           /\ get_balance(delete_asset(act, a), b) = IF b = a THEN 0 ELSE get_balance(act, b)
<1>1. ASSUME NEW f PROVE [act EXCEPT !.balances = f].balances = f
    BY DEF AccountSet
<1>2. ASSUME NEW f, NEW v PROVE DOMAIN Put(f, a, v) = DOMAIN f \cup {a} /\ \A y \in DOMAIN f \cup {a} : Put(f, a, v)[y] = IF y = a THEN v ELSE f[y]
    BY DEF Put
<1>3. ASSUME NEW f PROVE DOMAIN Without(f, a) = DOMAIN f \ {a} /\ \A y \in DOMAIN f \ {a} : Without(f, a)[y] = f[y]
    BY DEF Without
<1>8. ASSUME NEW c, NEW f, NEW v, c.balances = Put(f, a, v)
      PROVE  get_balance(c, b) = IF b = a THEN v ELSE IF b \in DOMAIN f THEN f[b] ELSE 0
    <2> DEFINE p == Put(f, a, v)
    <2>1. DOMAIN p = DOMAIN f \cup {a} /\ \A y \in DOMAIN f \cup {a} : p[y] = IF y = a THEN v ELSE f[y]
        BY <1>2
    <2> HIDE DEF p
    <2> QED BY <1>8, <2>1 DEF get_balance, p
<1>9. ASSUME NEW c, NEW f, c.balances = Without(f, a)
      PROVE  get_balance(c, b) = IF b = a THEN 0 ELSE IF b \in DOMAIN f THEN f[b] ELSE 0
    <2> DEFINE p == Without(f, a)
    <2>1. DOMAIN p = DOMAIN f \ {a} /\ \A y \in DOMAIN f \ {a} : p[y] = f[y]
        BY <1>3
    <2> HIDE DEF p
    <2> QED BY <1>9, <2>1 DEF get_balance, p
<1>4. get_balance(add_balance(act, a, n), b) = IF b = a THEN (get_balance(act, a) + n) % Wrap ELSE get_balance(act, b)
    <2> DEFINE v == (get_balance(act, a) + n) % Wrap
               c == add_balance(act, a, n)
    <2>1. c.balances = Put(act.balances, a, v)
        BY <1>1 DEF add_balance
    <2> HIDE DEF v, c
    <2>2. get_balance(c, b) = IF b = a THEN v ELSE IF b \in DOMAIN act.balances THEN act.balances[b] ELSE 0
        BY <1>8, <2>1
    <2>3. get_balance(act, b) = IF b \in DOMAIN act.balances THEN act.balances[b] ELSE 0
        BY DEF get_balance
    <2> QED BY <2>2, <2>3 DEF v, c
<1>6. get_balance(delete_asset(act, a), b) = IF b = a THEN 0 ELSE get_balance(act, b)
    <2> DEFINE c == delete_asset(act, a)
    <2>1. c.balances = Without(act.balances, a)
        BY <1>1 DEF delete_asset
    <2> HIDE DEF c
    <2>2. get_balance(c, b) = IF b = a THEN 0 ELSE IF b \in DOMAIN act.balances THEN act.balances[b] ELSE 0
        BY <1>9, <2>1
    <2> QED BY <2>2 DEF get_balance, c
<1>7. ASSUME can_reduce(act, a, n)
      PROVE  get_balance(reduce_balance(act, a, n), b) = IF b = a THEN get_balance(act, a) - n ELSE get_balance(act, b)
    <2>1. a \in DOMAIN act.balances /\ act.balances[a] \in Nat /\ n \in Nat /\ get_balance(act, a) = act.balances[a]
        <3>1. a \in DOMAIN act.balances
            BY <1>7 DEF can_reduce
        <3>2. act.balances[a] \in Uint64
            BY <3>1, MapIs DEF AccountSet
        <3> QED BY <3>1, <3>2, Wraps DEF get_balance
    <2> DEFINE c == reduce_balance(act, a, n)
    <2>2. c.balances =
              IF act.balances[a] = n THEN Without(act.balances, a) ELSE Put(act.balances, a, act.balances[a] - n)
        BY <1>1 DEF reduce_balance
    <2> HIDE DEF c
    <2>5. get_balance(act, b) = IF b \in DOMAIN act.balances THEN act.balances[b] ELSE 0
        BY DEF get_balance
    <2>3. CASE act.balances[a] = n
        <3>1. get_balance(c, b) = IF b = a THEN 0 ELSE IF b \in DOMAIN act.balances THEN act.balances[b] ELSE 0
            BY <1>9, <2>2, <2>3
        <3> QED BY <2>1, <2>3, <2>5, <3>1 DEF c
    <2>4. CASE act.balances[a] # n
        <3>1. get_balance(c, b) = IF b = a THEN act.balances[a] - n ELSE IF b \in DOMAIN act.balances THEN act.balances[b] ELSE 0
            BY <1>8, <2>2, <2>4
        <3> QED BY <2>1, <2>5, <3>1 DEF c
    <2> QED BY <2>3, <2>4
<1> QED BY <1>4, <1>6, <1>7

\* A nonce is no balance.
LEMMA NonceBalance ==
    ASSUME NEW act \in AccountSet, NEW m \in Int, NEW b
    PROVE  get_balance(set_nonce(act, m), b) = get_balance(act, b)
BY DEF set_nonce, get_balance, AccountSet

\* A new account has no balance.
LEMMA NewBalance == ASSUME NEW n, NEW a PROVE get_balance(NewAccount(n), a) = 0
BY DEF NewAccount, Nothing, get_balance

\* The balances after an account is put into a map.
LEMMA BalPut ==
    ASSUME NEW f, NEW x, NEW act, NEW y, NEW b
    PROVE  Bal(Put(f, x, act), y, b) = IF y = x THEN get_balance(act, b) ELSE Bal(f, y, b)
<1>1. /\ DOMAIN Put(f, x, act) = DOMAIN f \cup {x}
      /\ \A z \in DOMAIN f \cup {x} : Put(f, x, act)[z] = IF z = x THEN act ELSE f[z]
    BY DEF Put
<1> QED BY <1>1 DEF Bal

\* The supply is a number, no less than any balance.
LEMMA SupplyFacts ==
    ASSUME NEW f \in AccountMaps, NEW a
    PROVE  /\ Supply(f, a) \in Nat /\ \A x \in Addresses : Bal(f, x, a) <= Supply(f, a)
           /\ (\A x \in Addresses : Bal(f, x, a) = 0) => Supply(f, a) = 0
<1> DEFINE b == [x \in Addresses |-> Bal(f, x, a)]
<1>1. b \in [Addresses -> Nat] /\ \A x \in Addresses : b[x] = Bal(f, x, a)
    BY BalType
<1>2. Supply(f, a) = SumOver(b, Addresses)
    BY DEF Supply
<1> HIDE DEF b
<1> QED BY <1>1, <1>2, SumFacts, FiniteAssumption

\* Equal balances have equal supplies.
LEMMA SupplySame ==
    ASSUME NEW f, NEW g, NEW a, \A x \in Addresses : Bal(g, x, a) = Bal(f, x, a)
    PROVE  Supply(g, a) = Supply(f, a)
<1>1. [x \in Addresses |-> Bal(g, x, a)] = [x \in Addresses |-> Bal(f, x, a)]
    OBVIOUS
<1> QED BY <1>1 DEF Supply

\* The supply changes as the only balance that does.
LEMMA SupplyChange ==
    ASSUME NEW f \in AccountMaps, NEW g \in AccountMaps, NEW a, NEW x \in Addresses,
           \A y \in Addresses \ {x} : Bal(g, y, a) = Bal(f, y, a)
    PROVE  Supply(g, a) + Bal(f, x, a) = Supply(f, a) + Bal(g, x, a)
<1> DEFINE b == [y \in Addresses |-> Bal(f, y, a)]
           c == [y \in Addresses |-> Bal(g, y, a)]
<1>1. /\ b \in [Addresses -> Nat] /\ \A y \in Addresses : b[y] = Bal(f, y, a)
      /\ c \in [Addresses -> Nat] /\ \A y \in Addresses : c[y] = Bal(g, y, a)
    BY BalType
<1>2. Supply(f, a) = SumOver(b, Addresses) /\ Supply(g, a) = SumOver(c, Addresses)
    BY DEF Supply
<1> HIDE DEF b, c
<1>3. SumOver(c, Addresses) + b[x] = SumOver(b, Addresses) + c[x]
    <2>1. \A y \in Addresses \ {x} : c[y] = b[y]
        BY <1>1
    <2> QED BY <1>1, <2>1, SumChange, FiniteAssumption
<1> QED BY <1>1, <1>2, <1>3

-----------------------------------------------------------------------------
(* Credits *)

ToAmounts(outs, x) == [i \in 1 .. Len(outs) |-> IF outs[i].receiver = x THEN outs[i].count ELSE 0]

\* A number that fits does not wrap.
LEMMA NoWrap == ASSUME NEW n \in Nat, n < Wrap PROVE n % Wrap = n
<1>1. Wrap \in Nat \ {0} /\ n \in 0 .. Wrap - 1 /\ n = Wrap * 0 + n
    BY AmountAssumption
<1> QED BY <1>1, ModUnique

\* The sums of the first amounts lead to the total and are not above it.
LEMMA PartialSums ==
    ASSUME NEW seq \in Seq(Nat)
    PROVE  \E p \in [0 .. Len(seq) -> Nat] :
               /\ p[0] = 0 /\ p[Len(seq)] = Total(seq)
               /\ \A i \in 1 .. Len(seq) : p[i] = p[i - 1] + seq[i]
               /\ \A i \in 0 .. Len(seq) : p[i] <= Total(seq)
<1> DEFINE n == Len(seq)
<1>0. n \in Nat /\ \A i \in 1 .. n : seq[i] \in Nat
    BY LenProperties, ElementOfSeq
<1>1. PICK p : SumPath(0, seq, p)
    BY SumUnfold
<1>2. Total(seq) = SummedOf(0, seq)
    BY Zenon DEF Total, SummedOf
<1>3. p \in [0 .. n -> Nat] /\ p[0] = 0 /\ p[n] = Total(seq) /\ \A i \in 1 .. n : p[i] = p[i - 1] + seq[i]
    BY <1>1, <1>2 DEF SumPath, Plus
<1> HIDE DEF n
<1> DEFINE P == {k \in 0 .. n : p[n - k] <= p[n]}
<1>4. 0 \in P
    BY <1>0, <1>3
<1>5. ASSUME NEW k \in 1 .. n, k - 1 \in P PROVE k \in P
    <2>1. p[n - (k - 1)] <= p[n]
        BY <1>5
    <2>2. n - (k - 1) \in 1 .. n /\ n - (k - 1) - 1 = n - k /\ n - k \in 0 .. n /\ n \in 0 .. n /\ k \in 0 .. n
        BY <1>0
    <2>3. p[n - (k - 1)] = p[n - k] + seq[n - (k - 1)] /\ seq[n - (k - 1)] \in Nat
        BY <1>0, <1>3, <2>2
    <2>4. p[n - k] \in Nat /\ p[n] \in Nat
        BY <1>3, <2>2
    <2>5. p[n - k] <= p[n]
        BY <2>1, <2>3, <2>4
    <2> QED BY <2>2, <2>5
<1> HIDE DEF P
<1>6. \A k \in 0 .. n : k \in P
    BY <1>0, <1>4, <1>5, Induction
<1>7. ASSUME NEW i \in 0 .. n PROVE p[i] <= p[n]
    <2>1. n - i \in 0 .. n /\ n - (n - i) = i
        BY <1>0
    <2>2. n - i \in P
        BY <1>6, <2>1
    <2> QED BY <2>1, <2>2 DEF P
<1> QED BY <1>3, <1>7 DEF n

\* The amounts of a transfer's outputs are numbers.
LEMMA OutAmountsType ==
    ASSUME NEW outs \in Outs, NEW x
    PROVE  /\ OutAmounts(outs) \in Seq(Nat) /\ Len(OutAmounts(outs)) = Len(outs)
           /\ ToAmounts(outs, x) \in Seq(Nat) /\ Len(ToAmounts(outs, x)) = Len(outs)
           /\ Total(OutAmounts(outs)) \in Nat /\ Total(ToAmounts(outs, x)) \in Nat
<1>1. Len(outs) \in Nat /\ \A i \in 1 .. Len(outs) : outs[i] \in OutSet
    BY OutsAre
<1>2. \A i \in 1 .. Len(outs) : outs[i].count \in Nat
    BY <1>1, Wraps DEF OutSet
<1>3. OutAmounts(outs) \in Seq(Nat) /\ Len(OutAmounts(outs)) = Len(outs)
    BY <1>1, <1>2 DEF OutAmounts
<1>4. ToAmounts(outs, x) \in Seq(Nat) /\ Len(ToAmounts(outs, x)) = Len(outs)
    BY <1>1, <1>2 DEF ToAmounts
<1> QED BY <1>3, <1>4, TotalFacts

\* A credit raises one balance, which wraps.
LEMMA CreditBalance ==
    ASSUME NEW a \in Assets, NEW accts \in AccountMaps, NEW out \in OutSet, NEW x, NEW b
    PROVE  Bal(Credit(accts, a, out), x, b) =
               IF x = out.receiver /\ b = a THEN (Bal(accts, x, a) + out.count) % Wrap ELSE Bal(accts, x, b)
<1> DEFINE r == out.receiver
           act == IF r \in DOMAIN accts THEN accts[r] ELSE NewAccount(0)
<1>1. act \in AccountSet /\ out.count \in Uint64 /\ 0 \in Int
    <2>1. r \in DOMAIN accts => accts[r] \in AccountSet
        BY MapIs DEF AccountMaps
    <2>2. NewAccount(0) \in AccountSet
        BY NewAccountType, Wraps
    <2> QED BY <2>1, <2>2 DEF OutSet
<1>2. \A c : get_balance(act, c) = Bal(accts, r, c)
    BY NewBalance DEF Bal
<1>3. Credit(accts, a, out) = Put(accts, r, add_balance(act, a, out.count))
    BY DEF Credit
<1> HIDE DEF act
<1>4. get_balance(add_balance(act, a, out.count), b) =
          IF b = a THEN (get_balance(act, a) + out.count) % Wrap ELSE get_balance(act, b)
    BY <1>1, BalancesAfter
<1>5. Bal(Credit(accts, a, out), x, b) =
          IF x = r THEN get_balance(add_balance(act, a, out.count), b) ELSE Bal(accts, x, b)
    BY <1>3, BalPut
<1> QED BY <1>2, <1>4, <1>5

\* While the supply is below 2^64, the outputs of a transfer raise the balances of its
\* receivers, and the supply, by what they say: no credit wraps.
LEMMA CreditedBalances ==
    ASSUME NEW a \in Assets, NEW paid \in AccountMaps, NEW outs \in Outs,
           Supply(paid, a) + Total(OutAmounts(outs)) < Wrap
    PROVE  LET new == Credited(a, paid, outs)
           IN  /\ new \in AccountMaps
               /\ Supply(new, a) = Supply(paid, a) + Total(OutAmounts(outs))
               /\ \A x \in Addresses : Bal(new, x, a) = Bal(paid, x, a) + Total(ToAmounts(outs, x))
               /\ \A x \in Addresses : \A b : b # a => Bal(new, x, b) = Bal(paid, x, b)
<1> DEFINE n == Len(outs)
           T == Total(OutAmounts(outs))
<1>1. n \in Nat /\ DOMAIN outs = 1 .. n /\ \A i \in 1 .. n : outs[i] \in OutSet
    BY OutsAre
<1>2. CreditClosed(a, AccountMaps, outs)
    BY <1>1, CreditType DEF CreditClosed
<1>3. PICK f : CreditPath(a, AccountMaps, paid, outs, f)
    BY <1>2, CreditUnfold
<1>4. /\ f \in [0 .. n -> AccountMaps] /\ f[0] = paid /\ f[n] = Credited(a, paid, outs)
      /\ \A i \in 1 .. n : f[i] = Credit(f[i - 1], a, outs[i])
    BY <1>3 DEF CreditPath
<1>5. PICK p \in [0 .. n -> Nat] : /\ p[0] = 0 /\ p[n] = T
                                   /\ \A i \in 1 .. n : p[i] = p[i - 1] + outs[i].count
                                   /\ \A i \in 0 .. n : p[i] <= T
    <2>1. \A i \in 1 .. n : OutAmounts(outs)[i] = outs[i].count
        BY DEF OutAmounts
    <2>2. OutAmounts(outs) \in Seq(Nat) /\ Len(OutAmounts(outs)) = n
        BY OutAmountsType
    <2>3. \E p \in [0 .. n -> Nat] : /\ p[0] = 0 /\ p[n] = T
                                     /\ \A i \in 1 .. n : p[i] = p[i - 1] + OutAmounts(outs)[i]
                                     /\ \A i \in 0 .. n : p[i] <= T
        BY <2>2, PartialSums
    <2> QED BY <2>1, <2>3
<1>6. T \in Nat /\ Supply(paid, a) \in Nat /\ Wrap \in Nat
    BY OutAmountsType, SupplyFacts, AmountAssumption
<1> HIDE DEF n, T
\* One credit.
<1>7. ASSUME NEW i \in 1 .. n, Supply(f[i - 1], a) = Supply(paid, a) + p[i - 1]
      PROVE  /\ Supply(f[i], a) = Supply(paid, a) + p[i]
             /\ \A x \in Addresses : Bal(f[i], x, a) =
                    Bal(f[i - 1], x, a) + (IF outs[i].receiver = x THEN outs[i].count ELSE 0)
             /\ \A x \in Addresses : \A b : b # a => Bal(f[i], x, b) = Bal(f[i - 1], x, b)
    <2> DEFINE r == outs[i].receiver
               k == outs[i].count
               g == f[i - 1]
    <2>1. /\ i - 1 \in 0 .. n /\ i \in 0 .. n
          /\ g \in AccountMaps /\ f[i] \in AccountMaps /\ outs[i] \in OutSet /\ r \in Addresses /\ k \in Nat
          /\ f[i] = Credit(g, a, outs[i]) /\ p[i] = p[i - 1] + k /\ p[i] <= T /\ p[i - 1] \in Nat
        <3>1. i - 1 \in 0 .. n /\ i \in 0 .. n
            BY <1>1
        <3>2. outs[i] \in OutSet /\ r \in Addresses /\ k \in Nat
            BY <1>1, Wraps DEF OutSet
        <3>3. g \in AccountMaps /\ f[i] \in AccountMaps /\ f[i] = Credit(g, a, outs[i])
            BY <1>4, <3>1
        <3>4. p[i] = p[i - 1] + k /\ p[i] <= T /\ p[i - 1] \in Nat
            BY <1>5, <3>1
        <3> QED BY <3>1, <3>2, <3>3, <3>4
    <2>2. \A x, b : Bal(f[i], x, b) = IF x = r /\ b = a THEN (Bal(g, x, a) + k) % Wrap ELSE Bal(g, x, b)
        BY <2>1, CreditBalance
    <2>3. Bal(g, r, a) \in Nat /\ Bal(g, r, a) <= Supply(g, a) /\ Supply(g, a) \in Nat
        BY <2>1, BalType, SupplyFacts
    <2>9. Supply(f[i], a) \in Nat
        BY <2>1, SupplyFacts
    <2>4. Bal(g, r, a) + k < Wrap
        BY <1>6, <1>7, <2>1, <2>3 DEF T
    <2>5. (Bal(g, r, a) + k) % Wrap = Bal(g, r, a) + k
        BY <2>1, <2>3, <2>4, NoWrap
    <2>6. \A x \in Addresses : Bal(f[i], x, a) = Bal(g, x, a) + (IF r = x THEN k ELSE 0)
        <3> TAKE x \in Addresses
        <3>1. Bal(g, x, a) \in Nat
            BY <2>1, BalType
        <3>2. CASE r = x
            BY <2>2, <2>5, <3>2
        <3>3. CASE r # x
            BY <2>2, <3>1, <3>3
        <3> QED BY <3>2, <3>3
    <2>7. \A x \in Addresses : \A b : b # a => Bal(f[i], x, b) = Bal(g, x, b)
        BY <2>2
    <2>8. Supply(f[i], a) + Bal(g, r, a) = Supply(g, a) + Bal(f[i], r, a)
        BY <2>1, <2>2, SupplyChange
    <2>10. Bal(f[i], r, a) = Bal(g, r, a) + k
        BY <2>1, <2>6
    <2>11. Supply(f[i], a) = Supply(g, a) + k
        BY <2>1, <2>3, <2>8, <2>9, <2>10
    <2>12. Supply(f[i], a) = Supply(paid, a) + p[i]
        BY <1>6, <1>7, <2>1, <2>11
    <2> QED BY <2>6, <2>7, <2>12
<1> DEFINE P == {i \in 0 .. n : Supply(f[i], a) = Supply(paid, a) + p[i]}
<1>8. 0 \in P
    BY <1>1, <1>4, <1>5, <1>6
<1>9. ASSUME NEW i \in 1 .. n, i - 1 \in P PROVE i \in P
    BY <1>1, <1>7, <1>9
<1> HIDE DEF P
<1>10. \A i \in 0 .. n : i \in P
    BY <1>1, <1>8, <1>9, Induction
<1>11. n \in 0 .. n /\ \A i \in 0 .. n : Supply(f[i], a) = Supply(paid, a) + p[i]
    BY <1>1, <1>10 DEF P
<1>12. \A i \in 1 .. n : i - 1 \in 0 .. n
    BY <1>1
<1>13. ASSUME NEW x \in Addresses, NEW b, b # a PROVE Bal(f[n], x, b) = Bal(paid, x, b)
    <2> DEFINE Q == {i \in 0 .. n : Bal(f[i], x, b) = Bal(paid, x, b)}
    <2>1. 0 \in Q
        BY <1>1, <1>4
    <2>2. ASSUME NEW i \in 1 .. n, i - 1 \in Q PROVE i \in Q
        <3>1. Supply(f[i - 1], a) = Supply(paid, a) + p[i - 1]
            BY <1>11, <1>12
        <3>2. Bal(f[i], x, b) = Bal(f[i - 1], x, b)
            BY <1>7, <1>13, <3>1
        <3> QED BY <1>1, <2>2, <3>2
    <2> HIDE DEF Q
    <2>3. \A i \in 0 .. n : i \in Q
        BY <1>1, <2>1, <2>2, Induction
    <2> QED BY <1>11, <2>3 DEF Q
<1>14. ASSUME NEW x \in Addresses PROVE Bal(f[n], x, a) = Bal(paid, x, a) + Total(ToAmounts(outs, x))
    <2> DEFINE W == Total(ToAmounts(outs, x))
    <2>1. PICK q \in [0 .. n -> Nat] : /\ q[0] = 0 /\ q[n] = W
                                       /\ \A i \in 1 .. n : q[i] = q[i - 1] + (IF outs[i].receiver = x THEN outs[i].count ELSE 0)
        <3>1. \A i \in 1 .. n : ToAmounts(outs, x)[i] = IF outs[i].receiver = x THEN outs[i].count ELSE 0
            BY DEF ToAmounts, n
        <3>2. ToAmounts(outs, x) \in Seq(Nat) /\ Len(ToAmounts(outs, x)) = n
            BY OutAmountsType DEF n
        <3>3. \E q \in [0 .. n -> Nat] : /\ q[0] = 0 /\ q[n] = W
                                         /\ \A i \in 1 .. n : q[i] = q[i - 1] + ToAmounts(outs, x)[i]
            BY <3>2, PartialSums
        <3> QED BY <3>1, <3>3
    <2> HIDE DEF W
    <2> DEFINE Q == {i \in 0 .. n : Bal(f[i], x, a) = Bal(paid, x, a) + q[i]}
    <2>5. Bal(paid, x, a) \in Nat
        BY BalType
    <2>2. 0 \in Q
        BY <1>1, <1>4, <2>1, <2>5
    <2>3. ASSUME NEW i \in 1 .. n, i - 1 \in Q PROVE i \in Q
        <3> DEFINE d == IF outs[i].receiver = x THEN outs[i].count ELSE 0
        <3>1. d \in Nat
            BY <1>1, Wraps DEF OutSet
        <3>2. Bal(f[i], x, a) = Bal(f[i - 1], x, a) + d
            BY <1>7, <1>11, <1>12
        <3>3. q[i] = q[i - 1] + d /\ q[i - 1] \in Nat /\ i \in 0 .. n
            BY <1>1, <1>12, <2>1
        <3> HIDE DEF d
        <3>4. Bal(f[i - 1], x, a) = Bal(paid, x, a) + q[i - 1]
            BY <2>3
        <3>5. Bal(f[i], x, a) = Bal(paid, x, a) + q[i]
            BY <2>5, <3>1, <3>2, <3>3, <3>4
        <3> QED BY <3>3, <3>5
    <2> HIDE DEF Q
    <2>4. \A i \in 0 .. n : i \in Q
        BY <1>1, <2>2, <2>3, Induction
    <2> QED BY <1>11, <2>1, <2>4 DEF Q, W
<1>15. f[n] \in AccountMaps /\ Supply(f[n], a) = Supply(paid, a) + T
    BY <1>4, <1>5, <1>11
<1> QED BY <1>4, <1>13, <1>14, <1>15 DEF T

-----------------------------------------------------------------------------
(* What a transaction does to the balances *)

ReceivedBy(t, x, a) == IF t.op = "Append" /\ t.asset = a THEN Total(ToAmounts(t.outs, x)) ELSE 0

\* The balances new are the balances old after the transaction t.
Moves(old, t, new) ==
    \A x \in Addresses, a \in Assets :
        Bal(new, x, a) + SentBy(t, x, a) = Bal(old, x, a) + EstablishedBy(t, x, a) + ReceivedBy(t, x, a)

\* What the sender of a transfer has left.
LEMMA PaidBalance ==
    ASSUME NEW f \in AccountMaps, NEW t \in Transactions, t.sender \in DOMAIN f,
           can_reduce(f[t.sender], t.asset, t.count), NEW x, NEW b
    PROVE  /\ Put(f, t.sender, SenderAfter(f[t.sender], t)) \in AccountMaps
           /\ t.count <= Bal(f, t.sender, t.asset)
           /\ Bal(Put(f, t.sender, SenderAfter(f[t.sender], t)), x, b) =
                  IF x = t.sender /\ b = t.asset THEN Bal(f, x, b) - t.count ELSE Bal(f, x, b)
<1> DEFINE s == t.sender
           less == reduce_balance(f[s], t.asset, t.count)
           act == SenderAfter(f[s], t)
<1>1. /\ f[s] \in AccountSet /\ t.asset \in Assets /\ t.count \in Uint64 /\ t.nonce + 1 \in Int
      /\ s \in Addresses /\ t.count \in Nat
    <2>1. f[s] \in AccountSet
        BY MapIs DEF AccountMaps
    <2>2. t.asset \in Assets /\ t.count \in Uint64 /\ t.nonce \in Uint64 /\ s \in Addresses
        BY DEF Transactions
    <2>3. t.nonce + 1 \in Int /\ t.count \in Nat
        BY <2>2, UintNat
    <2> QED BY <2>1, <2>2, <2>3
<1>2. less \in AccountSet
    BY <1>1, AccountOps
<1>3. \A c : get_balance(less, c) = IF c = t.asset THEN get_balance(f[s], t.asset) - t.count ELSE get_balance(f[s], c)
    BY <1>1, BalancesAfter
<1>4. act = set_nonce(less, t.nonce + 1)
    BY DEF SenderAfter
<1> HIDE DEF less
<1>5. act \in AccountSet /\ \A c : get_balance(act, c) = get_balance(less, c)
    BY <1>1, <1>2, <1>4, AccountOps, NonceBalance
<1> HIDE DEF act
<1>6. Put(f, s, act) \in AccountMaps
    BY <1>1, <1>5, PutAccount
<1>7. Bal(Put(f, s, act), x, b) = IF x = s THEN get_balance(act, b) ELSE Bal(f, x, b)
    BY BalPut
<1>8. \A c : get_balance(f[s], c) = Bal(f, s, c)
    BY DEF Bal
<1>9. t.count <= Bal(f, s, t.asset)
    <2>1. t.asset \in DOMAIN f[s].balances /\ f[s].balances[t.asset] >= t.count
        BY DEF can_reduce
    <2>2. f[s].balances[t.asset] \in Uint64
        BY <1>1, <2>1, MapIs DEF AccountSet
    <2>3. f[s].balances[t.asset] \in Nat
        BY <2>2, Wraps
    <2> QED BY <1>1, <2>1, <2>3 DEF Bal, get_balance
<1> QED BY <1>3, <1>5, <1>6, <1>7, <1>8, <1>9 DEF act

\* What ApplyAppend makes of the accounts when it succeeds.
LEMMA AppendIs ==
    ASSUME NEW st \in ApplyStates, NEW t \in Transactions, ApplyAppend(st, t).ok
    PROVE  /\ t.sender \in DOMAIN st.accounts
           /\ can_reduce(st.accounts[t.sender], t.asset, t.count)
           /\ ApplyAppend(st, t).accounts =
                  Credited(t.asset, Put(st.accounts, t.sender, SenderAfter(st.accounts[t.sender], t)), t.outs)
           /\ ApplyAppend(st, t).filter = st.filter
           /\ ApplyAppend(st, t).ops = st.ops \o RollbackOfTransaction(t, st.accounts)
<1> DEFINE s == t.sender
           ops == st.ops \o RollbackOfTransaction(t, st.accounts)
           ok == s \in DOMAIN st.accounts /\ can_reduce(st.accounts[s], t.asset, t.count)
           paid == Put(st.accounts, s, SenderAfter(st.accounts[s], t))
           credited == Credited(t.asset, paid, t.outs)
           restored == IF s \notin DOMAIN st.accounts THEN st.accounts
                       ELSE Put(st.accounts, s, set_balance(st.accounts[s], t.asset,
                                                            get_balance(st.accounts[s], t.asset)))
           touched == st.touched \cup Touched(t)
           after == IF ok THEN credited ELSE restored
<1>1. ApplyAppend(st, t) = ApplyState(after, ops, st.filter, touched, ok)
    BY Zenon DEF ApplyAppend, Credited
<1> HIDE DEF after, ops, touched, ok
<1>2. /\ ApplyState(after, ops, st.filter, touched, ok).accounts = after
      /\ ApplyState(after, ops, st.filter, touched, ok).ops = ops
      /\ ApplyState(after, ops, st.filter, touched, ok).filter = st.filter
      /\ ApplyState(after, ops, st.filter, touched, ok).ok = ok
    BY DEF ApplyState
<1>3. ok
    BY <1>1, <1>2
<1>4. after = credited
    BY <1>3, Zenon DEF after
<1>5. s \in DOMAIN st.accounts /\ can_reduce(st.accounts[s], t.asset, t.count)
    BY <1>3 DEF ok
<1> QED BY <1>1, <1>2, <1>4, <1>5, Zenon DEF ops

\* A transfer keeps the supply and moves what it says.
LEMMA AppendMoves ==
    ASSUME NEW st \in ApplyStates, NEW t \in Transactions, t.op = "Append", WellFormed(t),
           SupplyOK(st.accounts, st.filter), ApplyAppend(st, t).ok
    PROVE  /\ SupplyOK(ApplyAppend(st, t).accounts, ApplyAppend(st, t).filter)
           /\ Moves(st.accounts, t, ApplyAppend(st, t).accounts)
<1> DEFINE s == t.sender
           a == t.asset
           f == st.accounts
           paid == Put(f, s, SenderAfter(f[s], t))
           new == Credited(a, paid, t.outs)
<1>1. /\ s \in Addresses /\ a \in Assets /\ t.count \in Nat /\ t.outs \in Outs /\ f \in AccountMaps
      /\ AssetMax \in Nat /\ AssetMax < Wrap
    BY StateFields, Wraps, AmountAssumption DEF Transactions
<1>2. /\ s \in DOMAIN f /\ can_reduce(f[s], a, t.count) /\ ApplyAppend(st, t).accounts = new
      /\ ApplyAppend(st, t).filter = st.filter
    BY AppendIs
<1>3. /\ paid \in AccountMaps /\ t.count <= Bal(f, s, a)
      /\ \A x, b : Bal(paid, x, b) = IF x = s /\ b = a THEN Bal(f, x, b) - t.count ELSE Bal(f, x, b)
    BY <1>1, <1>2, PaidBalance
<1>4. Total(OutAmounts(t.outs)) = t.count
    BY DEF WellFormed
<1> HIDE DEF paid
<1>5. Supply(paid, a) + t.count = Supply(f, a)
    <2>1. \A y \in Addresses \ {s} : Bal(paid, y, a) = Bal(f, y, a)
        BY <1>3
    <2>2. Supply(paid, a) + Bal(f, s, a) = Supply(f, a) + Bal(paid, s, a)
        BY <1>1, <1>3, <2>1, SupplyChange
    <2>3. Bal(f, s, a) \in Nat /\ Supply(paid, a) \in Nat /\ Supply(f, a) \in Nat
        BY <1>1, <1>3, BalType, SupplyFacts
    <2>4. Bal(paid, s, a) = Bal(f, s, a) - t.count
        BY <1>3
    <2> QED BY <1>1, <2>2, <2>3, <2>4
<1>6. Supply(f, a) \in {0, AssetMax}
    BY <1>1 DEF SupplyOK
<1>7. Supply(paid, a) + Total(OutAmounts(t.outs)) < Wrap
    <2>1. Supply(f, a) < Wrap
        BY <1>1, <1>6, AmountAssumption
    <2> QED BY <1>4, <1>5, <2>1
<1>8. /\ new \in AccountMaps
      /\ Supply(new, a) = Supply(paid, a) + Total(OutAmounts(t.outs))
      /\ \A x \in Addresses : Bal(new, x, a) = Bal(paid, x, a) + Total(ToAmounts(t.outs, x))
      /\ \A x \in Addresses : \A b : b # a => Bal(new, x, b) = Bal(paid, x, b)
    BY <1>1, <1>3, <1>7, CreditedBalances
<1> HIDE DEF new
<1>9. Supply(new, a) = Supply(f, a)
    BY <1>4, <1>5, <1>8
<1>10. \A b : b # a => Supply(new, b) = Supply(f, b)
    <2> TAKE b
    <2> HAVE b # a
    <2>1. \A x \in Addresses : Bal(new, x, b) = Bal(f, x, b)
        BY <1>3, <1>8
    <2> QED BY <2>1, SupplySame
<1>11. SupplyOK(new, st.filter)
    BY <1>9, <1>10 DEF SupplyOK
<1>12. ASSUME NEW x \in Addresses, NEW b \in Assets
       PROVE  Bal(new, x, b) + SentBy(t, x, b) = Bal(f, x, b) + EstablishedBy(t, x, b) + ReceivedBy(t, x, b)
    <2>1. EstablishedBy(t, x, b) = 0
        BY DEF EstablishedBy
    <2>2. Bal(f, x, b) \in Nat /\ Bal(new, x, b) \in Nat /\ Total(ToAmounts(t.outs, x)) \in Nat
        BY <1>1, <1>8, BalType, OutAmountsType
    <2>3. CASE b = a
        <3>1. ReceivedBy(t, x, b) = Total(ToAmounts(t.outs, x)) /\ SentBy(t, x, b) = IF s = x THEN t.count ELSE 0
            BY <2>3 DEF ReceivedBy, SentBy
        <3>2. Bal(new, x, b) = Bal(paid, x, b) + Total(ToAmounts(t.outs, x))
            BY <1>8, <2>3
        <3>3. Bal(paid, x, b) = IF x = s THEN Bal(f, x, b) - t.count ELSE Bal(f, x, b)
            BY <1>3, <2>3
        <3> QED BY <1>1, <2>1, <2>2, <3>1, <3>2, <3>3
    <2>4. CASE b # a
        <3>1. ReceivedBy(t, x, b) = 0 /\ SentBy(t, x, b) = 0
            BY <2>4 DEF ReceivedBy, SentBy
        <3>2. Bal(new, x, b) = Bal(f, x, b)
            BY <1>3, <1>8, <2>4
        <3> QED BY <2>1, <2>2, <3>1, <3>2
    <2> QED BY <2>3, <2>4
<1> QED BY <1>2, <1>11, <1>12 DEF Moves

\* What ApplyEstablish makes of the accounts when it succeeds.
LEMMA EstablishIs ==
    ASSUME NEW st \in ApplyStates, st.ok, NEW t \in Transactions, ApplyEstablish(st, t).ok
    PROVE  LET act == IF t.sender \in DOMAIN st.accounts THEN st.accounts[t.sender] ELSE NewAccount(1)
           IN  /\ t.asset \notin st.filter
               /\ ApplyEstablish(st, t).accounts = Put(st.accounts, t.sender, add_balance(act, t.asset, AssetMax))
               /\ ApplyEstablish(st, t).filter = st.filter \cup {t.asset}
               /\ ApplyEstablish(st, t).ops = st.ops \o RollbackOfTransaction(t, st.accounts)
<1> DEFINE act == IF t.sender \in DOMAIN st.accounts THEN st.accounts[t.sender] ELSE NewAccount(1)
           after == Put(st.accounts, t.sender, add_balance(act, t.asset, AssetMax))
           ops == st.ops \o RollbackOfTransaction(t, st.accounts)
<1>1. t.asset \notin st.filter
    <2>1. CASE t.asset \in st.filter
        <3>1. ApplyEstablish(st, t) = [st EXCEPT !.ok = FALSE]
            BY <2>1 DEF ApplyEstablish
        <3>2. ~[st EXCEPT !.ok = FALSE].ok
            BY DEF ApplyStates
        <3> QED BY <3>1, <3>2
    <2> QED BY <2>1
<1>2. ApplyEstablish(st, t) = ApplyState(after, ops, st.filter \cup {t.asset}, st.touched \cup {t.sender}, TRUE)
    BY <1>1, Zenon DEF ApplyEstablish
<1> HIDE DEF after, ops
<1>3. /\ ApplyEstablish(st, t).accounts = after /\ ApplyEstablish(st, t).ops = ops
      /\ ApplyEstablish(st, t).filter = st.filter \cup {t.asset}
    BY <1>2 DEF ApplyState
<1> QED BY <1>1, <1>3, Zenon DEF after, ops

\* An asset that is established is there in full.
LEMMA EstablishMoves ==
    ASSUME NEW st \in ApplyStates, st.ok, NEW t \in Transactions, t.op = "Establish",
           SupplyOK(st.accounts, st.filter), ApplyEstablish(st, t).ok
    PROVE  /\ SupplyOK(ApplyEstablish(st, t).accounts, ApplyEstablish(st, t).filter)
           /\ Moves(st.accounts, t, ApplyEstablish(st, t).accounts)
<1> DEFINE s == t.sender
           a == t.asset
           f == st.accounts
           act == IF s \in DOMAIN f THEN f[s] ELSE NewAccount(1)
           rich == add_balance(act, a, AssetMax)
           new == Put(f, s, rich)
<1>1. /\ s \in Addresses /\ a \in Assets /\ f \in AccountMaps /\ AssetMax \in Nat /\ AssetMax < Wrap
      /\ AssetMax \in Uint64 /\ 0 \in Int
    BY StateFields, Wraps, AmountAssumption DEF Transactions
<1>2. /\ a \notin st.filter /\ ApplyEstablish(st, t).accounts = new
      /\ ApplyEstablish(st, t).filter = st.filter \cup {a}
    BY EstablishIs
<1>3. act \in AccountSet
    <2>1. s \in DOMAIN f => f[s] \in AccountSet
        BY <1>1, MapIs DEF AccountMaps
    <2>2. NewAccount(1) \in AccountSet
        BY NewAccountType, Wraps
    <2> QED BY <2>1, <2>2
<1>4. \A c : get_balance(act, c) = Bal(f, s, c)
    BY NewBalance DEF Bal
<1> HIDE DEF act
<1>5. \A c : get_balance(rich, c) = IF c = a THEN (get_balance(act, a) + AssetMax) % Wrap ELSE get_balance(act, c)
    BY <1>1, <1>3, BalancesAfter
<1>6. rich \in AccountSet
    BY <1>1, <1>3, AccountOps
<1> HIDE DEF rich
<1>7. new \in AccountMaps
    BY <1>1, <1>6, PutAccount
<1>8. \A x, b : Bal(new, x, b) = IF x = s THEN get_balance(rich, b) ELSE Bal(f, x, b)
    BY BalPut
<1> HIDE DEF new
<1>9. Supply(f, a) = 0
    BY <1>1, <1>2 DEF SupplyOK
<1>10. Bal(f, s, a) = 0 /\ \A x \in Addresses : Bal(f, x, a) = 0
    BY <1>1, <1>9, BalType, SupplyFacts
<1>11. (0 + AssetMax) % Wrap = AssetMax
    BY <1>1, NoWrap
<1>12. \A x, b : Bal(new, x, b) = IF x = s /\ b = a THEN AssetMax ELSE Bal(f, x, b)
    BY <1>4, <1>5, <1>8, <1>10, <1>11
<1>13. Supply(new, a) = AssetMax
    <2>1. Supply(new, a) + Bal(f, s, a) = Supply(f, a) + Bal(new, s, a)
        BY <1>1, <1>7, <1>12, SupplyChange
    <2>2. Supply(new, a) \in Nat
        BY <1>7, SupplyFacts
    <2> QED BY <1>1, <1>9, <1>10, <1>12, <2>1, <2>2
<1>14. \A b : b # a => Supply(new, b) = Supply(f, b)
    <2> TAKE b
    <2> HAVE b # a
    <2>1. \A x \in Addresses : Bal(new, x, b) = Bal(f, x, b)
        BY <1>12
    <2> QED BY <2>1, SupplySame
<1>15. SupplyOK(new, st.filter \cup {a})
    BY <1>13, <1>14 DEF SupplyOK
<1>16. ASSUME NEW x \in Addresses, NEW b \in Assets
       PROVE  Bal(new, x, b) + SentBy(t, x, b) = Bal(f, x, b) + EstablishedBy(t, x, b) + ReceivedBy(t, x, b)
    <2>1. SentBy(t, x, b) = 0 /\ ReceivedBy(t, x, b) = 0
        BY DEF SentBy, ReceivedBy
    <2>2. EstablishedBy(t, x, b) = IF x = s /\ b = a THEN AssetMax ELSE 0
        BY DEF EstablishedBy
    <2>3. Bal(f, x, b) \in Nat
        BY <1>1, BalType
    <2> QED BY <1>1, <1>10, <1>12, <2>1, <2>2, <2>3
<1> QED BY <1>2, <1>15, <1>16 DEF Moves

\* A transaction moves what it says.
LEMMA TransactionMoves ==
    ASSUME NEW st \in ApplyStates, NEW t \in Transactions, WellFormed(t),
           SupplyOK(st.accounts, st.filter), ApplyTransaction(st, t).ok
    PROVE  /\ SupplyOK(ApplyTransaction(st, t).accounts, ApplyTransaction(st, t).filter)
           /\ Moves(st.accounts, t, ApplyTransaction(st, t).accounts)
<1>1. st.ok
    BY TransactionKeeps DEF Keeps
<1>2. CASE t.op = "Append"
    <2>1. ApplyTransaction(st, t) = ApplyAppend(st, t)
        BY <1>1, <1>2 DEF ApplyTransaction
    <2> QED BY <1>2, <2>1, AppendMoves
<1>3. CASE t.op = "Establish"
    <2>1. ApplyTransaction(st, t) = ApplyEstablish(st, t)
        BY <1>1, <1>3 DEF ApplyTransaction
    <2> QED BY <1>1, <1>3, <2>1, EstablishMoves
<1>4. CASE t.op \notin {"Append", "Establish"}
    <2>1. ApplyTransaction(st, t) = st
        BY <1>1, <1>4 DEF ApplyTransaction
    <2>2. \A x, a : SentBy(t, x, a) = 0 /\ EstablishedBy(t, x, a) = 0 /\ ReceivedBy(t, x, a) = 0
        BY <1>4 DEF SentBy, EstablishedBy, ReceivedBy
    <2>3. \A x, a : Bal(st.accounts, x, a) \in Nat
        BY BalType, StateFields
    <2> QED BY <2>1, <2>2, <2>3 DEF Moves
<1> QED BY <1>2, <1>3, <1>4

\* An affair keeps the balances.
LEMMA AffairMoves ==
    ASSUME NEW st \in ApplyStates, NEW air \in Affairs, ApplyAffair(st, air).ok
    PROVE  /\ \A x, b : Bal(ApplyAffair(st, air).accounts, x, b) = Bal(st.accounts, x, b)
           /\ ApplyAffair(st, air).filter = st.filter
<1> DEFINE x == air.owner
           f == st.accounts
           act == IF x \in DOMAIN f THEN set_nonce(f[x], f[x].nonce + 1) ELSE NewAccount(1)
           after == Put(f, x, act)
           ops == st.ops \o RollbackOfAffair(air, f)
<1>1. CASE ~st.ok \/ ~is_db_level_affair_type(air)
    <2>1. ApplyAffair(st, air) = st
        BY <1>1, Zenon DEF ApplyAffair
    <2> QED BY <2>1
<1>2. CASE st.ok /\ is_db_level_affair_type(air)
    <2>1. ApplyAffair(st, air) = ApplyState(after, ops, st.filter, st.touched \cup {x}, TRUE)
        BY <1>2, Zenon DEF ApplyAffair
    <2>2. \A b : get_balance(act, b) = Bal(f, x, b)
        <3>1. CASE x \in DOMAIN f
            <4>1. f[x] \in AccountSet /\ f[x].nonce + 1 \in Int
                <5>1. f[x] \in AccountSet
                    BY <3>1, MapIs, StateFields DEF AccountMaps
                <5>2. f[x].nonce \in Uint64
                    BY <5>1 DEF AccountSet
                <5> QED BY <5>1, <5>2, UintNat
            <4> QED BY <3>1, <4>1, NonceBalance DEF Bal
        <3>2. CASE x \notin DOMAIN f
            BY <3>2, NewBalance DEF Bal
        <3> QED BY <3>1, <3>2
    <2> HIDE DEF act
    <2>3. \A y, b : Bal(after, y, b) = IF y = x THEN get_balance(act, b) ELSE Bal(f, y, b)
        BY BalPut
    <2> HIDE DEF after, ops
    <2>4. ApplyAffair(st, air).accounts = after /\ ApplyAffair(st, air).filter = st.filter
        BY <2>1 DEF ApplyState
    <2> QED BY <2>2, <2>3, <2>4
<1> QED BY <1>1, <1>2

\* A list of affairs keeps the balances.
LEMMA AffairsMove ==
    ASSUME NEW base \in ApplyStates, NEW airs \in Seq(Affairs), AffairsApplied(base, airs).ok
    PROVE  /\ \A x, b : Bal(AffairsApplied(base, airs).accounts, x, b) = Bal(base.accounts, x, b)
           /\ AffairsApplied(base, airs).filter = base.filter
<1> DEFINE n == Len(airs)
<1>1. n \in Nat /\ DOMAIN airs = 1 .. n /\ \A i \in 1 .. n : airs[i] \in Affairs
    OBVIOUS
<1>2. AffairsClosed(ApplyStates, airs)
    BY <1>1, AffairKeeps DEF AffairsClosed, Keeps
<1>3. PICK f : AffairsPath(ApplyStates, base, airs, f)
    BY <1>2, AffairsUnfold
<1>4. /\ f \in [0 .. n -> ApplyStates] /\ f[0] = base /\ f[n] = AffairsApplied(base, airs)
      /\ \A i \in 1 .. n : f[i] = ApplyAffair(f[i - 1], airs[i])
    BY <1>3 DEF AffairsPath
<1> HIDE DEF n
<1> DEFINE Same(i) == (\A x, b : Bal(f[i].accounts, x, b) = Bal(base.accounts, x, b)) /\ f[i].filter = base.filter
           P == {i \in 0 .. n : f[i].ok => Same(i)}
<1>5. 0 \in P
    BY <1>1, <1>4
<1>6. ASSUME NEW i \in 1 .. n, i - 1 \in P PROVE i \in P
    <2>1. i - 1 \in 0 .. n /\ i \in 0 .. n
        BY <1>1
    <2>2. f[i - 1] \in ApplyStates /\ airs[i] \in Affairs /\ f[i] = ApplyAffair(f[i - 1], airs[i])
        BY <1>1, <1>4, <2>1
    <2>3. ASSUME f[i].ok PROVE Same(i)
        <3>1. f[i - 1].ok
            BY <2>2, <2>3, AffairKeeps DEF Keeps
        <3>2. /\ \A x, b : Bal(f[i].accounts, x, b) = Bal(f[i - 1].accounts, x, b)
              /\ f[i].filter = f[i - 1].filter
            <4>1. ApplyAffair(f[i - 1], airs[i]).ok
                BY <2>2, <2>3
            <4> DEFINE g == f[i - 1]
                       c == airs[i]
            <4>2. g \in ApplyStates /\ c \in Affairs /\ ApplyAffair(g, c).ok /\ f[i] = ApplyAffair(g, c)
                BY <2>2, <4>1
            <4> HIDE DEF g, c
            <4>3. /\ \A x, b : Bal(ApplyAffair(g, c).accounts, x, b) = Bal(g.accounts, x, b)
                  /\ ApplyAffair(g, c).filter = g.filter
                BY <4>2, AffairMoves
            <4> QED BY <4>2, <4>3 DEF g
        <3>3. Same(i - 1)
            BY <1>6, <3>1
        <3> QED BY <3>2, <3>3
    <2> HIDE DEF Same
    <2> QED BY <2>1, <2>3
<1> HIDE DEF P
<1>7. \A i \in 0 .. n : i \in P
    BY <1>1, <1>5, <1>6, Induction
<1>8. n \in P
    BY <1>1, <1>7
<1> QED BY <1>4, <1>8 DEF P

-----------------------------------------------------------------------------
(* The history of the balances *)

\* The balances are what the transactions add up to.
Hist(accts, txs) ==
    \A x \in Addresses, a \in Assets :
        Bal(accts, x, a) + Sent(txs, x, a) = Established(txs, x, a) + Received(txs, x, a)

\* One transaction more adds what its outputs give.
LEMMA ReceivedFacts ==
    ASSUME NEW txs \in Seq(Transactions), NEW x, NEW a
    PROVE  /\ Received(txs, x, a) \in Nat /\ (Len(txs) = 0 => Received(txs, x, a) = 0)
           /\ \A t \in Transactions : Received(Append(txs, t), x, a) = Received(txs, x, a) + ReceivedBy(t, x, a)
<1> DEFINE amounts(z) == [i \in 1 .. Len(z) |-> ReceivedBy(z[i], x, a)]
           n == Len(txs)
<1>1. \A z : Received(z, x, a) = Total(amounts(z))
    BY Zenon DEF Received, ReceivedBy, ToAmounts
<1>2. \A t \in Transactions : ReceivedBy(t, x, a) \in Nat
    <2> TAKE t \in Transactions
    <2>1. t.outs \in Outs
        BY DEF Transactions
    <2>2. Total(ToAmounts(t.outs, x)) \in Nat
        BY <2>1, OutAmountsType
    <2> QED BY <2>2 DEF ReceivedBy
<1> HIDE DEF ReceivedBy
<1>3. n \in Nat /\ \A i \in 1 .. n : txs[i] \in Transactions
    BY LenProperties, ElementOfSeq
<1>4. amounts(txs) \in Seq(Nat) /\ Len(amounts(txs)) = n
    BY <1>2, <1>3
<1>5. ASSUME NEW t \in Transactions PROVE amounts(Append(txs, t)) = Append(amounts(txs), ReceivedBy(t, x, a))
    <2> DEFINE z == Append(txs, t)
               k == ReceivedBy(t, x, a)
               s == amounts(txs)
    <2>1. Len(z) = n + 1 /\ z[n + 1] = t /\ \A i \in 1 .. n : z[i] = txs[i]
        BY AppendProperties
    <2>2. Len(Append(s, k)) = n + 1 /\ Append(s, k)[n + 1] = k /\ (\A i \in 1 .. n : Append(s, k)[i] = s[i])
          /\ Append(s, k) \in Seq(Nat)
        BY <1>2, <1>4, AppendProperties
    <2> HIDE DEF z
    <2>3. amounts(z) = [i \in 1 .. n + 1 |-> ReceivedBy(z[i], x, a)]
        BY <2>1
    <2>4. \A i \in 1 .. n : s[i] = ReceivedBy(txs[i], x, a)
        OBVIOUS
    <2> HIDE DEF s, k, n
    <2>5. Append(s, k) = [i \in 1 .. n + 1 |-> Append(s, k)[i]]
        <3> DEFINE w == Append(s, k)
        <3> HIDE DEF w
        <3>1. w \in Seq(Nat) /\ Len(w) = n + 1
            BY <2>2 DEF w
        <3>2. w \in [1 .. n + 1 -> Nat]
            BY <3>1, LenProperties
        <3> QED BY <3>2 DEF w
    <2>6. \A i \in 1 .. n + 1 : Append(s, k)[i] = ReceivedBy(z[i], x, a)
        <3> TAKE i \in 1 .. n + 1
        <3>1. i \in 1 .. n \/ i = n + 1
            BY <1>3
        <3> QED BY <2>1, <2>2, <2>4, <3>1 DEF k
    <2>7. [i \in 1 .. n + 1 |-> Append(s, k)[i]] = [i \in 1 .. n + 1 |-> ReceivedBy(z[i], x, a)]
        BY <2>6
    <2> QED BY <2>3, <2>5, <2>7 DEF z, s, k
<1> HIDE DEF amounts
<1> QED BY <1>1, <1>2, <1>4, <1>5, TotalFacts DEF n

\* Applying a transaction adds it to the history.
LEMMA HistStep ==
    ASSUME NEW f \in AccountMaps, NEW g \in AccountMaps, NEW txs \in Seq(Transactions), NEW t \in Transactions,
           Hist(f, txs), Moves(f, t, g)
    PROVE  Hist(g, Append(txs, t))
<1> SUFFICES ASSUME NEW x \in Addresses, NEW a \in Assets
             PROVE  Bal(g, x, a) + Sent(Append(txs, t), x, a) =
                        Established(Append(txs, t), x, a) + Received(Append(txs, t), x, a)
    BY DEF Hist
<1>1. Sent(Append(txs, t), x, a) = Sent(txs, x, a) + SentBy(t, x, a) /\ Sent(txs, x, a) \in Nat
    BY SentFacts
<1>2. /\ Established(Append(txs, t), x, a) = Established(txs, x, a) + EstablishedBy(t, x, a)
      /\ Established(txs, x, a) \in Nat
    BY EstablishedFacts
<1>3. Received(Append(txs, t), x, a) = Received(txs, x, a) + ReceivedBy(t, x, a) /\ Received(txs, x, a) \in Nat
    BY ReceivedFacts
<1>4. SentBy(t, x, a) \in Nat /\ EstablishedBy(t, x, a) \in Nat
    BY AmountAssumption DEF Transactions, Uint64, SentBy, EstablishedBy
<1>5. ReceivedBy(t, x, a) \in Nat
    <2>1. t.outs \in Outs
        BY DEF Transactions
    <2>2. Total(ToAmounts(t.outs, x)) \in Nat
        BY <2>1, OutAmountsType
    <2> QED BY <2>2 DEF ReceivedBy
<1>6. Bal(f, x, a) \in Nat /\ Bal(g, x, a) \in Nat
    BY BalType
<1>7. Bal(f, x, a) + Sent(txs, x, a) = Established(txs, x, a) + Received(txs, x, a)
    BY DEF Hist
<1>8. Bal(g, x, a) + SentBy(t, x, a) = Bal(f, x, a) + EstablishedBy(t, x, a) + ReceivedBy(t, x, a)
    BY DEF Moves
<1> DEFINE bf == Bal(f, x, a)
           bg == Bal(g, x, a)
           s == Sent(txs, x, a)
           e == Established(txs, x, a)
           r == Received(txs, x, a)
           ds == SentBy(t, x, a)
           de == EstablishedBy(t, x, a)
           dr == ReceivedBy(t, x, a)
<1>9. /\ bf + s = e + r /\ bg + ds = bf + de + dr
      /\ bf \in Nat /\ bg \in Nat /\ s \in Nat /\ e \in Nat /\ r \in Nat /\ ds \in Nat /\ de \in Nat /\ dr \in Nat
    BY <1>1, <1>2, <1>3, <1>4, <1>5, <1>6, <1>7, <1>8
<1> HIDE DEF bf, bg, s, e, r, ds, de, dr
<1>10. bg + (s + ds) = (e + de) + (r + dr)
    BY <1>9
<1> QED BY <1>1, <1>2, <1>3, <1>10 DEF bg, s, e, r, ds, de, dr

\* Balances with the same history are the same.
LEMMA HistSame ==
    ASSUME NEW f \in AccountMaps, NEW g \in AccountMaps, NEW txs \in Seq(Transactions), Hist(f, txs)
    PROVE  Hist(g, txs) <=> SameBalances(f, g)
<1>1. \A x \in Addresses, a \in Assets :
          /\ Bal(f, x, a) + Sent(txs, x, a) = Established(txs, x, a) + Received(txs, x, a)
          /\ Bal(f, x, a) \in Nat /\ Bal(g, x, a) \in Nat /\ Sent(txs, x, a) \in Nat
          /\ Established(txs, x, a) \in Nat /\ Received(txs, x, a) \in Nat
    BY BalType, SentFacts, EstablishedFacts, ReceivedFacts DEF Hist
<1>2. ASSUME Hist(g, txs), NEW x \in Addresses, NEW a \in Assets PROVE Bal(f, x, a) = Bal(g, x, a)
    <2>1. Bal(g, x, a) + Sent(txs, x, a) = Established(txs, x, a) + Received(txs, x, a)
        BY <1>2 DEF Hist
    <2> QED BY <1>1, <2>1
<1>3. ASSUME SameBalances(f, g) PROVE Hist(g, txs)
    BY <1>1, <1>3 DEF SameBalances, Hist
<1> QED BY <1>2, <1>3 DEF SameBalances

\* Applying the transactions of a block adds them to the history.
LEMMA TransactionsMove ==
    ASSUME NEW base \in ApplyStates, NEW txs \in Seq(Transactions), NEW old \in Seq(Transactions),
           \A i \in 1 .. Len(txs) : WellFormed(txs[i]),
           SupplyOK(base.accounts, base.filter), Hist(base.accounts, old), TransactionsApplied(base, txs).ok
    PROVE  /\ SupplyOK(TransactionsApplied(base, txs).accounts, TransactionsApplied(base, txs).filter)
           /\ Hist(TransactionsApplied(base, txs).accounts, old \o txs)
<1> DEFINE n == Len(txs)
<1>1. n \in Nat /\ DOMAIN txs = 1 .. n /\ \A i \in 1 .. n : txs[i] \in Transactions /\ WellFormed(txs[i])
    OBVIOUS
<1>2. TransactionsClosed(ApplyStates, txs)
    BY <1>1, TransactionKeeps DEF TransactionsClosed, Keeps
<1>3. PICK f : TransactionsPath(ApplyStates, base, txs, f)
    BY <1>2, TransactionsUnfold
<1>4. /\ f \in [0 .. n -> ApplyStates] /\ f[0] = base /\ f[n] = TransactionsApplied(base, txs)
      /\ \A i \in 1 .. n : f[i] = ApplyTransaction(f[i - 1], txs[i])
    BY <1>3 DEF TransactionsPath
<1> DEFINE upto(i) == old \o SubSeq(txs, 1, i)
<1>5. upto(0) = old /\ upto(n) = old \o txs /\ \A i \in 0 .. n : upto(i) \in Seq(Transactions)
    <2>1. SubSeq(txs, 1, 0) = <<>> /\ SubSeq(txs, 1, n) = txs
        BY <1>1
    <2>2. old \o <<>> = old
        OBVIOUS
    <2>3. \A i \in 0 .. n : SubSeq(txs, 1, i) \in Seq(Transactions)
        BY <1>1
    <2> QED BY <2>1, <2>2, <2>3
<1>6. ASSUME NEW i \in 1 .. n PROVE upto(i) = Append(upto(i - 1), txs[i])
    <2>1. SubSeq(txs, 1, i) = Append(SubSeq(txs, 1, i - 1), txs[i])
        BY <1>1
    <2>2. SubSeq(txs, 1, i - 1) \in Seq(Transactions) /\ txs[i] \in Transactions
        BY <1>1
    <2> QED BY <2>1, <2>2
<1> HIDE DEF n, upto
<1> DEFINE Good(i) == SupplyOK(f[i].accounts, f[i].filter) /\ Hist(f[i].accounts, upto(i))
           P == {i \in 0 .. n : f[i].ok => Good(i)}
<1>7. 0 \in P
    BY <1>1, <1>4, <1>5
<1>8. ASSUME NEW i \in 1 .. n, i - 1 \in P PROVE i \in P
    <2>1. i - 1 \in 0 .. n /\ i \in 0 .. n
        BY <1>1
    <2>2. f[i - 1] \in ApplyStates /\ f[i] \in ApplyStates /\ txs[i] \in Transactions /\ WellFormed(txs[i])
          /\ f[i] = ApplyTransaction(f[i - 1], txs[i])
        BY <1>1, <1>4, <2>1
    <2>3. ASSUME f[i].ok PROVE Good(i)
        <3>1. f[i - 1].ok
            BY <2>2, <2>3, TransactionKeeps DEF Keeps
        <3>2. Good(i - 1)
            BY <1>8, <3>1
        <3>3. /\ SupplyOK(f[i].accounts, f[i].filter) /\ Moves(f[i - 1].accounts, txs[i], f[i].accounts)
            BY <2>2, <2>3, <3>2, TransactionMoves
        <3>4. Hist(f[i].accounts, Append(upto(i - 1), txs[i]))
            BY <1>5, <2>1, <2>2, <3>2, <3>3, HistStep, StateFields
        <3> QED BY <1>6, <3>3, <3>4
    <2> HIDE DEF Good
    <2> QED BY <2>1, <2>3
<1> HIDE DEF P
<1>9. \A i \in 0 .. n : i \in P
    BY <1>1, <1>7, <1>8, Induction
<1>10. n \in P
    BY <1>1, <1>9
<1> QED BY <1>4, <1>5, <1>10 DEF P

-----------------------------------------------------------------------------
(* Rolling back a block *)

\* Undoing two lists of operations is undoing the one and then the other.
LEMMA UndoneConcat ==
    ASSUME NEW base \in UndoStates, NEW s \in Seq(Rops), NEW t \in Seq(Rops)
    PROVE  /\ Undone(base, s) \in UndoStates
           /\ Undone(base, s \o t) = Undone(Undone(base, s), t)
<1> DEFINE m == Len(s)
           n == Len(t)
           r == s \o t
<1>1. m \in Nat /\ n \in Nat /\ r \in Seq(Rops) /\ Len(r) = m + n
    OBVIOUS
<1>2. /\ \A i \in 1 .. m : s[i] \in Rops /\ r[i] = s[i]
      /\ \A i \in 1 .. n : t[i] \in Rops /\ r[m + i] = t[i]
    OBVIOUS
<1>3. ASSUME NEW z \in Seq(Rops) PROVE UndoClosed(UndoStates, z)
    <2>1. Len(z) \in Nat /\ DOMAIN z = 1 .. Len(z) /\ \A i \in 1 .. Len(z) : z[i] \in Rops
        OBVIOUS
    <2> QED BY <2>1, UndoType DEF UndoClosed
<1> HIDE DEF r
<1>4. PICK f : UndoPath(UndoStates, base, r, f)
    BY <1>1, <1>3, UndoUnfold
<1>5. PICK g : UndoPath(UndoStates, base, s, g)
    BY <1>3, UndoUnfold
<1>6. g \in [0 .. m -> UndoStates] /\ g[0] = base /\ g[m] = Undone(base, s) /\ \A i \in 1 .. m : g[i] = Undo(g[i - 1], s[i])
    BY <1>5 DEF UndoPath
<1>7. Undone(base, s) \in UndoStates
    <2>1. m \in 0 .. m
        BY <1>1
    <2> HIDE DEF m
    <2>2. g[m] \in UndoStates
        BY <1>6, <2>1
    <2> QED BY <1>6, <2>2
<1> DEFINE mid == Undone(base, s)
<1> HIDE DEF mid
<1>8. PICK h : UndoPath(UndoStates, mid, t, h)
    BY <1>3, <1>7, UndoUnfold DEF mid
<1>9. h[0] = mid /\ h[n] = Undone(mid, t) /\ \A i \in 1 .. n : h[i] = Undo(h[i - 1], t[i])
    BY <1>8 DEF UndoPath
<1>10. f[0] = base /\ f[m + n] = Undone(base, r) /\ \A i \in 1 .. m + n : f[i] = Undo(f[i - 1], r[i])
    BY <1>1, <1>4 DEF UndoPath
<1> HIDE DEF m, n
<1> DEFINE P == {i \in 0 .. m : f[i] = g[i]}
           Q == {i \in 0 .. n : f[m + i] = h[i]}
<1>11. \A i \in 0 .. m : i \in P
    <2>1. 0 \in P
        BY <1>1, <1>6, <1>10
    <2>2. ASSUME NEW i \in 1 .. m, i - 1 \in P PROVE i \in P
        <3>1. i \in 0 .. m /\ i \in 1 .. m + n /\ f[i - 1] = g[i - 1] /\ r[i] = s[i]
            BY <1>1, <1>2, <2>2
        <3> QED BY <1>6, <1>10, <3>1
    <2> HIDE DEF P
    <2> QED BY <1>1, <2>1, <2>2, Induction
<1>12. \A i \in 0 .. n : i \in Q
    <2>1. 0 \in Q
        <3>1. m \in 0 .. m /\ m + 0 = m /\ 0 \in 0 .. n
            BY <1>1
        <3> QED BY <1>6, <1>9, <1>11, <3>1 DEF mid
    <2>2. ASSUME NEW i \in 1 .. n, i - 1 \in Q PROVE i \in Q
        <3>1. i \in 0 .. n /\ m + i \in 1 .. m + n /\ f[m + (i - 1)] = h[i - 1] /\ r[m + i] = t[i]
              /\ (m + i) - 1 = m + (i - 1)
            BY <1>1, <1>2, <2>2
        <3> QED BY <1>9, <1>10, <3>1
    <2> HIDE DEF Q
    <2> QED BY <1>1, <2>1, <2>2, Induction
<1>13. n \in 0 .. n
    BY <1>1
<1> QED BY <1>7, <1>9, <1>10, <1>12, <1>13 DEF r, mid

\* Undoing no operation ...
LEMMA UndoneNone ==
    ASSUME NEW base \in UndoStates
    PROVE  Undone(base, <<>>) = base
<1>1. UndoClosed(UndoStates, <<>>)
    BY DEF UndoClosed
<1>2. PICK f : UndoPath(UndoStates, base, <<>>, f)
    BY <1>1, UndoUnfold
<1> QED BY <1>2 DEF UndoPath

\* ... and one.
LEMMA UndoneOne ==
    ASSUME NEW base \in UndoStates, NEW op \in Rops
    PROVE  Undone(base, <<op>>) = Undo(base, op)
<1>1. UndoClosed(UndoStates, <<op>>)
    BY UndoType DEF UndoClosed
<1>2. PICK g : UndoPath(UndoStates, base, <<op>>, g)
    BY <1>1, UndoUnfold
<1>3. g[0] = base /\ g[1] = Undone(base, <<op>>) /\ g[1] = Undo(g[0], op)
    <2>1. Len(<<op>>) = 1 /\ <<op>>[1] = op /\ 1 \in 1 .. 1 /\ 1 - 1 = 0
        OBVIOUS
    <2> QED BY <1>2, <2>1 DEF UndoPath
<1> QED BY <1>3

\* A rollback that has thrown does nothing more.
LEMMA UndoneFails ==
    ASSUME NEW v \in UndoStates, NEW ops \in Seq(Rops), Undone(v, ops).ok
    PROVE  v.ok
<1> SUFFICES ASSUME ~v.ok PROVE Undone(v, ops) = v
    OBVIOUS
<1>1. UndoClosed(UndoStates, ops)
    <2>1. Len(ops) \in Nat /\ DOMAIN ops = 1 .. Len(ops) /\ \A i \in 1 .. Len(ops) : ops[i] \in Rops
        OBVIOUS
    <2> QED BY <2>1, UndoType DEF UndoClosed
<1>2. PICK g : UndoPath(UndoStates, v, ops, g)
    BY <1>1, UndoUnfold
<1> DEFINE n == Len(ops)
           P == {i \in 0 .. n : g[i] = v}
<1>3. n \in Nat /\ g[0] = v /\ g[n] = Undone(v, ops) /\ \A i \in 1 .. n : g[i] = Undo(g[i - 1], ops[i])
    BY <1>2 DEF UndoPath
<1>4. \A op : Undo(v, op) = v
    BY Zenon DEF Undo
<1> HIDE DEF n
<1>5. 0 \in P
    BY <1>3
<1>6. ASSUME NEW i \in 1 .. n, i - 1 \in P PROVE i \in P
    BY <1>3, <1>4, <1>6
<1> HIDE DEF P
<1>7. \A i \in 0 .. n : i \in P
    BY <1>3, <1>5, <1>6, Induction
<1>8. n \in P
    BY <1>3, <1>7
<1> QED BY <1>3, <1>8 DEF P

\* The operation op takes away neither the account x nor its asset b.
Spares(op, x, b) ==
    /\ ~(op.type = "DELETE_ACCOUNT" /\ op.target = x)
    /\ ~(op.type = "UPDATE_DELETE_ASSET" /\ op.target = x /\ op.asset = b)

\* What the operation op makes of the balance n of the asset b of the account x.
BackTo(op, x, b, n) ==
    IF op.target = x /\ op.asset = b /\ op.type = "UPDATE_ADD" THEN (n + op.value) % Wrap
    ELSE IF op.target = x /\ op.asset = b /\ op.type = "UPDATE_REDUCE" THEN n - op.value ELSE n

\* What one rollback operation does to a balance it does not delete.
LEMMA UndoBalance ==
    ASSUME NEW st \in UndoStates, NEW op \in Rops, Undo(st, op).ok, NEW x \in DOMAIN st.accounts, NEW b \in Assets,
           Spares(op, x, b)
    PROVE  /\ st.ok /\ x \in DOMAIN Undo(st, op).accounts
           /\ Bal(Undo(st, op).accounts, x, b) = BackTo(op, x, b, Bal(st.accounts, x, b))
           /\ op.target = x /\ op.asset = b /\ op.type = "UPDATE_REDUCE" => op.value <= Bal(st.accounts, x, b)
<1> DEFINE y == op.target
           f == st.accounts
           act == f[y]
           back(new) == [st EXCEPT !.accounts[y] = new]
<1>1. f \in AccountMaps /\ st.ok \in BOOLEAN /\ y \in Addresses /\ op.type \in RopTypes
    BY DEF UndoStates, Rops, AssetRops, NonceRops, RopTypes
<1>2. st.ok
    <2>1. CASE ~st.ok
        <3>1. Undo(st, op) = st
            BY <2>1, Zenon DEF Undo
        <3> QED BY <2>1, <3>1
    <2> QED BY <2>1
<1>3. CASE y \notin DOMAIN f
    <2>1. Undo(st, op) = st
        BY <1>3, Zenon DEF Undo
    <2>2. y # x
        BY <1>3
    <2> QED BY <1>2, <2>1, <2>2 DEF BackTo
<1>4. CASE y \in DOMAIN f
    <2>1. act \in AccountSet
        BY <1>1, <1>4, MapIs DEF AccountMaps
    <2>2. \A c : get_balance(act, c) = Bal(f, y, c)
        BY <1>4 DEF Bal
    <2>3. ASSUME NEW new
          PROVE  /\ x \in DOMAIN back(new).accounts
                 /\ Bal(back(new).accounts, x, b) = IF x = y THEN get_balance(new, b) ELSE Bal(f, x, b)
        <3>1. back(new).accounts = [f EXCEPT ![y] = new]
            BY DEF UndoStates
        <3>2. DOMAIN [f EXCEPT ![y] = new] = DOMAIN f /\ \A z \in DOMAIN f : [f EXCEPT ![y] = new][z] = IF z = y THEN new ELSE f[z]
            <4>1. f = [z \in DOMAIN f |-> f[z]]
                BY <1>1, MapIs DEF AccountMaps
            <4> QED BY <4>1
        <3> HIDE DEF back
        <3> DEFINE g == [f EXCEPT ![y] = new]
        <3> HIDE DEF g
        <3>3. DOMAIN g = DOMAIN f /\ \A z \in DOMAIN f : g[z] = IF z = y THEN new ELSE f[z]
            BY <3>2 DEF g
        <3>4. Bal(g, x, b) = IF x = y THEN get_balance(new, b) ELSE Bal(f, x, b)
            BY <3>3 DEF Bal
        <3> QED BY <3>1, <3>3, <3>4 DEF g
    <2>4. act.nonce - 1 \in Int
        BY <2>1, Wraps DEF AccountSet
    <2> HIDE DEF back
    <2>5. CASE op.type = "DELETE_ACCOUNT"
        <3>1. Undo(st, op) = [st EXCEPT !.accounts = Without(@, y)]
            BY <1>2, <1>4, <2>5 DEF Undo
        <3>2. Undo(st, op).accounts = Without(f, y)
            BY <3>1 DEF UndoStates
        <3>3. x # y
            BY <2>5 DEF Spares
        <3>4. DOMAIN Without(f, y) = DOMAIN f \ {y} /\ \A z \in DOMAIN f \ {y} : Without(f, y)[z] = f[z]
            BY DEF Without
        <3> QED BY <1>2, <2>5, <3>2, <3>3, <3>4 DEF Bal, BackTo
    <2>6. CASE op.type = "UPDATE_ADD"
        <3> DEFINE new == set_nonce(add_balance(act, op.asset, op.value), act.nonce - 1)
        <3>1. Undo(st, op) = back(new)
            BY <1>2, <1>4, <2>6 DEF Undo, back
        <3>2. op.asset \in Assets /\ op.value \in Uint64
            BY <2>6 DEF Rops, AssetRops, NonceRops
        <3>3. add_balance(act, op.asset, op.value) \in AccountSet
            BY <2>1, <2>4, <3>2, AccountOps
        <3>4. get_balance(new, b) = get_balance(add_balance(act, op.asset, op.value), b)
            BY <2>4, <3>3, NonceBalance
        <3>5. get_balance(new, b) = IF b = op.asset THEN (get_balance(act, op.asset) + op.value) % Wrap ELSE get_balance(act, b)
            BY <2>1, <3>2, <3>4, BalancesAfter
        <3> HIDE DEF new
        <3> QED BY <1>2, <2>2, <2>3, <2>6, <3>1, <3>5 DEF BackTo
    <2>7. CASE op.type = "UPDATE_DELETE_ASSET"
        <3> DEFINE new == set_nonce(delete_asset(act, op.asset), act.nonce - 1)
        <3>1. Undo(st, op) = back(new)
            BY <1>2, <1>4, <2>7 DEF Undo, back
        <3>2. op.asset \in Assets /\ op.value \in Uint64
            BY <2>7 DEF Rops, AssetRops, NonceRops
        <3>3. delete_asset(act, op.asset) \in AccountSet
            BY <2>1, <2>4, <3>2, AccountOps
        <3>4. get_balance(new, b) = get_balance(delete_asset(act, op.asset), b)
            BY <2>4, <3>3, NonceBalance
        <3>5. get_balance(new, b) = IF b = op.asset THEN 0 ELSE get_balance(act, b)
            BY <2>1, <3>2, <3>4, BalancesAfter
        <3> HIDE DEF new
        <3> QED BY <1>2, <2>2, <2>3, <2>7, <3>1, <3>5 DEF BackTo, Spares
    <2>8. CASE op.type = "UPDATE_REDUCE"
        <3> DEFINE new == reduce_balance(act, op.asset, op.value)
        <3>2. op.asset \in Assets /\ op.value \in Uint64 /\ op.value \in Nat
            BY <2>8, Wraps DEF Rops, AssetRops, NonceRops
        <3>3. can_reduce(act, op.asset, op.value)
            <4>1. CASE ~can_reduce(act, op.asset, op.value)
                <5>1. Undo(st, op) = [st EXCEPT !.ok = FALSE]
                    BY <1>2, <1>4, <2>8, <4>1 DEF Undo
                <5>2. ~[st EXCEPT !.ok = FALSE].ok
                    BY DEF UndoStates
                <5> QED BY <5>1, <5>2
            <4> QED BY <4>1
        <3>1. Undo(st, op) = back(new)
            BY <1>2, <1>4, <2>8, <3>3 DEF Undo, back
        <3>5. get_balance(new, b) = IF b = op.asset THEN get_balance(act, op.asset) - op.value ELSE get_balance(act, b)
            BY <2>1, <3>2, <3>3, BalancesAfter
        <3>6. op.value <= get_balance(act, op.asset)
            <4>1. op.asset \in DOMAIN act.balances /\ act.balances[op.asset] >= op.value
                BY <3>3 DEF can_reduce
            <4>2. act.balances[op.asset] \in Uint64
                BY <2>1, <4>1, MapIs DEF AccountSet
            <4> QED BY <3>2, <4>1, <4>2, Wraps DEF get_balance
        <3> HIDE DEF new
        <3> QED BY <1>2, <2>2, <2>3, <2>8, <3>1, <3>5, <3>6 DEF BackTo
    <2>9. CASE op.type = "ONLY_REDUCE_NONCE"
        <3> DEFINE new == set_nonce(act, act.nonce - 1)
        <3>1. Undo(st, op) = back(new)
            BY <1>2, <1>4, <2>9 DEF Undo, back
        <3>4. get_balance(new, b) = get_balance(act, b)
            BY <2>1, <2>4, NonceBalance
        <3> HIDE DEF new
        <3> QED BY <1>2, <2>2, <2>3, <2>9, <3>1, <3>4 DEF BackTo
    <2> QED BY <1>1, <2>5, <2>6, <2>7, <2>8, <2>9 DEF RopTypes
<1> QED BY <1>3, <1>4

\* What one balance gives and the other takes leaves their sum.
LEMMA Trade ==
    ASSUME NEW u \in Nat, NEW s \in Nat, NEW v \in Nat, v <= s
    PROVE  (((u + v) % Wrap) + (s - v)) % Wrap = (u + s) % Wrap
<1>1. Wrap \in Nat \ {0}
    BY WrapPositive
<1>2. u + v \in Nat /\ s - v \in Nat /\ (u + v) + (s - v) = u + s
    OBVIOUS
<1> DEFINE n == u + v
           m == s - v
<1> HIDE DEF n, m
<1>3. ((n % Wrap) + m) % Wrap = (n + m) % Wrap
    BY <1>1, <1>2, ModPlus DEF n, m
<1> QED BY <1>2, <1>3 DEF n, m

\* Equal sums with a common part have equal other parts.
LEMMA Cancel ==
    ASSUME NEW u \in Uint64, NEW p \in Uint64, NEW s \in Uint64, (u + s) % Wrap = (s + p) % Wrap
    PROVE  u = p
<1>1. Wrap \in Nat \ {0} /\ u \in 0 .. Wrap - 1 /\ p \in 0 .. Wrap - 1 /\ s \in 0 .. Wrap - 1
    BY WrapPositive
<1>2. (((u + s) % Wrap) - s) % Wrap = u
    BY <1>1, BackAgain
<1>3. (((p + s) % Wrap) - s) % Wrap = p
    BY <1>1, BackAgain
<1>4. s + p = p + s
    BY <1>1
<1> QED BY <1>2, <1>3, <1>4

\* The balances of u and f add up to what those of v and g do, as a uint64_t.
Even(u, f, v, g, x, b) == (Bal(u, x, b) + Bal(f, x, b)) % Wrap = (Bal(v, x, b) + Bal(g, x, b)) % Wrap

\* The operations of a transfer's outputs.
OutRops(t, accts) ==
    [i \in 1 .. Len(t.outs) |->
        Rop(IF t.outs[i].receiver \in DOMAIN accts THEN "UPDATE_REDUCE" ELSE "DELETE_ACCOUNT",
            t.outs[i].receiver, t.asset, t.outs[i].count)]

\* Undoing one output of a transfer takes what its credit gave.
LEMMA OutUndone ==
    ASSUME NEW old, NEW x \in DOMAIN old, NEW a \in Assets, NEW out \in OutSet, NEW f \in AccountMaps,
           NEW u \in UndoStates, NEW b \in Assets, x \in DOMAIN u.accounts,
           NEW op, op = Rop(IF out.receiver \in DOMAIN old THEN "UPDATE_REDUCE" ELSE "DELETE_ACCOUNT",
                            out.receiver, a, out.count),
           op \in Rops, Undo(u, op).ok
    PROVE  /\ u.ok /\ x \in DOMAIN Undo(u, op).accounts
           /\ Even(Undo(u, op).accounts, Credit(f, a, out), u.accounts, f, x, b)
<1> DEFINE r == out.receiver
           n == out.count
           v == Undo(u, op).accounts
           g == Credit(f, a, out)
<1>1. /\ op.type = (IF r \in DOMAIN old THEN "UPDATE_REDUCE" ELSE "DELETE_ACCOUNT")
      /\ op.target = r /\ op.asset = a /\ op.value = n
    BY DEF Rop
<1>2. Spares(op, x, b)
    BY <1>1 DEF Spares
<1>3. /\ u.ok /\ x \in DOMAIN v /\ Bal(v, x, b) = BackTo(op, x, b, Bal(u.accounts, x, b))
      /\ op.target = x /\ op.asset = b /\ op.type = "UPDATE_REDUCE" => op.value <= Bal(u.accounts, x, b)
    BY <1>2, UndoBalance
<1>4. Bal(g, x, b) = IF x = r /\ b = a THEN (Bal(f, x, a) + n) % Wrap ELSE Bal(f, x, b)
    BY CreditBalance
<1>5. n \in Nat /\ Bal(f, x, b) \in Nat /\ Bal(u.accounts, x, b) \in Nat
    <2>1. u.accounts \in AccountMaps /\ n \in Uint64
        BY DEF UndoStates, OutSet
    <2> QED BY <2>1, BalType, Wraps
<1> HIDE DEF v, g
<1>6. CASE x = r /\ b = a
    <2>1. Bal(v, x, b) = Bal(u.accounts, x, b) - n /\ n <= Bal(u.accounts, x, b)
        BY <1>1, <1>3, <1>6 DEF BackTo
    <2>2. Bal(g, x, b) = (Bal(f, x, b) + n) % Wrap
        BY <1>4, <1>6
    <2> DEFINE p == Bal(f, x, b)
               q == Bal(u.accounts, x, b)
    <2> HIDE DEF p, q
    <2>3. (((p + n) % Wrap) + (q - n)) % Wrap = (p + q) % Wrap
        BY <1>5, <2>1, Trade DEF p, q
    <2>4. p + q = q + p /\ (q - n) + ((p + n) % Wrap) = ((p + n) % Wrap) + (q - n)
        <3>1. p \in Nat /\ q \in Nat /\ n \in Nat
            BY <1>5 DEF p, q
        <3>2. (p + n) % Wrap \in Nat
            BY <3>1, Wraps
        <3> QED BY <3>1, <3>2
    <2>5. Bal(v, x, b) = q - n /\ Bal(g, x, b) = (p + n) % Wrap
        BY <2>1, <2>2 DEF p, q
    <2> QED BY <1>3, <2>3, <2>4, <2>5 DEF Even, p, q, v, g
<1>7. CASE ~(x = r /\ b = a)
    <2>1. Bal(v, x, b) = Bal(u.accounts, x, b)
        BY <1>1, <1>3, <1>7 DEF BackTo
    <2>2. Bal(g, x, b) = Bal(f, x, b)
        BY <1>4, <1>7
    <2> QED BY <1>3, <2>1, <2>2 DEF Even, v, g
<1> QED BY <1>6, <1>7

\* Undoing the outputs of a transfer takes what their credits gave.
LEMMA OutsUndone ==
    ASSUME NEW old, NEW x \in DOMAIN old, NEW t \in Transactions, NEW paid \in AccountMaps,
           NEW u \in UndoStates, NEW b \in Assets, x \in DOMAIN u.accounts,
           OutRops(t, old) \in Seq(Rops), Undone(u, OutRops(t, old)).ok
    PROVE  /\ u.ok /\ x \in DOMAIN Undone(u, OutRops(t, old)).accounts
           /\ Even(Undone(u, OutRops(t, old)).accounts, Credited(t.asset, paid, t.outs), u.accounts, paid, x, b)
<1> DEFINE outs == t.outs
           n == Len(outs)
           a == t.asset
           ops == OutRops(t, old)
<1>1. n \in Nat /\ DOMAIN outs = 1 .. n /\ (\A i \in 1 .. n : outs[i] \in OutSet) /\ a \in Assets
    <2>1. outs \in Outs /\ a \in Assets
        BY DEF Transactions
    <2> QED BY <2>1, OutsAre
<1>2. /\ Len(ops) = n /\ DOMAIN ops = 1 .. n /\ \A i \in 1 .. n : ops[i] \in Rops
      /\ \A i \in 1 .. n : ops[i] = Rop(IF outs[i].receiver \in DOMAIN old THEN "UPDATE_REDUCE" ELSE "DELETE_ACCOUNT",
                                        outs[i].receiver, a, outs[i].count)
    <2>1. Len(ops) = n /\ DOMAIN ops = 1 .. n
        BY <1>1 DEF OutRops
    <2>2. \A i \in 1 .. n : ops[i] \in Rops
        BY <2>1, ElementOfSeq
    <2>3. \A i \in 1 .. n : ops[i] = Rop(IF outs[i].receiver \in DOMAIN old THEN "UPDATE_REDUCE" ELSE "DELETE_ACCOUNT",
                                         outs[i].receiver, a, outs[i].count)
        BY DEF OutRops
    <2> QED BY <2>1, <2>2, <2>3
<1>3. CreditClosed(a, AccountMaps, outs)
    BY <1>1, CreditType DEF CreditClosed
<1>4. PICK f : CreditPath(a, AccountMaps, paid, outs, f)
    BY <1>3, CreditUnfold
<1>5. /\ f \in [0 .. n -> AccountMaps] /\ f[0] = paid /\ f[n] = Credited(a, paid, outs)
      /\ \A i \in 1 .. n : f[i] = Credit(f[i - 1], a, outs[i])
    BY <1>4 DEF CreditPath
<1> HIDE DEF ops
<1>6. UndoClosed(UndoStates, ops)
    BY <1>1, <1>2, UndoType DEF UndoClosed
<1>7. PICK g : UndoPath(UndoStates, u, ops, g)
    BY <1>6, UndoUnfold
<1>8. /\ g \in [0 .. n -> UndoStates] /\ g[0] = u /\ g[n] = Undone(u, ops)
      /\ \A i \in 1 .. n : g[i] = Undo(g[i - 1], ops[i])
    BY <1>2, <1>7 DEF UndoPath
<1> HIDE DEF n, a, outs
<1> DEFINE Good(i) == u.ok /\ x \in DOMAIN g[i].accounts /\ Even(g[i].accounts, f[i], u.accounts, paid, x, b)
           P == {i \in 0 .. n : g[i].ok => Good(i)}
<1>9. 0 \in P
    BY <1>1, <1>5, <1>8 DEF Even
<1>10. ASSUME NEW i \in 1 .. n, i - 1 \in P PROVE i \in P
    <2>1. i - 1 \in 0 .. n /\ i \in 0 .. n
        BY <1>1
    <2>2. ASSUME g[i].ok PROVE Good(i)
        <3> DEFINE h == g[i - 1]
                   e == f[i - 1]
                   out == outs[i]
                   op == ops[i]
        <3>1. /\ h \in UndoStates /\ e \in AccountMaps /\ out \in OutSet /\ op \in Rops
              /\ op = Rop(IF out.receiver \in DOMAIN old THEN "UPDATE_REDUCE" ELSE "DELETE_ACCOUNT",
                          out.receiver, a, out.count)
              /\ g[i] = Undo(h, op) /\ f[i] = Credit(e, a, out)
            BY <1>1, <1>2, <1>5, <1>8, <2>1
        <3>2. h.ok => u.ok /\ x \in DOMAIN h.accounts /\ Even(h.accounts, e, u.accounts, paid, x, b)
            BY <1>10
        <3> HIDE DEF h, e, out, op
        <3>3. h.ok
            <4>1. CASE ~h.ok
                <5>1. Undo(h, op) = h
                    BY <4>1, Zenon DEF Undo
                <5> QED BY <2>2, <3>1, <4>1, <5>1
            <4> QED BY <4>1
        <3>4. Undo(h, op).ok
            BY <2>2, <3>1
        <3>5. x \in DOMAIN Undo(h, op).accounts /\ Even(Undo(h, op).accounts, Credit(e, a, out), h.accounts, e, x, b)
            BY <1>1, <3>1, <3>2, <3>3, <3>4, OutUndone
        <3> QED BY <3>1, <3>2, <3>3, <3>5 DEF Even
    <2> HIDE DEF Good
    <2> QED BY <2>1, <2>2
<1> HIDE DEF P
<1>11. \A i \in 0 .. n : i \in P
    BY <1>1, <1>9, <1>10, Induction
<1>12. n \in P
    BY <1>1, <1>11
<1>13. Undone(u, ops).ok
    BY DEF ops
<1> QED BY <1>5, <1>8, <1>12, <1>13 DEF P, ops, outs, a

\* The state new of the application undoes what it did to the state st: where the operations
\* it adds succeed on u, they keep x, and what they give its balance is what the step took.
UndoesStep(st, new, u, x, b) ==
    \E ops \in Seq(Rops) :
        /\ new.ops = st.ops \o ops
        /\ Undone(u, ops).ok =>
               u.ok /\ x \in DOMAIN Undone(u, ops).accounts
               /\ Even(Undone(u, ops).accounts, new.accounts, u.accounts, st.accounts, x, b)

\* Undoing a transfer takes back what it moved.
LEMMA AppendUndone ==
    ASSUME NEW st \in ApplyStates, NEW t \in Transactions, t.op = "Append", ApplyAppend(st, t).ok,
           NEW u \in UndoStates, NEW x \in DOMAIN st.accounts, x \in DOMAIN u.accounts, NEW b \in Assets
    PROVE  UndoesStep(st, ApplyAppend(st, t), u, x, b)
<1> DEFINE s == t.sender
           a == t.asset
           f == st.accounts
           paid == Put(f, s, SenderAfter(f[s], t))
           add == Rop("UPDATE_ADD", s, a, t.count)
           to == OutRops(t, f)
           ops == RollbackOfTransaction(t, f)
           v == Undo(u, add)
           new == ApplyAppend(st, t)
<1>1. /\ s \in DOMAIN f /\ can_reduce(f[s], a, t.count) /\ new.accounts = Credited(a, paid, t.outs)
      /\ new.ops = st.ops \o ops
    BY AppendIs
<1>2. f \in AccountMaps /\ s \in Addresses /\ a \in Assets /\ t.count \in Uint64 /\ t.count \in Nat
    BY StateFields, Wraps DEF Transactions
<1>3. ops = <<add>> \o to
    BY DEF RollbackOfTransaction, OutRops
<1>4. ops \in Seq(Rops)
    BY RollbackOps
<1>5. add \in Rops /\ add.type = "UPDATE_ADD" /\ add.target = s /\ add.asset = a /\ add.value = t.count
    BY <1>2 DEF Rop, Rops, AssetRops, RopTypes
<1>6. to \in Seq(Rops)
    <2>1. Len(t.outs) \in Nat /\ \A i \in 1 .. Len(t.outs) : t.outs[i] \in OutSet
        <3>1. t.outs \in Outs
            BY DEF Transactions
        <3> QED BY <3>1, OutsAre
    <2>2. ASSUME NEW i \in 1 .. Len(t.outs) PROVE to[i] \in Rops
        BY <1>2, <2>1 DEF OutRops, Rop, Rops, AssetRops, RopTypes, OutSet
    <2>3. to \in [1 .. Len(t.outs) -> Rops]
        BY <2>2 DEF OutRops
    <2> QED BY <2>1, <2>3
<1> HIDE DEF add, to, ops, new
<1>7. v \in UndoStates
    BY <1>5, UndoType
<1>8. Undone(u, ops) = Undone(v, to)
    <2>1. <<add>> \in Seq(Rops)
        BY <1>5
    <2>2. Undone(u, <<add>> \o to) = Undone(Undone(u, <<add>>), to)
        BY <1>6, <2>1, UndoneConcat
    <2>3. Undone(u, <<add>>) = v
        BY <1>5, UndoneOne
    <2> QED BY <1>3, <2>2, <2>3
<1>9. ASSUME Undone(u, ops).ok
      PROVE  /\ u.ok /\ x \in DOMAIN Undone(u, ops).accounts
             /\ Even(Undone(u, ops).accounts, new.accounts, u.accounts, st.accounts, x, b)
    <2>1. Put(f, s, SenderAfter(f[s], t)) \in AccountMaps /\ t.count <= Bal(f, s, a)
          /\ Bal(paid, x, b) = IF x = s /\ b = a THEN Bal(f, x, b) - t.count ELSE Bal(f, x, b)
        BY <1>1, <1>2, PaidBalance
    <2> HIDE DEF paid
    <2>2. paid \in AccountMaps
        BY <2>1 DEF paid
    <2>3. v.ok
        BY <1>6, <1>7, <1>8, <1>9, UndoneFails
    <2>4. Spares(add, x, b)
        BY <1>5 DEF Spares
    <2>5. u.ok /\ x \in DOMAIN v.accounts /\ Bal(v.accounts, x, b) = BackTo(add, x, b, Bal(u.accounts, x, b))
        BY <1>2, <1>5, <2>3, <2>4, UndoBalance
    <2> HIDE DEF v
    <2>6. /\ x \in DOMAIN Undone(v, to).accounts
          /\ Even(Undone(v, to).accounts, Credited(a, paid, t.outs), v.accounts, paid, x, b)
        BY <1>2, <1>6, <1>7, <1>8, <1>9, <2>2, <2>5, OutsUndone DEF to
    <2>7. Even(v.accounts, paid, u.accounts, f, x, b)
        <3>1. Bal(f, x, b) \in Nat /\ Bal(u.accounts, x, b) \in Nat
            <4>1. u.accounts \in AccountMaps
                BY DEF UndoStates
            <4> QED BY <1>2, <4>1, BalType
        <3>2. CASE x = s /\ b = a
            <4> DEFINE p == Bal(u.accounts, x, b)
                       q == Bal(f, x, b)
                       n == t.count
            <4>1. Bal(v.accounts, x, b) = (p + n) % Wrap /\ Bal(paid, x, b) = q - n /\ n <= q
                BY <1>5, <2>1, <2>5, <3>2 DEF BackTo
            <4>2. p \in Nat /\ q \in Nat /\ n \in Nat
                BY <1>2, <3>1
            <4> HIDE DEF p, q, n
            <4>3. (((p + n) % Wrap) + (q - n)) % Wrap = (p + q) % Wrap
                BY <4>1, <4>2, Trade
            <4> QED BY <4>1, <4>3 DEF Even, p, q
        <3>3. CASE ~(x = s /\ b = a)
            <4>1. Bal(v.accounts, x, b) = Bal(u.accounts, x, b) /\ Bal(paid, x, b) = Bal(f, x, b)
                BY <1>5, <2>1, <2>5, <3>3 DEF BackTo
            <4> QED BY <4>1 DEF Even
        <3> QED BY <3>2, <3>3
    <2> QED BY <1>1, <1>8, <2>5, <2>6, <2>7 DEF Even, paid
<1> QED BY <1>1, <1>4, <1>9 DEF UndoesStep, new

\* Undoing the establishment of an asset keeps the other assets.
LEMMA EstablishUndone ==
    ASSUME NEW st \in ApplyStates, st.ok, NEW t \in Transactions, t.op = "Establish", ApplyEstablish(st, t).ok,
           NEW u \in UndoStates, NEW x \in DOMAIN st.accounts, x \in DOMAIN u.accounts, NEW b \in Assets,
           b \in st.filter
    PROVE  UndoesStep(st, ApplyEstablish(st, t), u, x, b)
<1> DEFINE s == t.sender
           a == t.asset
           f == st.accounts
           act == IF s \in DOMAIN f THEN f[s] ELSE NewAccount(1)
           op == Rop(IF s \in DOMAIN f THEN "UPDATE_DELETE_ASSET" ELSE "DELETE_ACCOUNT", s, a, t.count)
           new == ApplyEstablish(st, t)
           rich == add_balance(act, a, AssetMax)
<1>1. a \notin st.filter /\ new.accounts = Put(f, s, rich) /\ new.ops = st.ops \o RollbackOfTransaction(t, f)
    BY EstablishIs
<1>2. f \in AccountMaps /\ s \in Addresses /\ a \in Assets /\ t.count \in Uint64 /\ AssetMax \in Uint64
    BY StateFields, Wraps DEF Transactions
<1>3. RollbackOfTransaction(t, f) = <<op>>
    BY DEF RollbackOfTransaction
<1>4. /\ op \in Rops /\ op.target = s /\ op.asset = a
      /\ op.type = IF s \in DOMAIN f THEN "UPDATE_DELETE_ASSET" ELSE "DELETE_ACCOUNT"
    BY <1>2 DEF Rop, Rops, AssetRops, RopTypes
<1> HIDE DEF op, new
<1>5. <<op>> \in Seq(Rops) /\ Undone(u, <<op>>) = Undo(u, op)
    BY <1>4, UndoneOne
<1>6. a # b
    BY <1>1
<1>7. Bal(new.accounts, x, b) = Bal(f, x, b)
    <2>1. act \in AccountSet
        <3>1. s \in DOMAIN f => f[s] \in AccountSet
            BY <1>2, MapIs DEF AccountMaps
        <3>2. NewAccount(1) \in AccountSet
            BY NewAccountType, Wraps
        <3> QED BY <3>1, <3>2
    <2>2. get_balance(act, b) = Bal(f, s, b)
        BY NewBalance DEF Bal
    <2> HIDE DEF act
    <2>3. get_balance(rich, b) = get_balance(act, b)
        BY <1>2, <1>6, <2>1, BalancesAfter
    <2> HIDE DEF rich
    <2>4. Bal(Put(f, s, rich), x, b) = IF x = s THEN get_balance(rich, b) ELSE Bal(f, x, b)
        BY BalPut
    <2> QED BY <1>1, <2>2, <2>3, <2>4
<1>8. ASSUME Undo(u, op).ok
      PROVE  /\ u.ok /\ x \in DOMAIN Undo(u, op).accounts
             /\ Even(Undo(u, op).accounts, new.accounts, u.accounts, f, x, b)
    <2>1. Spares(op, x, b)
        BY <1>4, <1>6 DEF Spares
    <2>2. u.ok /\ x \in DOMAIN Undo(u, op).accounts /\ Bal(Undo(u, op).accounts, x, b) = BackTo(op, x, b, Bal(u.accounts, x, b))
        BY <1>4, <1>8, <2>1, UndoBalance
    <2>3. BackTo(op, x, b, Bal(u.accounts, x, b)) = Bal(u.accounts, x, b)
        BY <1>4 DEF BackTo
    <2> QED BY <1>7, <2>2, <2>3 DEF Even
<1> QED BY <1>1, <1>3, <1>5, <1>8 DEF UndoesStep, new

\* So does undoing an affair.
LEMMA AffairUndone ==
    ASSUME NEW st \in ApplyStates, NEW air \in Affairs, ApplyAffair(st, air).ok,
           NEW u \in UndoStates, NEW x \in DOMAIN st.accounts, x \in DOMAIN u.accounts, NEW b \in Assets
    PROVE  UndoesStep(st, ApplyAffair(st, air), u, x, b)
<1> DEFINE f == st.accounts
           y == air.owner
           op == Rop(IF y \in DOMAIN f THEN "ONLY_REDUCE_NONCE" ELSE "DELETE_ACCOUNT", y, 0, 0)
           new == ApplyAffair(st, air)
<1>1. Bal(new.accounts, x, b) = Bal(f, x, b)
    BY AffairMoves
<1>2. st.ops \in Seq(Rops) /\ f \in AccountMaps /\ y \in Addresses
    BY StateFields DEF Affairs
<1>3. st.ok
    BY AffairKeeps DEF Keeps
<1>4. CASE ~is_db_level_affair_type(air)
    <2>1. new = st
        BY <1>4, Zenon DEF ApplyAffair
    <2>2. <<>> \in Seq(Rops) /\ st.ops = st.ops \o <<>>
        BY <1>2
    <2>3. Undone(u, <<>>) = u
        BY UndoneNone
    <2> HIDE DEF new
    <2>4. UndoesStep(st, new, u, x, b)
        BY <2>1, <2>2, <2>3 DEF UndoesStep, Even
    <2> QED BY <2>4 DEF new
<1>5. CASE is_db_level_affair_type(air)
    <2>1. new.ops = st.ops \o RollbackOfAffair(air, f)
        <3> DEFINE ops == st.ops \o RollbackOfAffair(air, f)
                   after == Put(f, y, IF y \in DOMAIN f THEN set_nonce(f[y], f[y].nonce + 1) ELSE NewAccount(1))
        <3>1. new = ApplyState(after, ops, st.filter, st.touched \cup {y}, TRUE)
            BY <1>3, <1>5, Zenon DEF ApplyAffair
        <3> HIDE DEF after, ops, new
        <3> QED BY <3>1 DEF ApplyState, ops
    <2>2. RollbackOfAffair(air, f) = <<op>>
        BY DEF RollbackOfAffair
    <2>3. op \in Rops /\ op.target = y /\ op.type = IF y \in DOMAIN f THEN "ONLY_REDUCE_NONCE" ELSE "DELETE_ACCOUNT"
        BY <1>2 DEF Rop, Rops, NonceRops
    <2> HIDE DEF op, new
    <2>4. <<op>> \in Seq(Rops) /\ Undone(u, <<op>>) = Undo(u, op)
        BY <2>3, UndoneOne
    <2>5. ASSUME Undo(u, op).ok
          PROVE  /\ u.ok /\ x \in DOMAIN Undo(u, op).accounts
                 /\ Even(Undo(u, op).accounts, new.accounts, u.accounts, f, x, b)
        <3>1. Spares(op, x, b)
            BY <2>3 DEF Spares
        <3>2. u.ok /\ x \in DOMAIN Undo(u, op).accounts /\ Bal(Undo(u, op).accounts, x, b) = BackTo(op, x, b, Bal(u.accounts, x, b))
            BY <2>3, <2>5, <3>1, UndoBalance
        <3>3. BackTo(op, x, b, Bal(u.accounts, x, b)) = Bal(u.accounts, x, b)
            BY <2>3 DEF BackTo
        <3> QED BY <1>1, <3>2, <3>3 DEF Even
    <2> QED BY <2>1, <2>2, <2>4, <2>5 DEF UndoesStep, new
<1> QED BY <1>4, <1>5

\* What a rollback starts from.
RollingBack(accts) == [accounts |-> accts, ok |-> TRUE]

\* Where the operations of st can be undone on the accounts post, they give the balances of the
\* accounts pre what the block has taken from them so far.
Undoes(pre, known, post, st) ==
    LET u == Undone(RollingBack(post), st.ops)
    IN  /\ Agrees(pre, st) /\ known \subseteq st.filter
        /\ u.ok => \A x \in DOMAIN pre, b \in known :
                       x \in DOMAIN u.accounts /\ Even(u.accounts, st.accounts, post, pre, x, b)

\* A step of the application extends that.
LEMMA UndoesNext ==
    ASSUME NEW pre, NEW known \in SUBSET Assets, NEW post \in AccountMaps, NEW st \in ApplyStates, NEW new,
           Undoes(pre, known, post, st), Keeps(st, new), new.ok,
           \A u \in UndoStates, x \in DOMAIN st.accounts, b \in known :
               x \in DOMAIN u.accounts => UndoesStep(st, new, u, x, b)
    PROVE  Undoes(pre, known, post, new)
<1> DEFINE base == RollingBack(post)
           u == Undone(base, st.ops)
           v == Undone(base, new.ops)
<1>1. Agrees(pre, new) /\ known \subseteq new.filter
    BY DEF Undoes, Keeps
<1>2. base \in UndoStates /\ st.ops \in Seq(Rops)
    BY StateFields DEF RollingBack, UndoStates
<1> HIDE DEF base
<1>3. u \in UndoStates
    BY <1>2, UndoneConcat
<1>4. ASSUME v.ok, NEW x \in DOMAIN pre, NEW b \in known
      PROVE  x \in DOMAIN v.accounts /\ Even(v.accounts, new.accounts, post, pre, x, b)
    <2>1. u.ok
        <3> DEFINE w == RollingBack(st.accounts)
        <3>1. w \in UndoStates /\ x \in DOMAIN w.accounts /\ x \in DOMAIN st.accounts
            BY StateFields DEF RollingBack, UndoStates, Undoes, Agrees
        <3>2. UndoesStep(st, new, w, x, b)
            BY <3>1
        <3>3. PICK ops \in Seq(Rops) : new.ops = st.ops \o ops
            BY <3>2 DEF UndoesStep
        <3>4. v = Undone(u, ops)
            BY <1>2, <3>3, UndoneConcat
        <3> QED BY <1>3, <1>4, <3>4, UndoneFails
    <2>2. x \in DOMAIN u.accounts /\ x \in DOMAIN st.accounts /\ Even(u.accounts, st.accounts, post, pre, x, b)
        BY <2>1 DEF Undoes, Agrees, base
    <2>3. UndoesStep(st, new, u, x, b)
        BY <1>3, <2>2
    <2>4. PICK ops \in Seq(Rops) :
              /\ new.ops = st.ops \o ops
              /\ Undone(u, ops).ok =>
                     u.ok /\ x \in DOMAIN Undone(u, ops).accounts
                     /\ Even(Undone(u, ops).accounts, new.accounts, u.accounts, st.accounts, x, b)
        BY <2>3 DEF UndoesStep
    <2>5. v = Undone(u, ops)
        BY <1>2, <2>4, UndoneConcat
    <2> HIDE DEF u, v
    <2> QED BY <1>4, <2>2, <2>4, <2>5 DEF Even
<1> QED BY <1>1, <1>4 DEF Undoes, base

\* A transaction that is applied keeps the rollback exact.
LEMMA UndoesTransaction ==
    ASSUME NEW pre, NEW known \in SUBSET Assets, NEW post \in AccountMaps, NEW st \in ApplyStates, NEW t \in Transactions,
           Undoes(pre, known, post, st), ApplyTransaction(st, t).ok
    PROVE  Undoes(pre, known, post, ApplyTransaction(st, t))
<1>1. Keeps(st, ApplyTransaction(st, t)) /\ st.ok
    BY TransactionKeeps DEF Keeps
<1>2. known \subseteq st.filter
    BY DEF Undoes
<1>3. CASE t.op = "Append"
    <2>1. ApplyTransaction(st, t) = ApplyAppend(st, t)
        BY <1>1, <1>3 DEF ApplyTransaction
    <2>2. ASSUME NEW u \in UndoStates, NEW x \in DOMAIN st.accounts, NEW b \in known, x \in DOMAIN u.accounts
          PROVE  UndoesStep(st, ApplyTransaction(st, t), u, x, b)
        BY <1>3, <2>1, <2>2, AppendUndone
    <2> QED BY <1>1, <2>2, UndoesNext
<1>4. CASE t.op = "Establish"
    <2>1. ApplyTransaction(st, t) = ApplyEstablish(st, t)
        BY <1>1, <1>4 DEF ApplyTransaction
    <2>2. ASSUME NEW u \in UndoStates, NEW x \in DOMAIN st.accounts, NEW b \in known, x \in DOMAIN u.accounts
          PROVE  UndoesStep(st, ApplyTransaction(st, t), u, x, b)
        BY <1>1, <1>2, <1>4, <2>1, <2>2, EstablishUndone
    <2> QED BY <1>1, <2>2, UndoesNext
<1>5. CASE t.op \notin {"Append", "Establish"}
    <2>1. ApplyTransaction(st, t) = st
        BY <1>1, <1>5 DEF ApplyTransaction
    <2> QED BY <2>1
<1> QED BY <1>3, <1>4, <1>5

\* The same for an affair.
LEMMA UndoesAffair ==
    ASSUME NEW pre, NEW known \in SUBSET Assets, NEW post \in AccountMaps, NEW st \in ApplyStates, NEW air \in Affairs,
           Undoes(pre, known, post, st), ApplyAffair(st, air).ok
    PROVE  Undoes(pre, known, post, ApplyAffair(st, air))
<1>1. Keeps(st, ApplyAffair(st, air))
    BY AffairKeeps
<1>2. ASSUME NEW u \in UndoStates, NEW x \in DOMAIN st.accounts, NEW b \in known, x \in DOMAIN u.accounts
      PROVE  UndoesStep(st, ApplyAffair(st, air), u, x, b)
    BY <1>2, AffairUndone
<1> QED BY <1>1, <1>2, UndoesNext

\* So does a block's list of transactions ...
LEMMA UndoesTransactions ==
    ASSUME NEW pre, NEW known \in SUBSET Assets, NEW post \in AccountMaps, NEW base \in ApplyStates,
           NEW txs \in Seq(Transactions), Undoes(pre, known, post, base), TransactionsApplied(base, txs).ok
    PROVE  Undoes(pre, known, post, TransactionsApplied(base, txs))
<1> DEFINE n == Len(txs)
<1>1. n \in Nat /\ DOMAIN txs = 1 .. n /\ \A i \in 1 .. n : txs[i] \in Transactions
    OBVIOUS
<1>2. TransactionsClosed(ApplyStates, txs)
    BY <1>1, TransactionKeeps DEF TransactionsClosed, Keeps
<1>3. PICK f : TransactionsPath(ApplyStates, base, txs, f)
    BY <1>2, TransactionsUnfold
<1>4. /\ f \in [0 .. n -> ApplyStates] /\ f[0] = base /\ f[n] = TransactionsApplied(base, txs)
      /\ \A i \in 1 .. n : f[i] = ApplyTransaction(f[i - 1], txs[i])
    BY <1>3 DEF TransactionsPath
<1> HIDE DEF n
<1> DEFINE P == {i \in 0 .. n : f[i].ok => Undoes(pre, known, post, f[i])}
<1>5. 0 \in P
    BY <1>1, <1>4
<1>6. ASSUME NEW i \in 1 .. n, i - 1 \in P PROVE i \in P
    <2>1. i - 1 \in 0 .. n /\ i \in 0 .. n
        BY <1>1
    <2> DEFINE g == f[i - 1]
               t == txs[i]
    <2>2. g \in ApplyStates /\ t \in Transactions /\ f[i] = ApplyTransaction(g, t)
          /\ (g.ok => Undoes(pre, known, post, g))
        BY <1>1, <1>4, <1>6, <2>1
    <2> HIDE DEF g, t
    <2>3. ASSUME f[i].ok PROVE Undoes(pre, known, post, f[i])
        <3>1. ApplyTransaction(g, t).ok
            BY <2>2, <2>3
        <3>2. g.ok
            BY <2>2, <3>1, TransactionKeeps DEF Keeps
        <3>3. Undoes(pre, known, post, ApplyTransaction(g, t))
            BY <2>2, <3>1, <3>2, UndoesTransaction
        <3> QED BY <2>2, <3>3
    <2> QED BY <2>1, <2>3
<1> HIDE DEF P
<1>7. \A i \in 0 .. n : i \in P
    BY <1>1, <1>5, <1>6, Induction
<1>8. n \in P
    BY <1>1, <1>7
<1> QED BY <1>4, <1>8 DEF P

\* ... and its list of affairs.
LEMMA UndoesAffairs ==
    ASSUME NEW pre, NEW known \in SUBSET Assets, NEW post \in AccountMaps, NEW base \in ApplyStates,
           NEW airs \in Seq(Affairs), Undoes(pre, known, post, base), AffairsApplied(base, airs).ok
    PROVE  Undoes(pre, known, post, AffairsApplied(base, airs))
<1> DEFINE n == Len(airs)
<1>1. n \in Nat /\ DOMAIN airs = 1 .. n /\ \A i \in 1 .. n : airs[i] \in Affairs
    OBVIOUS
<1>2. AffairsClosed(ApplyStates, airs)
    BY <1>1, AffairKeeps DEF AffairsClosed, Keeps
<1>3. PICK f : AffairsPath(ApplyStates, base, airs, f)
    BY <1>2, AffairsUnfold
<1>4. /\ f \in [0 .. n -> ApplyStates] /\ f[0] = base /\ f[n] = AffairsApplied(base, airs)
      /\ \A i \in 1 .. n : f[i] = ApplyAffair(f[i - 1], airs[i])
    BY <1>3 DEF AffairsPath
<1> HIDE DEF n
<1> DEFINE P == {i \in 0 .. n : f[i].ok => Undoes(pre, known, post, f[i])}
<1>5. 0 \in P
    BY <1>1, <1>4
<1>6. ASSUME NEW i \in 1 .. n, i - 1 \in P PROVE i \in P
    <2>1. i - 1 \in 0 .. n /\ i \in 0 .. n
        BY <1>1
    <2> DEFINE g == f[i - 1]
               c == airs[i]
    <2>2. g \in ApplyStates /\ c \in Affairs /\ f[i] = ApplyAffair(g, c)
          /\ (g.ok => Undoes(pre, known, post, g))
        BY <1>1, <1>4, <1>6, <2>1
    <2> HIDE DEF g, c
    <2>3. ASSUME f[i].ok PROVE Undoes(pre, known, post, f[i])
        <3>1. ApplyAffair(g, c).ok
            BY <2>2, <2>3
        <3>2. g.ok
            BY <2>2, <3>1, AffairKeeps DEF Keeps
        <3>3. Undoes(pre, known, post, ApplyAffair(g, c))
            BY <2>2, <3>1, <3>2, UndoesAffair
        <3> QED BY <2>2, <3>3
    <2> QED BY <2>1, <2>3
<1> HIDE DEF P
<1>7. \A i \in 0 .. n : i \in P
    BY <1>1, <1>5, <1>6, Induction
<1>8. n \in P
    BY <1>1, <1>7
<1> QED BY <1>4, <1>8 DEF P

\* Where the root is the same, and so is every balance of a known asset, an asset that nobody had
\* before is not there after: the hash of an account counts the amounts.
LEMMA RootBalances ==
    ASSUME NEW f \in AccountMaps, NEW g \in AccountMaps, NEW known, RootOf(f) = RootOf(g),
           \A x \in DOMAIN g, b \in known : Bal(f, x, b) = Bal(g, x, b),
           \A x \in Addresses, b \in Assets \ known : Bal(g, x, b) = 0
    PROVE  SameBalances(f, g)
<1>1. DOMAIN f = DOMAIN g
    BY DEF RootOf
<1> SUFFICES ASSUME NEW x \in DOMAIN g, NEW b \in Assets \ known, Bal(f, x, b) # 0
             PROVE  FALSE
    <2>1. \A x \in Addresses \ DOMAIN g : \A b : Bal(f, x, b) = Bal(g, x, b)
        BY <1>1 DEF Bal
    <2>2. DOMAIN g \subseteq Addresses
        BY MapIs DEF AccountMaps
    <2> QED BY <2>1, <2>2 DEF SameBalances
<1> DEFINE fb == f[x].balances
           gb == g[x].balances
           v == Bal(f, x, b)
           F == {a \in DOMAIN fb : fb[a] = v}
           G == {a \in DOMAIN gb : gb[a] = v}
<1>2. \A a : Bal(f, x, a) = (IF a \in DOMAIN fb THEN fb[a] ELSE 0) /\ Bal(g, x, a) = (IF a \in DOMAIN gb THEN gb[a] ELSE 0)
    BY <1>1 DEF Bal, get_balance
<1>3. DOMAIN fb \subseteq Assets /\ DOMAIN gb \subseteq Assets /\ x \in Addresses
    <2>1. f[x] \in AccountSet /\ g[x] \in AccountSet /\ x \in Addresses
        BY <1>1, MapIs DEF AccountMaps
    <2>2. fb \in Maps(Assets, Uint64) /\ gb \in Maps(Assets, Uint64)
        BY <2>1 DEF AccountSet
    <2> QED BY <2>1, <2>2, MapIs
<1>4. get_hash(f[x]) = get_hash(g[x])
    <2>1. RootOf(f)[x] = get_hash(f[x]) /\ RootOf(g)[x] = get_hash(g[x])
        BY <1>1 DEF RootOf
    <2> QED BY <2>1
<1> DEFINE H(c) == [w \in {c[a] : a \in DOMAIN c} |-> Cardinality({a \in DOMAIN c : c[a] = w})]
<1>5. H(fb) = H(gb)
    <2>1. get_hash(f[x]).amounts = H(fb) /\ get_hash(g[x]).amounts = H(gb)
        BY DEF get_hash
    <2> QED BY <1>4, <2>1
<1> HIDE DEF fb, gb, v
<1>6. b \in DOMAIN fb /\ fb[b] = v /\ v # 0
    BY <1>2 DEF v
<1>7. v \in DOMAIN H(fb) /\ v \in DOMAIN H(gb)
    <2>1. DOMAIN H(fb) = DOMAIN H(gb)
        BY <1>5
    <2>2. v \in DOMAIN H(fb)
        BY <1>6
    <2> HIDE DEF H
    <2> QED BY <2>1, <2>2
<1>8. Cardinality(F) = Cardinality(G)
    <2>1. H(fb)[v] = Cardinality(F)
        BY <1>7
    <2>2. H(gb)[v] = Cardinality(G)
        BY <1>7
    <2> HIDE DEF H, F, G
    <2> QED BY <1>5, <2>1, <2>2
<1>9. G \subseteq F
    <2> SUFFICES ASSUME NEW a \in DOMAIN gb, gb[a] = v PROVE a \in DOMAIN fb /\ fb[a] = v
        OBVIOUS
    <2>1. Bal(g, x, a) = v /\ a \in Assets
        BY <1>2, <1>3
    <2>2. a \in known
        BY <1>3, <1>6, <2>1
    <2>3. Bal(f, x, a) = v
        BY <2>1, <2>2
    <2> QED BY <1>2, <1>6, <2>3
<1>10. b \in F /\ b \notin G
    <2>1. b \in DOMAIN gb => gb[b] = 0
        BY <1>2, <1>3
    <2> QED BY <1>6, <2>1
<1>11. IsFiniteSet(F)
    <2>1. F \subseteq Assets
        BY <1>3
    <2> HIDE DEF F
    <2> QED BY <2>1, FS_Subset, FiniteAssumption
<1> HIDE DEF F, G
<1>12. F = G
    BY <1>8, <1>9, <1>11, FS_Subset
<1> QED BY <1>10, <1>12

\* Applying a block that succeeds: the history and the supply, and a rollback that finds the old
\* root gives the old balances.
LEMMA AppliedMoves ==
    ASSUME NEW b, b.transactions \in Seq(Transactions),
           b.affairs \in Seq(Affairs), \A i \in 1 .. Len(b.transactions) : WellFormed(b.transactions[i]),
           accounts \in AccountMaps, assetFilter \in SUBSET Assets, NEW old \in Seq(Transactions),
           Hist(accounts, old), SupplyOK(accounts, assetFilter), Applied(b).ok
    PROVE  /\ Hist(Applied(b).accounts, old \o b.transactions)
           /\ SupplyOK(Applied(b).accounts, Applied(b).filter)
           /\ LET u == execute_rollback(Applied(b).ops, Applied(b).accounts)
              IN  u.ok /\ RootOf(u.accounts) = RootOf(accounts) => SameBalances(u.accounts, accounts)
<1> DEFINE base == ApplyState(accounts, <<>>, assetFilter, {}, TRUE)
           mid == TransactionsApplied(base, b.transactions)
           st == AffairsApplied(mid, b.affairs)
<1>1. /\ base \in ApplyStates /\ base.accounts = accounts /\ base.filter = assetFilter
      /\ base.touched = {} /\ base.ops = <<>>
    BY DEF ApplyState, ApplyStates
<1>2. Applied(b) = st
    BY Zenon DEF Applied, TransactionsApplied, AffairsApplied
<1>3. Agrees(accounts, base)
    BY <1>1 DEF Agrees
<1> HIDE DEF base
<1>4. mid \in ApplyStates
    BY <1>1, TransactionsKeep DEF Keeps
<1>5. st.ok /\ mid.ok /\ st \in ApplyStates
    <2>1. st.ok
        BY <1>2
    <2> HIDE DEF mid
    <2> QED BY <1>4, <2>1, AffairsKeep DEF Keeps
<1>6. SupplyOK(mid.accounts, mid.filter) /\ Hist(mid.accounts, old \o b.transactions)
    BY <1>1, <1>5, TransactionsMove
<1>7. (\A x, a : Bal(st.accounts, x, a) = Bal(mid.accounts, x, a)) /\ st.filter = mid.filter
    <2> HIDE DEF mid
    <2> QED BY <1>4, <1>5, AffairsMove
<1>8. SupplyOK(st.accounts, st.filter)
    <2> HIDE DEF mid, st
    <2>1. \A a : Supply(st.accounts, a) = Supply(mid.accounts, a)
        BY <1>7, SupplySame
    <2> QED BY <1>6, <1>7, <2>1 DEF SupplyOK
<1>9. Hist(st.accounts, old \o b.transactions)
    <2> HIDE DEF mid, st
    <2> QED BY <1>6, <1>7 DEF Hist
<1> DEFINE post == st.accounts
           u == Undone(RollingBack(post), st.ops)
<1>10. Undoes(accounts, assetFilter, post, st)
    <2>1. post \in AccountMaps
        <3> HIDE DEF st
        <3> QED BY <1>5, StateFields
    <2> HIDE DEF post
    <2>2. RollingBack(post) \in UndoStates
        BY <2>1 DEF RollingBack, UndoStates
    <2>3. Undone(RollingBack(post), <<>>) = RollingBack(post)
        BY <2>2, UndoneNone
    <2>4. Undoes(accounts, assetFilter, post, base)
        <3>1. \A x \in DOMAIN accounts : x \in DOMAIN post
            <4>1. Agrees(accounts, st)
                <5>1. Keeps(base, mid)
                    BY <1>1, TransactionsKeep
                <5> HIDE DEF mid
                <5>2. Keeps(mid, st)
                    BY <1>4, AffairsKeep
                <5> HIDE DEF st
                <5> QED BY <1>3, <1>5, <5>1, <5>2 DEF Keeps
            <4> HIDE DEF st
            <4> QED BY <4>1 DEF Agrees, post
        <3>2. RollingBack(post).accounts = post
            BY DEF RollingBack
        <3>3. \A x, c : Even(post, accounts, post, accounts, x, c)
            BY DEF Even
        <3> QED BY <1>1, <1>3, <2>3, <3>1, <3>2, <3>3 DEF Undoes
    <2>5. Undoes(accounts, assetFilter, post, mid)
        BY <1>1, <1>5, <2>1, <2>4, UndoesTransactions
    <2> HIDE DEF mid
    <2>6. Undoes(accounts, assetFilter, post, st)
        BY <1>4, <1>5, <2>1, <2>5, UndoesAffairs
    <2> QED BY <2>6 DEF post
<1>11. execute_rollback(st.ops, post) = u
    BY Zenon DEF execute_rollback, Undone, RollingBack
<1>12. ASSUME u.ok, RootOf(u.accounts) = RootOf(accounts) PROVE SameBalances(u.accounts, accounts)
    <2>1. post \in AccountMaps /\ u.accounts \in AccountMaps
        <3> HIDE DEF st
        <3>1. post \in AccountMaps /\ st.ops \in Seq(Rops)
            BY <1>5, StateFields
        <3>2. RollingBack(post) \in UndoStates
            BY <3>1 DEF RollingBack, UndoStates
        <3>3. u \in UndoStates
            BY <3>1, <3>2, UndoneConcat
        <3> HIDE DEF u
        <3> QED BY <3>1, <3>3 DEF UndoStates
    <2>2. ASSUME NEW x \in DOMAIN accounts, NEW a \in assetFilter PROVE Bal(u.accounts, x, a) = Bal(accounts, x, a)
        <3>1. Even(u.accounts, post, post, accounts, x, a)
            BY <1>10, <1>12 DEF Undoes
        <3> HIDE DEF u, post
        <3>2. Bal(u.accounts, x, a) \in Uint64 /\ Bal(post, x, a) \in Uint64 /\ Bal(accounts, x, a) \in Uint64
            BY <2>1, BalType
        <3> QED BY <3>1, <3>2, Cancel DEF Even
    <2>3. ASSUME NEW x \in Addresses, NEW a \in Assets \ assetFilter PROVE Bal(accounts, x, a) = 0
        <3>1. Supply(accounts, a) = 0
            BY DEF SupplyOK
        <3> QED BY <3>1, BalType, SupplyFacts
    <2> HIDE DEF u
    <2> QED BY <1>12, <2>1, <2>2, <2>3, RootBalances
<1> HIDE DEF u
<1> QED BY <1>2, <1>8, <1>9, <1>11, <1>12 DEF post

-----------------------------------------------------------------------------
(* The transactions of a chain *)

Join(txs, b) == txs \o b.transactions

JoinedOf(base, seq) == FoldLeft(LAMBDA txs, b : txs \o b.transactions, base, seq)

JoinPath(base, seq, f) ==
    /\ f \in [0 .. Len(seq) -> Seq(Transactions)] /\ f[0] = base /\ f[Len(seq)] = JoinedOf(base, seq)
    /\ \A i \in 1 .. Len(seq) : f[i] = Join(f[i - 1], seq[i])

\* A block of inputs holds transactions.
LEMMA BlockTransactions ==
    ASSUME NEW b \in Blocks
    PROVE  b.transactions \in Seq(Inputs) /\ b.transactions \in Seq(Transactions)
<1>1. b.transactions \in Seq(Inputs)
    BY BlockWith
<1> QED BY <1>1, InputAssumption, SeqMonotonic

\* Collecting the transactions passes through one list per block.
LEMMA JoinUnfold ==
    ASSUME NEW base \in Seq(Transactions), NEW seq \in Seq(Blocks)
    PROVE  \E f : JoinPath(base, seq, f)
<1> DEFINE n == Len(seq)
           S == Seq(Transactions)
<1>0. n \in Nat /\ DOMAIN seq = 1 .. n /\ base \in S /\ \A st \in S : \A i \in 1 .. n : Join(st, seq[i]) \in S
    <2>1. n \in Nat /\ DOMAIN seq = 1 .. n /\ \A i \in 1 .. n : seq[i] \in Blocks
        BY ElementOfSeq, LenProperties
    <2>2. \A i \in 1 .. n : seq[i].transactions \in S
        BY <2>1, BlockTransactions
    <2> QED BY <2>1, <2>2, ConcatProperties DEF Join
<1> HIDE DEF n, S
<1> DEFINE E(h) == h = [s \in SUBSET (1 .. n) |->
                           IF s = {} THEN base ELSE Join(h[s \ {Max(s)}], seq[Max(s)])]
           it == CHOOSE h : E(h)
           G == [p \in (1 .. n) \X S |-> Join(p[2], seq[p[1]])]
<1>1. G \in [(1 .. n) \X S -> S]
    BY <1>0
<1>2. ASSUME NEW s \in SUBSET (1 .. n), s # {} PROVE Max(s) \in 1 .. n
    BY <1>0, <1>2, MaxIn
<1>3. \E h : E(h)
    <2>1. PICK h \in [SUBSET (1 .. n) -> S] : \A s \in SUBSET (1 .. n) : FoldsAt(G, base, s, h)
        <3> HIDE DEF G
        <3> QED BY <1>0, <1>1, FoldExists
    <2>2. ASSUME NEW s \in SUBSET (1 .. n), s # {}
          PROVE  h[s] = Join(h[s \ {Max(s)}], seq[Max(s)])
        BY <1>2, <2>1, <2>2 DEF FoldsAt
    <2>3. h[{}] = base
        BY <2>1 DEF FoldsAt
    <2>4. E(h)
        BY <2>2, <2>3
    <2> HIDE DEF E
    <2> QED BY <2>4
<1>4. E(it)
    BY <1>3
<1>5. JoinedOf(base, seq) = it[1 .. n]
    BY <1>0, Zenon DEF JoinedOf, Join, FoldLeft, MapThenFoldSet
<1> HIDE DEF it
<1>6. ASSUME NEW s \in SUBSET (1 .. n), s # {}, it[s \ {Max(s)}] \in S
      PROVE  it[s] = G[<<Max(s), it[s \ {Max(s)}]>>]
    BY <1>2, <1>4, <1>6
<1>7. it[{}] = base
    BY <1>4
<1> HIDE DEF E, G
<1>8. PICK f \in [0 .. n -> S] : /\ f[0] = base /\ f[n] = it[1 .. n]
                                 /\ \A i \in 1 .. n : f[i] = G[<<i, f[i - 1]>>]
    <2>1. Recurs(n, S, base, G, it)
        BY <1>6, <1>7 DEF Recurs
    <2>2. Passes(n, S, base, G, it[1 .. n])
        BY <1>0, <1>1, <2>1, FoldChain
    <2> QED BY <2>2 DEF Passes
<1>9. \A i \in 1 .. n : f[i] = Join(f[i - 1], seq[i])
    <2> TAKE i \in 1 .. n
    <2>1. <<i, f[i - 1]>> \in (1 .. n) \X S /\ f[i] = G[<<i, f[i - 1]>>]
        BY <1>0, <1>8
    <2> QED BY <2>1 DEF G
<1> QED BY <1>5, <1>8, <1>9 DEF JoinPath, n, S

\* What TransactionsOf is: nothing for no block, and each further block adds its transactions.
LEMMA TransactionsOfFacts ==
    ASSUME NEW s \in Seq(Blocks)
    PROVE  /\ TransactionsOf(s) \in Seq(Transactions) /\ (Len(s) = 0 => TransactionsOf(s) = <<>>)
           /\ \A b \in Blocks : TransactionsOf(Append(s, b)) = TransactionsOf(s) \o b.transactions
<1> DEFINE n == Len(s)
<1>0. n \in Nat /\ <<>> \in Seq(Transactions)
    BY LenProperties
<1>1. \A z : TransactionsOf(z) = JoinedOf(<<>>, z)
    BY Zenon DEF TransactionsOf, JoinedOf
<1>2. PICK f : JoinPath(<<>>, s, f)
    BY <1>0, JoinUnfold
<1>3. /\ f \in [0 .. n -> Seq(Transactions)] /\ f[0] = <<>> /\ f[n] = TransactionsOf(s)
      /\ \A i \in 1 .. n : f[i] = Join(f[i - 1], s[i])
    BY <1>1, <1>2 DEF JoinPath
<1>4. TransactionsOf(s) \in Seq(Transactions) /\ (n = 0 => TransactionsOf(s) = <<>>)
    BY <1>0, <1>3
<1>5. ASSUME NEW b \in Blocks PROVE TransactionsOf(Append(s, b)) = TransactionsOf(s) \o b.transactions
    <2> DEFINE z == Append(s, b)
    <2>1. z \in Seq(Blocks) /\ Len(z) = n + 1 /\ z[n + 1] = b /\ \A i \in 1 .. n : z[i] = s[i]
        BY AppendProperties
    <2> HIDE DEF z
    <2>2. PICK g : JoinPath(<<>>, z, g)
        BY <1>0, <2>1, JoinUnfold
    <2>3. /\ g[0] = <<>> /\ g[n + 1] = TransactionsOf(z)
          /\ \A i \in 1 .. n + 1 : g[i] = Join(g[i - 1], z[i])
        BY <1>1, <2>1, <2>2 DEF JoinPath
    <2> DEFINE P == {i \in 0 .. n : g[i] = f[i]}
    <2> HIDE DEF n
    <2>4. 0 \in P
        BY <1>0, <1>3, <2>3
    <2>5. ASSUME NEW i \in 1 .. n, i - 1 \in P PROVE i \in P
        <3>1. i \in 1 .. n + 1 /\ i \in 0 .. n
            BY <1>0
        <3>2. g[i] = Join(g[i - 1], z[i])
            BY <2>3, <3>1
        <3>3. f[i] = Join(f[i - 1], s[i]) /\ z[i] = s[i] /\ g[i - 1] = f[i - 1]
            BY <1>3, <2>1, <2>5
        <3> QED BY <3>1, <3>2, <3>3
    <2> HIDE DEF P
    <2>6. \A i \in 0 .. n : i \in P
        BY <1>0, <2>4, <2>5, Induction
    <2>7. g[n] = f[n]
        BY <1>0, <2>6 DEF P
    <2>8. g[n + 1] = Join(g[n + 1 - 1], z[n + 1]) /\ n + 1 - 1 = n
        BY <1>0, <2>3
    <2> QED BY <1>3, <2>1, <2>3, <2>7, <2>8 DEF z, Join
<1> QED BY <1>4, <1>5 DEF n

-----------------------------------------------------------------------------
(* The inductive invariant *)

\* The transactions of the stored chain.
History == TransactionsOf(Durable)

\* The filter a restart loads.
StoredFilter == IF diskState = NoState THEN {} ELSE LoadedFilter(<<diskState.top, diskState.height>>)

Balanced(accts, known, txs) == Hist(accts, txs) /\ SupplyOK(accts, known)

StoredTyped == diskState # NoState => \A i \in 1 .. diskState.height : diskBlocks[i] \in Blocks

\* The accounts in memory belong to the stored chain, or to that and the inserted block.
MemoryBalanced ==
    /\ step \in Quiet \cup {"genesis"} => Balanced(accounts, assetFilter, History)
    /\ step \in Writing => Balanced(accounts, assetFilter, History \o blk.transactions)

\* The accounts on disk belong to the stored chain until the next block's are written.
DiskBalanced == step \notin {"filter", "block", "state"} => Balanced(diskAccounts, StoredFilter, History)

\* The commit of a block makes the balances on disk those in memory.
CommitBalanced ==
    /\ step \in {"packed", "accounts"} => SameBalances(Overwrite(diskAccounts, commits[1].accounts), accounts)
    /\ step \in {"filter", "block", "state"} => SameBalances(diskAccounts, accounts)

\* A rollback that succeeds gives the balances on disk, and the filter it leaves knows them.
RollbackBalanced ==
    step = "packed" =>
        /\ SupplyOK(diskAccounts, assetFilter)
        /\ Len(rollbacks) = 1 =>
             LET u == execute_rollback(rollbacks[1], accounts)
             IN  u.ok /\ RootOf(u.accounts) = commits[1].prevRoot => SameBalances(u.accounts, diskAccounts)

BalanceInv ==
    /\ StoredTyped
    /\ ~threw /\ ~torn => MemoryBalanced /\ DiskBalanced /\ CommitBalanced /\ RollbackBalanced

\* Equal balances have the same supply, and a filter may know more.
LEMMA SupplyOKSame ==
    ASSUME NEW f, NEW g, NEW known, NEW more, SupplyOK(f, known), SameBalances(f, g), known \subseteq more
    PROVE  SupplyOK(g, more)
<1>1. \A a \in Assets : Supply(g, a) = Supply(f, a)
    BY SupplySame DEF SameBalances
<1> QED BY <1>1 DEF SupplyOK

\* The stored chain is a sequence of blocks.
LEMMA DurableTyped ==
    ASSUME StateStored, StoredTyped
    PROVE  /\ Durable \in Seq(Blocks) /\ History \in Seq(Transactions)
           /\ diskState = NoState => History = <<>>
<1>1. Durable \in Seq(Blocks) /\ (diskState = NoState => Len(Durable) = 0)
    <2>1. CASE diskState = NoState
        BY <2>1 DEF Durable
    <2>2. CASE diskState # NoState
        <3> DEFINE n == diskState.height
                   D == [i \in 1 .. n |-> IF i \in DOMAIN diskBlocks THEN diskBlocks[i] ELSE NoBlock]
        <3>1. n \in Nat /\ Durable = D
            BY <2>2 DEF StateStored, Durable
        <3>2. \A i \in 1 .. n : i \in DOMAIN diskBlocks /\ diskBlocks[i] \in Blocks
            BY <2>2 DEF StateStored, StoredTyped
        <3> HIDE DEF n
        <3>3. D \in [1 .. n -> Blocks]
            BY <3>2
        <3> HIDE DEF D
        <3>4. D \in Seq(Blocks)
            BY <3>1, <3>3
        <3> QED BY <2>2, <3>1, <3>4
    <2> QED BY <2>1, <2>2
<1> QED BY <1>1, TransactionsOfFacts DEF History

\* Nothing is stored, so nobody has a balance.
LEMMA BalanceInit == Init => BalanceInv
<1> SUFFICES ASSUME Init PROVE BalanceInv
    OBVIOUS
<1>1. /\ step = "genesis" /\ accounts = Nothing /\ diskAccounts = Nothing /\ assetFilter = {} /\ diskState = NoState
    BY DEF Init
<1>2. StoredTyped
    BY <1>1 DEF StoredTyped
<1>3. History = <<>>
    <2>1. Durable = <<>>
        BY <1>1 DEF Durable
    <2>2. <<>> \in Seq(Blocks) /\ Len(<<>>) = 0
        OBVIOUS
    <2> QED BY <2>1, <2>2, TransactionsOfFacts DEF History
<1>4. \A x, a : Bal(Nothing, x, a) = 0
    BY DEF Bal, Nothing
<1>5. Hist(Nothing, <<>>)
    <2>1. <<>> \in Seq(Transactions) /\ Len(<<>>) = 0
        OBVIOUS
    <2>2. \A x \in Addresses, a \in Assets : Sent(<<>>, x, a) = 0 /\ Established(<<>>, x, a) = 0 /\ Received(<<>>, x, a) = 0
        BY <2>1, SentFacts, EstablishedFacts, ReceivedFacts
    <2> QED BY <1>4, <2>2 DEF Hist
<1>6. SupplyOK(Nothing, {})
    <2>1. Nothing \in AccountMaps
        BY NothingMap DEF AccountMaps
    <2>2. \A a \in Assets : Supply(Nothing, a) = 0
        BY <1>4, <2>1, SupplyFacts
    <2> QED BY <2>2 DEF SupplyOK
<1>7. StoredFilter = {}
    BY <1>1 DEF StoredFilter
<1>8. MemoryBalanced /\ DiskBalanced /\ CommitBalanced /\ RollbackBalanced
    BY <1>1, <1>3, <1>5, <1>6, <1>7
       DEF MemoryBalanced, DiskBalanced, CommitBalanced, RollbackBalanced, Balanced, Quiet, Writing
<1> QED BY <1>2, <1>8 DEF BalanceInv

\* Steps that leave the stored chain, the accounts and what is being written alone.
LEMMA BalanceFrame ==
    ASSUME StateStored, BalanceInv, UNCHANGED <<diskState, diskBlocks, diskFilters, diskAccounts, accounts, assetFilter, threw, torn>>,
           \/ step \in Quiet /\ step' \in Quiet
           \/ step = "packed" /\ step' = "accounts" /\ UNCHANGED <<blk, commits>>
           \/ step \in {"filter", "block"} /\ step' \in {"block", "state"} /\ UNCHANGED blk
           \/ UNCHANGED <<step, blk, commits, rollbacks>>
    PROVE  BalanceInv'
<1>1. UNCHANGED Durable
    BY DurableSame DEF StateStored
<1>2. UNCHANGED History /\ UNCHANGED StoredFilter
    BY <1>1 DEF History, StoredFilter, LoadedFilter
<1>3. StoredTyped'
    BY DEF BalanceInv, StoredTyped
<1>4. ASSUME ~threw, ~torn PROVE (MemoryBalanced /\ DiskBalanced /\ CommitBalanced /\ RollbackBalanced)'
    <2>1. MemoryBalanced /\ DiskBalanced /\ CommitBalanced /\ RollbackBalanced
        BY <1>4 DEF BalanceInv
    <2>2. MemoryBalanced'
        BY <1>2, <2>1 DEF MemoryBalanced, Quiet, Writing
    <2>3. DiskBalanced'
        BY <1>2, <2>1 DEF DiskBalanced, Quiet
    <2>4. CommitBalanced'
        BY <2>1 DEF CommitBalanced, Quiet
    <2>5. RollbackBalanced'
        BY <2>1 DEF RollbackBalanced, Quiet
    <2> QED BY <2>2, <2>3, <2>4, <2>5
<1> QED BY <1>3, <1>4 DEF BalanceInv

\* The commit of a block carries every balance the block changed.
LEMMA CommitCarriesBalances ==
    ASSUME NEW disk, NEW accts, NEW st, NEW c, SameBalances(disk, accts), Agrees(accts, st),
           DOMAIN c = st.touched, \A x \in st.touched : c[x] = st.accounts[x]
    PROVE  SameBalances(Overwrite(disk, c), st.accounts)
<1> DEFINE new == Overwrite(disk, c)
<1>1. /\ DOMAIN new = DOMAIN disk \cup st.touched
      /\ \A x \in DOMAIN new : new[x] = IF x \in st.touched THEN c[x] ELSE disk[x]
    BY DEF Overwrite
<1>2. /\ DOMAIN st.accounts = DOMAIN accts \cup st.touched
      /\ \A x \in DOMAIN accts \ st.touched : st.accounts[x] = accts[x]
    BY DEF Agrees
<1> HIDE DEF new
<1>3. ASSUME NEW x \in Addresses, NEW a \in Assets PROVE Bal(new, x, a) = Bal(st.accounts, x, a)
    <2>1. CASE x \in st.touched
        <3>1. x \in DOMAIN new /\ x \in DOMAIN st.accounts /\ new[x] = st.accounts[x]
            BY <1>1, <1>2, <2>1
        <3> QED BY <3>1 DEF Bal
    <2>2. CASE x \notin st.touched
        <3>1. Bal(new, x, a) = Bal(disk, x, a)
            BY <1>1, <2>2 DEF Bal
        <3>2. Bal(accts, x, a) = Bal(st.accounts, x, a)
            BY <1>2, <2>2 DEF Bal
        <3> QED BY <3>1, <3>2 DEF SameBalances
    <2> QED BY <2>1, <2>2
<1> QED BY <1>3 DEF SameBalances, new

\* insert_block adds the block to the history, queues what writes it and what undoes it.
LEMMA BalanceInsert ==
    ASSUME BalanceInv, WellFormedInputs, RootInv, DataInv, ChainInv, step = "root", InsertBlock(blk), step' = "packed",
           UNCHANGED <<blk, diskState, diskBlocks, diskFilters, diskAccounts, torn>>
    PROVE  BalanceInv'
<1> DEFINE st == Applied(blk)
<1>1. StateStored /\ StoredTyped
    BY DEF ChainInv, BalanceInv
<1>2. UNCHANGED Durable
    BY <1>1, DurableSame DEF StateStored
<1>3. UNCHANGED History /\ UNCHANGED StoredFilter
    BY <1>2 DEF History, StoredFilter, LoadedFilter
<1>4. StoredTyped'
    BY <1>1 DEF StoredTyped
<1>5. /\ st.ok /\ threw' = threw /\ rollbacks' = Append(rollbacks, st.ops)
    BY Zenon DEF InsertBlock
<1>6. /\ st \in ApplyStates /\ Agrees(accounts, st) /\ accounts' = st.accounts
      /\ DOMAIN commits'[1].accounts = st.touched
      /\ \A x \in st.touched : commits'[1].accounts[x] = st.accounts[x]
      /\ commits'[1].prevRoot = rootHash /\ assetFilter' = st.filter /\ assetFilter \subseteq assetFilter'
    BY InsertFacts
<1>7. ASSUME ~threw, ~torn PROVE (MemoryBalanced /\ DiskBalanced /\ CommitBalanced /\ RollbackBalanced)'
    <2>1. Balanced(accounts, assetFilter, History) /\ Balanced(diskAccounts, StoredFilter, History)
        BY <1>7 DEF BalanceInv, MemoryBalanced, DiskBalanced, Quiet
    <2>2. /\ accounts \in AccountMaps /\ diskAccounts \in AccountMaps /\ assetFilter \in SUBSET Assets
          /\ blk.transactions \in Seq(Transactions) /\ blk.affairs \in Seq(Affairs) /\ blk \in Blocks
        BY BlockItems DEF DataInv, AccountsTyped, FiltersTyped, BlockTyped
    <2>3. \A i \in 1 .. Len(blk.transactions) : WellFormed(blk.transactions[i])
        <3>1. blk.transactions \in Seq(Inputs)
            BY <2>2, BlockTransactions
        <3>2. \A i \in 1 .. Len(blk.transactions) : blk.transactions[i] \in Inputs
            BY <3>1, ElementOfSeq
        <3> QED BY <3>2 DEF WellFormedInputs
    <2>4. History \in Seq(Transactions)
        BY <1>1, DurableTyped
    <2> DEFINE u == execute_rollback(st.ops, st.accounts)
    <2>5. /\ Hist(st.accounts, History \o blk.transactions) /\ SupplyOK(st.accounts, st.filter)
          /\ u.ok /\ RootOf(u.accounts) = RootOf(accounts) => SameBalances(u.accounts, accounts)
        BY <1>5, <2>1, <2>2, <2>3, <2>4, AppliedMoves DEF Balanced
    <2>6. SameBalances(accounts, diskAccounts) /\ SameBalances(diskAccounts, accounts)
        <3>1. SameBalances(accounts, diskAccounts)
            BY <2>1, <2>2, <2>4, HistSame DEF Balanced
        <3> QED BY <3>1 DEF SameBalances
    <2>7. rootHash = RootOf(accounts)
        BY <1>7 DEF RootInv, Quiet
    <2> HIDE DEF st
    <2>8. MemoryBalanced'
        BY <1>3, <1>6, <2>5 DEF MemoryBalanced, Balanced, Quiet, Writing
    <2>9. DiskBalanced'
        BY <1>3, <2>1 DEF DiskBalanced
    <2>10. CommitBalanced'
        <3>1. SameBalances(Overwrite(diskAccounts, commits'[1].accounts), st.accounts)
            BY <1>6, <2>6, CommitCarriesBalances
        <3> QED BY <1>6, <3>1 DEF CommitBalanced
    <2>11. RollbackBalanced'
        <3>1. SupplyOK(diskAccounts, assetFilter')
            BY <1>6, <2>1, <2>6, SupplyOKSame DEF Balanced
        <3>2. ASSUME Len(rollbacks') = 1 PROVE rollbacks'[1] = st.ops
            <4>1. rollbacks \in Seq(RopLists) /\ st.ops \in RopLists
                BY <1>6, StateFields DEF DataInv, PendingTyped, RopLists
            <4>2. Len(rollbacks') = Len(rollbacks) + 1 /\ rollbacks'[Len(rollbacks) + 1] = st.ops
                BY <1>5, <4>1, AppendProperties
            <4> QED BY <3>2, <4>1, <4>2
        <3>3. ASSUME NEW w, w = u, w.ok, RootOf(w.accounts) = commits'[1].prevRoot
              PROVE  SameBalances(w.accounts, diskAccounts)
            <4>1. SameBalances(w.accounts, accounts)
                BY <1>6, <2>5, <2>7, <3>3
            <4> QED BY <2>6, <4>1 DEF SameBalances
        <3> HIDE DEF u
        <3>4. ASSUME Len(rollbacks') = 1 PROVE execute_rollback(rollbacks'[1], accounts') = u
            BY <1>6, <3>2, <3>4 DEF u
        <3>5. ASSUME Len(rollbacks') = 1
              PROVE  LET w == execute_rollback(rollbacks'[1], accounts')
                     IN  w.ok /\ RootOf(w.accounts) = commits'[1].prevRoot => SameBalances(w.accounts, diskAccounts')
            BY <3>3, <3>4, <3>5
        <3> QED BY <3>1, <3>5 DEF RollbackBalanced
    <2> QED BY <2>8, <2>9, <2>10, <2>11
<1> QED BY <1>4, <1>5, <1>7 DEF BalanceInv

\* A rollback that succeeds gives back the balances of the stored chain.
LEMMA BalanceRollback ==
    ASSUME BalanceInv, DataInv, DataInv', ChainInv, TotalRollback,
           UNCHANGED <<diskState, diskBlocks, diskFilters, diskAccounts, torn>>
    PROVE  BalanceInv'
<1> DEFINE u == execute_rollback(rollbacks[1], accounts)
<1>1. StateStored /\ StoredTyped
    BY DEF ChainInv, BalanceInv
<1>2. UNCHANGED Durable
    BY <1>1, DurableSame DEF StateStored
<1>3. UNCHANGED History /\ UNCHANGED StoredFilter
    BY <1>2 DEF History, StoredFilter, LoadedFilter
<1>4. StoredTyped'
    BY <1>1 DEF StoredTyped
<1>5. /\ step = "packed" /\ Len(rollbacks) = 1 /\ threw' = threw /\ accounts' = u.accounts
      /\ \/ u.ok /\ RootOf(u.accounts) = commits[1].prevRoot /\ step' = "idle" /\ assetFilter' = Last(filters)
         \/ step' = "failed"
    BY DEF TotalRollback, RolledBack
<1>6. ASSUME ~threw, ~torn PROVE (MemoryBalanced /\ DiskBalanced /\ CommitBalanced /\ RollbackBalanced)'
    <2>1. Balanced(diskAccounts, StoredFilter, History) /\ SupplyOK(diskAccounts, assetFilter)
        BY <1>5, <1>6 DEF BalanceInv, DiskBalanced, RollbackBalanced
    <2>2. DiskBalanced'
        BY <1>3, <2>1 DEF DiskBalanced
    <2>3. CommitBalanced' /\ RollbackBalanced'
        BY <1>5 DEF CommitBalanced, RollbackBalanced
    <2>4. MemoryBalanced'
        <3>1. CASE u.ok /\ RootOf(u.accounts) = commits[1].prevRoot /\ step' = "idle" /\ assetFilter' = Last(filters)
            <4>1. SameBalances(accounts', diskAccounts)
                BY <1>5, <1>6, <3>1 DEF BalanceInv, RollbackBalanced
            <4>2. SameBalances(diskAccounts, accounts')
                BY <4>1 DEF SameBalances
            <4>3. assetFilter' = assetFilter
                <5>1. filters = <<assetFilter>>
                    BY <1>5 DEF DataInv, FiltersTyped
                <5>2. ASSUME NEW f PROVE Last(<<f>>) = f
                    BY DEF Last
                <5> QED BY <3>1, <5>1, <5>2
            <4>4. accounts' \in AccountMaps /\ diskAccounts \in AccountMaps /\ History \in Seq(Transactions)
                BY <1>1, DurableTyped DEF DataInv, AccountsTyped
            <4>5. Hist(accounts', History)
                BY <2>1, <4>2, <4>4, HistSame DEF Balanced
            <4>6. SupplyOK(accounts', assetFilter)
                BY <2>1, <4>2, SupplyOKSame
            <4> QED BY <1>3, <3>1, <4>3, <4>5, <4>6 DEF MemoryBalanced, Balanced, Writing
        <3>2. CASE step' = "failed"
            BY <3>2 DEF MemoryBalanced, Quiet, Writing
        <3> QED BY <1>5, <3>1, <3>2
    <2> QED BY <2>2, <2>3, <2>4
<1> QED BY <1>4, <1>5, <1>6 DEF BalanceInv

\* Writing the state of the next block makes that block part of the history.
LEMMA HistoryGrows ==
    ASSUME ChainInv, ChainInv', DataInv, StoredTyped, SaveState
    PROVE  /\ StoredTyped' /\ History' = History \o blk.transactions
<1>1. /\ step = "state" /\ diskBlocks' = diskBlocks /\ diskState' = [height |-> blk.height, top |-> blk.id]
    BY DEF SaveState
<1>2. /\ StateStored /\ StateStored' /\ step' = "idle"
    BY DEF ChainInv, SaveState
<1>3. /\ diskState # NoState /\ diskState' # NoState /\ diskState.height \in Nat
      /\ blk.height = diskState.height + 1 /\ diskState'.height = diskState.height + 1
      /\ diskBlocks[blk.height] = blk /\ blk \in Blocks
    BY <1>1, <1>2 DEF ChainInv, StateStored, WritingAhead, BlockFirst, Writing, DataInv, BlockTyped
<1> DEFINE n == diskState.height
<1>4. StoredTyped'
    <2> SUFFICES ASSUME NEW i \in 1 .. n + 1 PROVE diskBlocks[i] \in Blocks
        BY <1>1, <1>3 DEF StoredTyped
    <2>1. i \in 1 .. n \/ i = blk.height
        BY <1>3
    <2> QED BY <1>3, <2>1 DEF StoredTyped
<1>5. Durable \in Seq(Blocks) /\ Len(Durable) = n /\ \A i \in 1 .. n : Durable[i] = diskBlocks[i]
    BY <1>2, <1>3, DurableSeq, DurableTyped
<1>6. Durable' = Append(Durable, blk)
    <2> DEFINE D == Durable'
               A == Append(Durable, blk)
    <2>1. \A i \in 1 .. n + 1 : i \in DOMAIN diskBlocks
        BY <1>1, <1>2, <1>3 DEF StateStored
    <2>2. D = [i \in 1 .. n + 1 |-> IF i \in DOMAIN diskBlocks THEN diskBlocks[i] ELSE NoBlock]
        BY <1>1, <1>3 DEF Durable, NoBlock, NoWork, EmptyBlock
    <2>3. D = [i \in 1 .. n + 1 |-> diskBlocks[i]]
        BY <2>1, <2>2
    <2>4. A \in Seq(Blocks) /\ Len(A) = n + 1 /\ A[n + 1] = blk /\ \A i \in 1 .. n : A[i] = Durable[i]
        BY <1>3, <1>5, AppendProperties
    <2> HIDE DEF A, D, n
    <2>5. A = [i \in 1 .. n + 1 |-> A[i]]
        BY <2>4, LenProperties
    <2>6. ASSUME NEW i \in 1 .. n + 1 PROVE A[i] = diskBlocks[i]
        <3>1. n \in Nat /\ blk.height = n + 1
            BY <1>3 DEF n
        <3>2. i \in 1 .. n \/ i = n + 1
            BY <3>1
        <3> QED BY <1>3, <1>5, <2>4, <3>1, <3>2
    <2>7. A = D
        BY <2>3, <2>5, <2>6
    <2> QED BY <2>7 DEF A, D
<1>7. TransactionsOf(Append(Durable, blk)) = TransactionsOf(Durable) \o blk.transactions
    BY <1>3, <1>5, TransactionsOfFacts
<1>8. History' = TransactionsOf(Durable')
    BY Zenon DEF History
<1> QED BY <1>4, <1>6, <1>7, <1>8 DEF History

\* Where the blocks of the stored chain stay, the history stays.
LEMMA HistorySame ==
    ASSUME StateStored, StoredTyped, UNCHANGED diskState,
           diskState # NoState => \A i \in 1 .. diskState.height :
               i \in DOMAIN diskBlocks' /\ diskBlocks'[i] = diskBlocks[i]
    PROVE  UNCHANGED History /\ StoredTyped'
<1>1. UNCHANGED Durable
    BY DurableSame
<1>2. UNCHANGED History
    BY <1>1 DEF History
<1>3. StoredTyped'
    BY DEF StoredTyped
<1> QED BY <1>2, <1>3

\* Every step keeps the balances equal to the history.
LEMMA BalanceStep ==
    BalanceInv /\ WellFormedInputs /\ FilterInv /\ RootInv /\ DataInv /\ DataInv' /\ ChainInv /\ ChainInv' /\ [Next]_vars
        => BalanceInv'
<1> SUFFICES ASSUME BalanceInv, WellFormedInputs, FilterInv, RootInv, DataInv, DataInv', ChainInv, ChainInv', [Next]_vars
             PROVE  BalanceInv'
    OBVIOUS
<1>0. StateStored /\ StoredTyped
    BY DEF ChainInv, BalanceInv
<1>1. CASE Submit \/ transaction_pool_waiting_count \/ PackageHeader \/ UpdateConnector
    <2>1. /\ UNCHANGED <<diskState, diskBlocks, diskFilters, diskAccounts, accounts, assetFilter, threw, torn>>
          /\ step \in Quiet /\ step' \in Quiet
        BY <1>1 DEF Submit, transaction_pool_waiting_count, PackageHeader, UpdateConnector, Quiet, ledgerVars,
                    storeVars, diskVars
    <2> QED BY <1>0, <2>1, BalanceFrame
<1>2. CASE PackagerNext /\ UNCHANGED <<storeVars, submits>>
    <2>1. /\ UNCHANGED <<diskState, diskBlocks, diskFilters, diskAccounts, accounts, assetFilter, threw, torn>>
          /\ step \in Quiet /\ step' \in Quiet
        BY <1>2, PackagerFrame, PackagerIsQuiet DEF ChainInv, ledgerVars, storeVars, diskVars
    <2> QED BY <1>0, <2>1, BalanceFrame
<1>3. CASE PackageRoot /\ UNCHANGED <<queueVars, packVars, storeVars, submits>>
    <2>1. step = "root" /\ UNCHANGED <<diskState, diskBlocks, diskFilters, diskAccounts, torn>>
        BY <1>3 DEF PackageRoot, storeVars, diskVars
    <2>2. CASE InsertBlock(blk) /\ step' = "packed" /\ UNCHANGED blk
        BY <2>1, <2>2, BalanceInsert
    <2>3. CASE InsertThrows(blk)
        <3>1. threw' = TRUE
            BY <2>3 DEF InsertThrows
        <3>2. StoredTyped'
            BY <1>0, <2>1 DEF StoredTyped
        <3> QED BY <3>1, <3>2 DEF BalanceInv
    <2>4. CASE step' = "idle" /\ UNCHANGED ledgerVars
        BY <1>0, <2>1, <2>4, BalanceFrame DEF ledgerVars, Quiet
    <2> QED BY <1>3, <2>2, <2>3, <2>4 DEF PackageRoot
<1>4. CASE TotalRollback /\ UNCHANGED <<queueVars, packVars, storeVars, submits>>
    <2>1. UNCHANGED <<diskState, diskBlocks, diskFilters, diskAccounts, torn>>
        BY <1>4 DEF storeVars, diskVars
    <2> QED BY <1>4, <2>1, BalanceRollback
<1>5. CASE GenesisState
    <2>1. /\ step = "genesis" /\ step' = "genesisBlock" /\ diskState' = [height |-> 0, top |-> Genesis]
          /\ UNCHANGED <<diskBlocks, diskFilters, diskAccounts, accounts, assetFilter, threw, torn>>
        BY <1>5 DEF GenesisState, ledgerVars
    <2>2. diskState = NoState /\ diskState' # NoState
        BY <1>0, <2>1, StoreAssumption DEF StateStored, Genesis
    <2>3. Durable = <<>> /\ Durable' = <<>>
        BY <2>1, <2>2 DEF Durable
    <2>4. UNCHANGED History
        BY <2>3 DEF History
    <2>5. StoredTyped'
        BY <2>1 DEF StoredTyped
    <2>6. ASSUME ~threw, ~torn PROVE (MemoryBalanced /\ DiskBalanced /\ CommitBalanced /\ RollbackBalanced)'
        <3>1. Balanced(accounts, assetFilter, History) /\ Balanced(diskAccounts, {}, History)
            BY <2>1, <2>2, <2>6 DEF BalanceInv, MemoryBalanced, DiskBalanced, StoredFilter
        <3>2. Balanced(diskAccounts, StoredFilter', History)
            <4>1. SameBalances(diskAccounts, diskAccounts)
                BY DEF SameBalances
            <4>2. SupplyOK(diskAccounts, StoredFilter')
                BY <3>1, <4>1, SupplyOKSame DEF Balanced
            <4> QED BY <3>1, <4>2 DEF Balanced
        <3>3. MemoryBalanced'
            BY <2>1, <2>4, <3>1 DEF MemoryBalanced, Quiet, Writing
        <3>4. DiskBalanced'
            BY <2>1, <2>4, <3>2 DEF DiskBalanced
        <3>5. CommitBalanced' /\ RollbackBalanced'
            BY <2>1 DEF CommitBalanced, RollbackBalanced
        <3> QED BY <3>3, <3>4, <3>5
    <2> QED BY <2>1, <2>5, <2>6 DEF BalanceInv
<1>6. CASE GenesisBlock
    <2>1. /\ step = "genesisBlock" /\ step' = "idle" /\ \E b : diskBlocks' = Put(diskBlocks, 0, b)
          /\ UNCHANGED <<diskState, diskFilters, diskAccounts, accounts, assetFilter, threw, torn>>
        BY <1>6 DEF GenesisBlock, ledgerVars
    <2>2. diskState # NoState => \A i \in 1 .. diskState.height : i \in DOMAIN diskBlocks' /\ diskBlocks'[i] = diskBlocks[i]
        BY <1>0, <2>1 DEF Put, StateStored
    <2>3. UNCHANGED History /\ StoredTyped' /\ UNCHANGED StoredFilter
        <3>1. UNCHANGED History /\ StoredTyped'
            BY <1>0, <2>1, <2>2, HistorySame
        <3> QED BY <2>1, <3>1 DEF StoredFilter, LoadedFilter
    <2>4. ASSUME ~threw, ~torn PROVE (MemoryBalanced /\ DiskBalanced /\ CommitBalanced /\ RollbackBalanced)'
        <3>1. Balanced(accounts, assetFilter, History) /\ Balanced(diskAccounts, StoredFilter, History)
            BY <2>1, <2>4 DEF BalanceInv, MemoryBalanced, DiskBalanced, Quiet
        <3> QED BY <2>1, <2>3, <3>1 DEF MemoryBalanced, DiskBalanced, CommitBalanced, RollbackBalanced, Writing
    <2> QED BY <2>1, <2>3, <2>4 DEF BalanceInv
<1>7. CASE CommitExtensions
    <2>1. /\ step = "packed" /\ step' = "accounts" /\ UNCHANGED <<blk, commits>>
          /\ UNCHANGED <<diskState, diskBlocks, diskFilters, diskAccounts, accounts, assetFilter, threw, torn>>
        BY <1>7 DEF CommitExtensions
    <2> QED BY <1>0, <2>1, BalanceFrame
<1>8. CASE CommitAccounts
    <2>1. /\ step = "accounts" /\ step' = "filter"
          /\ UNCHANGED <<blk, diskState, diskBlocks, diskFilters, accounts, assetFilter, threw, torn>>
        BY <1>8 DEF CommitAccounts
    <2>2. diskAccounts' = WrittenTo(diskAccounts, commits)
        BY <1>8, Zenon DEF CommitAccounts, WrittenTo
    <2>3. commits = <<commits[1]>> /\ commits[1].accounts \in AccountMaps /\ diskAccounts \in AccountMaps
        BY <2>1 DEF DataInv, PendingTyped, AccountsTyped
    <2>4. diskAccounts' = Overwrite(diskAccounts, commits[1].accounts)
        BY <2>2, <2>3, OneCommit
    <2>5. UNCHANGED History /\ StoredTyped'
        BY <1>0, <2>1, HistorySame DEF StateStored
    <2>6. ASSUME ~threw, ~torn PROVE (MemoryBalanced /\ DiskBalanced /\ CommitBalanced /\ RollbackBalanced)'
        <3>1. /\ Balanced(accounts, assetFilter, History \o blk.transactions)
              /\ SameBalances(Overwrite(diskAccounts, commits[1].accounts), accounts)
            BY <2>1, <2>6 DEF BalanceInv, MemoryBalanced, CommitBalanced, Writing
        <3>2. MemoryBalanced'
            BY <2>1, <2>5, <3>1 DEF MemoryBalanced, Quiet
        <3> QED BY <2>1, <2>4, <3>1, <3>2 DEF DiskBalanced, CommitBalanced, RollbackBalanced
    <2> QED BY <2>1, <2>5, <2>6 DEF BalanceInv
<1>9. CASE CommitFilter
    <2>1. /\ step = "filter" /\ step' = "block"
          /\ UNCHANGED <<blk, diskState, diskBlocks, diskAccounts, accounts, assetFilter, threw, torn>>
        BY <1>9 DEF CommitFilter
    <2>2. UNCHANGED History /\ StoredTyped'
        BY <1>0, <2>1, HistorySame DEF StateStored
    <2>3. ASSUME ~threw, ~torn PROVE (MemoryBalanced /\ DiskBalanced /\ CommitBalanced /\ RollbackBalanced)'
        <3>1. Balanced(accounts, assetFilter, History \o blk.transactions) /\ SameBalances(diskAccounts, accounts)
            BY <2>1, <2>3 DEF BalanceInv, MemoryBalanced, CommitBalanced, Writing
        <3>2. MemoryBalanced'
            BY <2>1, <2>2, <3>1 DEF MemoryBalanced, Quiet
        <3> QED BY <2>1, <3>1, <3>2 DEF DiskBalanced, CommitBalanced, RollbackBalanced
    <2> QED BY <2>1, <2>2, <2>3 DEF BalanceInv
<1>10. CASE SaveBlock
    <2>1. /\ step = "block" /\ step' = "state" /\ diskBlocks' = Put(diskBlocks, blk.height, blk)
          /\ UNCHANGED <<blk, diskState, diskFilters, diskAccounts, accounts, assetFilter, threw, torn>>
        BY <1>10 DEF SaveBlock, ledgerVars
    <2>2. diskState # NoState /\ diskState.height \in Nat /\ blk.height = diskState.height + 1
        BY <2>1 DEF ChainInv, StateStored, WritingAhead, Writing
    <2>3. \A i \in 1 .. diskState.height : i \in DOMAIN diskBlocks' /\ diskBlocks'[i] = diskBlocks[i]
        BY <1>0, <2>1, <2>2 DEF StateStored, Put
    <2>4. UNCHANGED History /\ StoredTyped'
        BY <1>0, <2>1, <2>3, HistorySame
    <2>5. ASSUME ~threw, ~torn PROVE (MemoryBalanced /\ DiskBalanced /\ CommitBalanced /\ RollbackBalanced)'
        <3>1. Balanced(accounts, assetFilter, History \o blk.transactions) /\ SameBalances(diskAccounts, accounts)
            BY <2>1, <2>5 DEF BalanceInv, MemoryBalanced, CommitBalanced, Writing
        <3>2. MemoryBalanced'
            BY <2>1, <2>4, <3>1 DEF MemoryBalanced, Quiet
        <3> QED BY <2>1, <3>1, <3>2 DEF DiskBalanced, CommitBalanced, RollbackBalanced
    <2> QED BY <2>1, <2>4, <2>5 DEF BalanceInv
<1>11. CASE SaveState
    <2>1. /\ step = "state" /\ step' = "idle" /\ diskState' = [height |-> blk.height, top |-> blk.id]
          /\ UNCHANGED <<diskBlocks, diskFilters, diskAccounts, accounts, assetFilter, threw, torn>>
        BY <1>11 DEF SaveState, ledgerVars
    <2>2. StoredTyped' /\ History' = History \o blk.transactions
        BY <1>0, <1>11, HistoryGrows
    <2>3. ASSUME ~threw, ~torn PROVE (MemoryBalanced /\ DiskBalanced /\ CommitBalanced /\ RollbackBalanced)'
        <3> DEFINE txs == History \o blk.transactions
        <3>1. Balanced(accounts, assetFilter, txs) /\ SameBalances(diskAccounts, accounts)
            BY <2>1, <2>3 DEF BalanceInv, MemoryBalanced, CommitBalanced, Writing
        <3>2. SameBalances(accounts, diskAccounts)
            BY <3>1 DEF SameBalances
        <3>3. txs \in Seq(Transactions)
            <4>1. History \in Seq(Transactions) /\ blk.transactions \in Seq(Transactions)
                BY <1>0, DurableTyped, BlockItems DEF DataInv
            <4> QED BY <4>1, ConcatProperties
        <3> HIDE DEF txs
        <3>4. Balanced(diskAccounts, assetFilter, txs)
            <4>1. accounts \in AccountMaps /\ diskAccounts \in AccountMaps
                BY DEF DataInv, AccountsTyped
            <4>2. Hist(diskAccounts, txs)
                BY <3>1, <3>2, <3>3, <4>1, HistSame DEF Balanced
            <4>3. SupplyOK(diskAccounts, assetFilter)
                BY <3>1, <3>2, SupplyOKSame DEF Balanced
            <4> QED BY <4>2, <4>3 DEF Balanced
        <3>5. StoredFilter' = assetFilter
            <4>1. <<top, height>> \in DOMAIN diskFilters /\ diskFilters[<<top, height>>] = assetFilter
                BY <2>1 DEF FilterInv
            <4>2. blk.height = height /\ blk.id = top
                BY <2>1 DEF ChainInv, WritingAhead, Writing
            <4>3. diskState' # NoState
                BY <2>1 DEF ChainInv, StateStored
            <4> QED BY <2>1, <4>1, <4>2, <4>3 DEF StoredFilter, LoadedFilter
        <3>6. MemoryBalanced'
            BY <2>1, <2>2, <3>1 DEF MemoryBalanced, Writing, txs
        <3>7. DiskBalanced'
            BY <2>1, <2>2, <3>4, <3>5 DEF DiskBalanced, txs
        <3> QED BY <2>1, <3>6, <3>7 DEF CommitBalanced, RollbackBalanced
    <2> QED BY <2>1, <2>2, <2>3 DEF BalanceInv
<1>12. CASE Restart /\ LosePool
    <2>1. /\ torn' = (torn \/ AccountsAhead) /\ accounts' = diskAccounts
          /\ UNCHANGED <<diskState, diskBlocks, diskFilters, diskAccounts, threw>>
          /\ step' \in {"genesis", "idle", "damaged"} /\ assetFilter' = StoredFilter
        BY <1>12 DEF Restart, diskVars, StoredFilter, LoadedFilter
    <2>2. UNCHANGED History /\ StoredTyped' /\ UNCHANGED StoredFilter
        <3>1. UNCHANGED History /\ StoredTyped'
            BY <1>0, <2>1, HistorySame DEF StateStored
        <3> QED BY <2>1, <3>1 DEF StoredFilter, LoadedFilter
    <2>3. ASSUME ~threw', ~torn' PROVE (MemoryBalanced /\ DiskBalanced /\ CommitBalanced /\ RollbackBalanced)'
        <3>1. Balanced(diskAccounts, StoredFilter, History)
            BY <2>1, <2>3 DEF BalanceInv, DiskBalanced, AccountsAhead
        <3>2. MemoryBalanced'
            BY <2>1, <2>2, <3>1 DEF MemoryBalanced, Writing
        <3>3. DiskBalanced'
            BY <2>1, <2>2, <3>1 DEF DiskBalanced
        <3> QED BY <2>1, <3>2, <3>3 DEF CommitBalanced, RollbackBalanced
    <2> QED BY <2>2, <2>3 DEF BalanceInv
<1>13. CASE UNCHANGED vars
    <2>1. /\ UNCHANGED <<diskState, diskBlocks, diskFilters, diskAccounts, accounts, assetFilter, threw, torn>>
          /\ UNCHANGED <<step, blk, commits, rollbacks>>
        BY <1>13 DEF vars, ledgerVars, pendingVars, storeVars, diskVars
    <2> QED BY <1>0, <2>1, BalanceFrame
<1> QED BY <1>1, <1>2, <1>3, <1>4, <1>5, <1>6, <1>7, <1>8, <1>9, <1>10, <1>11, <1>12, <1>13 DEF Next, StoreNext

\* What the invariant says of the chain the accounts in memory belong to.
LEMMA BalanceMeans ==
    ASSUME BalanceInv, DataInv, ChainInv, Sound
    PROVE  Hist(accounts, TransactionsOf(InMemory)) /\ SupplyOK(accounts, assetFilter)
<1>1. MemoryBalanced /\ step \in Steps /\ step \notin {"failed", "damaged"} /\ StateStored /\ StoredTyped
    BY DEF BalanceInv, Sound, ChainInv, StateStored
<1>2. CASE step \in Writing
    <2>1. /\ diskState # NoState /\ diskState.height \in Nat /\ height = diskState.height + 1
        BY <1>1, <1>2 DEF ChainInv, StateStored, WritingAhead, Writing
    <2>2. InMemory = Append(Durable, blk)
        BY <2>1 DEF InMemory
    <2>3. Durable \in Seq(Blocks) /\ blk \in Blocks
        BY <1>1, DurableTyped DEF DataInv, BlockTyped
    <2>4. TransactionsOf(InMemory) = History \o blk.transactions
        BY <2>2, <2>3, TransactionsOfFacts DEF History
    <2> QED BY <1>1, <1>2, <2>4 DEF MemoryBalanced, Balanced
<1>3. CASE step \in Quiet \cup {"genesis"}
    <2>1. diskState = NoState \/ (diskState.height \in Nat /\ height = diskState.height)
        BY <1>1, <1>3 DEF ChainInv, StateStored, QuietAgrees
    <2>2. InMemory = Durable
        BY <2>1 DEF InMemory
    <2> QED BY <1>1, <1>3, <2>2 DEF MemoryBalanced, Balanced, History
<1> QED BY <1>1, <1>2, <1>3 DEF Steps, Quiet, Writing

\* The balances are those of the chain, in memory and on disk, as long as the clients'
\* transfers pay out what they take.
THEOREM BalanceInvariant == WellFormedInputs /\ Spec => []BalanceInv
<1> SUFFICES ASSUME WellFormedInputs PROVE Spec => []BalanceInv
    OBVIOUS
<1>1. BalanceInv /\ FilterInv /\ RootInv /\ DataInv /\ DataInv' /\ ChainInv /\ ChainInv' /\ [Next]_vars => BalanceInv'
    BY BalanceStep
<1> QED BY <1>1, BalanceInit, FilterInvariant, RootInvariant, DataInvariant, ChainInvariant, PTL DEF Spec

\* The balances in memory are what the transactions of the chain add up to, after every
\* insertion, every total_rollback that finds the old root and every restart.
THEOREM BalancesAreTheHistory == WellFormedInputs /\ Spec => []BalancesAreHistory
<1>1. BalanceInv /\ DataInv /\ ChainInv => BalancesAreHistory
    <2> SUFFICES ASSUME BalanceInv, DataInv, ChainInv, Sound PROVE BalancesAreHistory
        BY DEF BalancesAreHistory
    <2> DEFINE txs == TransactionsOf(InMemory)
    <2>1. Hist(accounts, txs)
        BY BalanceMeans
    <2>2. \A x, a : BalanceOf(x, a) = Bal(accounts, x, a)
        BY DEF BalanceOf, Bal
    <2> HIDE DEF txs
    <2>3. \A x \in Addresses, a \in Assets :
              BalanceOf(x, a) + Sent(txs, x, a) = Established(txs, x, a) + Received(txs, x, a)
        BY <2>1, <2>2 DEF Hist
    <2> QED BY <2>3, Zenon DEF BalancesAreHistory, txs
<1> QED BY <1>1, BalanceInvariant, DataInvariant, ChainInvariant, PTL

\* An asset is established once: its supply stays nothing or AssetMax, across blocks,
\* rollbacks and restarts, as long as every submitted transfer pays out what it takes.
\* SupplyConserved states that restriction: without it check_block_body lets a transfer
\* of a sender without account pay out more, and the supply is exceeded.
THEOREM SupplyIsConserved == Spec => []SupplyConserved
<1>1. BalanceInv /\ DataInv /\ ChainInv => SupplyConserved
    <2> SUFFICES ASSUME BalanceInv, DataInv, ChainInv, Sound PROVE SupplyConserved
        BY DEF SupplyConserved
    <2>1. SupplyOK(accounts, assetFilter)
        BY BalanceMeans
    <2>2. \A a \in Assets : Supply(accounts, a) \in {0, AssetMax}
        BY <2>1 DEF SupplyOK
    <2>3. ASSUME NEW a \in Assets
          PROVE  Supply(accounts, a) = FoldFunctionOnSet(LAMBDA x, y : x + y, 0, [x \in Addresses |-> BalanceOf(x, a)], Addresses)
        BY Zenon DEF Supply, SumOver, BalanceOf, Bal
    <2> QED BY <2>2, <2>3, Zenon DEF SupplyConserved
<1>2. ~WellFormedInputs => (Spec => []SupplyConserved)
    <2> SUFFICES ASSUME ~WellFormedInputs PROVE Spec => []SupplyConserved
        OBVIOUS
    <2>1. SupplyConserved
        BY DEF SupplyConserved
    <2> QED BY <2>1, PTL
<1> QED BY <1>1, <1>2, BalanceInvariant, DataInvariant, ChainInvariant, PTL

\* What total_rollback leaves when it succeeds: the balances of the accounts on disk.
RollbackStep == TotalRollback /\ step' = "idle" /\ Sound => SameBalances(accounts', diskAccounts)

\* total_rollback compares no more than the root, and the root does not tell which asset
\* an amount is of.  Still, when it finds the old root, every balance is the stored one.
THEOREM RollbackIsExact == WellFormedInputs /\ Spec => [][RollbackStep]_vars
<1>1. BalanceInv => RollbackStep
    <2> SUFFICES ASSUME BalanceInv, TotalRollback, step' = "idle", Sound PROVE SameBalances(accounts', diskAccounts)
        BY DEF RollbackStep
    <2> DEFINE u == execute_rollback(rollbacks[1], accounts)
    <2>1. /\ step = "packed" /\ Len(rollbacks) = 1 /\ accounts' = u.accounts
          /\ u.ok /\ RootOf(u.accounts) = commits[1].prevRoot
        BY DEF TotalRollback
    <2>2. RollbackBalanced
        BY DEF BalanceInv, Sound
    <2> QED BY <2>1, <2>2 DEF RollbackBalanced
<1> QED BY <1>1, BalanceInvariant, PTL
=============================================================================
