------------------------------ MODULE Accounts ------------------------------
(***************************************************************************)
(* The data of the chain: accounts (include/db/account.cpp), receipts      *)
(* (include/db/receipt.cpp), transactions and affairs.                     *)
(*                                                                         *)
(* A transaction is a record of what the code branches on: the operator,   *)
(* the sender, the nonce, the asset, the count and the outputs.  An affair *)
(* has an owner, a nonce and its type.  Signatures, payloads and times are *)
(* left out; which items have expired is chosen when packaging starts.     *)
(***************************************************************************)
EXTENDS Integers, Sequences, FiniteSets, SequencesExt

CONSTANTS
    Addresses,        \* public key hashes
    Assets,           \* asset types
    AssetMax,         \* environment_db::ASSET_MAX_COUNT
    Wrap              \* 2^64: counts and nonces are uint64_t

\* Hashes and the names of assets are strings of bounded length.
ASSUME FiniteAssumption == IsFiniteSet(Addresses) /\ IsFiniteSet(Assets)

ASSUME AmountAssumption == AssetMax \in Nat /\ Wrap \in Nat /\ AssetMax < Wrap /\ 1 < Wrap

Uint64 == 0 .. Wrap - 1

Nothing == [x \in {} |-> 0]
Put(f, k, v) == [x \in DOMAIN f \cup {k} |-> IF x = k THEN v ELSE f[x]]
Without(f, k) == [x \in DOMAIN f \ {k} |-> f[x]]

Operators == {"NullOP", "Append", "Establish"}
Outs == Seq([receiver : Addresses, count : Uint64])
Transactions == [op : Operators, sender : Addresses, nonce : Uint64, asset : Assets,
                 count : Uint64, outs : Outs]
AffairTypes == {"GenesisData", "PureData", "MaliciousMessages", "MaliciousTransactions",
                "MaliciousAffair", "MaliciousBlock", "OwnerAddressHash", "ParticipatorAddressHash"}
Affairs == [owner : Addresses, nonce : Uint64, type : AffairTypes]

is_db_level_affair_type(air) == air.type \notin {"OwnerAddressHash", "PureData"}

-----------------------------------------------------------------------------
(* Accounts: a nonce and the balances of the assets the account holds.  An  *)
(* account map is a function from the addresses that have an account.       *)

NewAccount(nonce) == [nonce |-> nonce, balances |-> Nothing]

get_balance(act, a) == IF a \in DOMAIN act.balances THEN act.balances[a] ELSE 0

add_balance(act, a, n) ==
    [act EXCEPT !.balances = Put(@, a, (get_balance(act, a) + n) % Wrap)]

\* reduce_balance throws unless the asset is there, even to take nothing.
can_reduce(act, a, n) == a \in DOMAIN act.balances /\ act.balances[a] >= n

reduce_balance(act, a, n) ==
    [act EXCEPT !.balances = IF @[a] = n THEN Without(@, a) ELSE Put(@, a, @[a] - n)]

set_nonce(act, n) == [act EXCEPT !.nonce = n % Wrap]

set_balance(act, a, n) ==
    [act EXCEPT !.balances = IF n > 0 THEN Put(@, a, n) ELSE Without(@, a)]

delete_asset(act, a) == [act EXCEPT !.balances = Without(@, a)]

\* account::get_hash hashes the amounts and not their assets, and adds them up:
\* what it can tell apart is the nonce and how often each amount occurs.
get_hash(act) ==
    [nonce |-> act.nonce,
     amounts |-> [v \in {act.balances[a] : a \in DOMAIN act.balances} |->
                     Cardinality({a \in DOMAIN act.balances : act.balances[a] = v})]]

\* The root of the trie over an account map.
RootOf(accts) == [x \in DOMAIN accts |-> get_hash(accts[x])]

-----------------------------------------------------------------------------
(* Receipts: what a block makes one account do.  The list `nonce` is sorted *)
(* by every check, so it is kept sorted.                                    *)

NewReceipt(accts, x) ==
    [nonce_start |-> IF x \in DOMAIN accts THEN accts[x].nonce ELSE 0,
     nonce |-> <<>>, balances |-> Nothing]

ReceiptOf(receipts, accts, x) ==
    IF x \in DOMAIN receipts THEN receipts[x] ELSE NewReceipt(accts, x)

\* The sorted list s with n in its place.
Sorted(s, n) ==
    [i \in 1 .. Len(s) + 1 |-> IF i <= Len(s) /\ s[i] <= n THEN s[i]
                               ELSE IF i = 1 \/ s[i - 1] <= n THEN n ELSE s[i - 1]]

\* nonce.push_back, as the next check sorts it.
PushNonce(r, n) == [r EXCEPT !.nonce = Sorted(@, n)]

\* nonce.pop_back after a check: the largest nonce leaves the list.
PopNonce(r) == [r EXCEPT !.nonce = Front(@)]

\* std::remove and erase: every copy of n leaves the list.
RemoveNonce(r, n) == [r EXCEPT !.nonce = SelectSeq(@, LAMBDA m : m # n)]

Spend(r, a, have, n) ==
    LET b == r.balances
    IN  [r EXCEPT !.balances = Put(b, a, IF a \in DOMAIN b THEN [b[a] EXCEPT !.spend = (@ + n) % Wrap]
                                         ELSE [have |-> have, spend |-> n])]

Unspend(r, a, n) == [r EXCEPT !.balances[a].spend = (@ - n) % Wrap]

Gain(r, a) ==
    LET b == r.balances
    IN  [r EXCEPT !.balances = Put(b, a, IF a \in DOMAIN b THEN [b[a] EXCEPT !.have = (@ + AssetMax) % Wrap]
                                         ELSE [have |-> AssetMax, spend |-> 0])]

\* Mutant of check_nonce: only the first nonce is compared.
check_nonce_first(r) == r.nonce = <<>> \/ r.nonce[1] = (r.nonce_start + 1) % Wrap

\* The nonces follow the account's without a gap.  They are sorted, so only the first
\* sum can wrap: after 2^64 - 1 they have to start from 0.
check_nonce(r) == \A i \in 1 .. Len(r.nonce) : r.nonce[i] = ((r.nonce_start + 1) % Wrap) + (i - 1)

\* Mutant of check: the balances are not compared.
check_nonce_only(r) == check_nonce(r)

check(r) == check_nonce(r) /\ \A a \in DOMAIN r.balances :
                                  r.balances[a].have >= r.balances[a].spend
=============================================================================
