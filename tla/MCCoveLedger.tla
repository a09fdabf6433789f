---------------------------- MODULE MCCoveLedger ----------------------------
(* A small instance of CoveLedger: two tokens, lots of two atoms, a public *)
(* supply of two lots, and five places in the chain, each with a choice of *)
(* honest, clumsy and malformed transactions that spend earlier outputs.   *)
EXTENDS CoveLedger

CONSTANTS t1, t2, none

MCToken == {t1, t2}
MCTxId == 1 .. 5
MCVout == {1, 2, 4}
MCR == [s \in 0 .. 4 |-> IF s <= 2 THEN 3 * s ELSE 6 + 5 * (s - 2)]

Funding == <<none, 0>>
NoVault == [token |-> NoToken, supply |-> 0, value |-> 0]
VaultOf(t, s) == [token |-> t, supply |-> s, value |-> Anchor + MCR[s]]
Empty == [v \in {} |-> 0]

Tx(id, kind, in0, ins, t, n, allocs, vault, pays) ==
  [id |-> id, kind |-> kind, in0 |-> in0, ins |-> ins, token |-> t,
   amount |-> n, to |-> 2, allocs |-> allocs, vault |-> vault,
   carriers |-> {2, 4}, pays |-> pays]

Deploy(id, t, pays) ==
  Tx(id, "DEPLOY", Funding, {}, t, 2, Empty, VaultOf(t, 0), pays)
(* A deploy whose vault output is one sat short of the anchor. *)
Underfunded(id, t) ==
  [Deploy(id, t, TRUE) EXCEPT !.vault.value = Anchor - 1]
(* A mint of n atoms that locks the vault of supply s, spending c too. *)
Mint(id, b, t, n, s, c) ==
  Tx(id, "MINT", <<b, 1>>, {<<b, 1>>} \cup c, t, n, Empty, VaultOf(t, s), TRUE)
Transfer(id, c, a) ==
  Tx(id, "TRANSFER", Funding, c, t1, 2, a, NoVault, TRUE)
Redeem(id, b, n, s, c, a) ==
  Tx(id, "REDEEM", <<b, 1>>, {<<b, 1>>} \cup c, t1, n, a, VaultOf(t1, s), TRUE)
Sweep(id, k, o) ==
  Tx(id, k, Funding, {o}, t1, 2, Empty, NoVault, TRUE)

Whole == [v \in {2} |-> 2]
Split == [v \in {2, 4} |-> 1]
Double == [v \in {2} |-> 4]
Change(n) == [v \in {4} |-> n]

Txs2 == {Deploy(2, t1, TRUE), Deploy(2, t2, TRUE), Deploy(2, t2, FALSE),
         Underfunded(2, t2),
         Mint(2, 1, t1, 2, 2, {}), Mint(2, 1, t1, 3, 3, {}),
         Mint(2, 1, t1, 2, 4, {})}

Txs3 ==
  {Mint(3, b, t, 2, s, {}) : b \in 1 .. 2, t \in MCToken, s \in {2, 4}}
  \cup {Mint(3, 2, t1, 2, 4, {<<2, 2>>})}
  \cup {Transfer(3, {<<2, 2>>}, a) : a \in {Whole, Split, Double}}
  \cup {Redeem(3, 2, 2, 0, {<<2, 2>>}, Empty),
        Redeem(3, 2, 1, 1, {<<2, 2>>}, Change(1))}
  \cup {Sweep(3, k, o) : k \in {"NON_COVE", "INVALID"},
                         o \in {<<2, 2>>, <<1, 1>>}}

Txs4 ==
  {Mint(4, b, t, 2, s, c) : b \in 2 .. 3, t \in MCToken, s \in {2, 4},
                            c \in {{}, {<<3, 2>>}}}
  \cup {Transfer(4, c, a) : c \in {{<<2, 2>>, <<3, 2>>}, {<<3, 2>>, <<3, 4>>}},
                            a \in {Whole, Split, Double}}
  \cup {Redeem(4, b, 2, s, {<<3, 2>>} \cup c, a) :
          b \in 2 .. 3, s \in {0, 2}, c \in {{}, {<<2, 2>>}, {<<3, 4>>}},
          a \in {Empty, Change(2)}}
  \cup {Sweep(4, "NON_COVE", o) : o \in {<<3, 2>>, <<3, 4>>}}

Txs5 ==
  {Mint(5, 4, t, 2, s, {}) : t \in MCToken, s \in {2, 4}}
  \cup {Transfer(5, c, a) : c \in {{<<3, 2>>, <<4, 2>>}, {<<4, 2>>}},
                            a \in {Split, Double}}
  \cup {Redeem(5, b, 2, s, c, a) :
          b \in 3 .. 4, s \in {0, 2}, c \in {{<<3, 2>>}, {<<4, 2>>}},
          a \in {Empty, Change(2)}}
  \cup {Sweep(5, "INVALID", <<4, 4>>)}

MCTxs == {Deploy(1, t1, TRUE)} \cup Txs2 \cup Txs3 \cup Txs4 \cup Txs5

(* Only the next id in line, so that each chain is explored once. *)
MCNext == (\E tx \in {x \in Txs : x.id = height + 1} : Connect(tx))
          \/ Disconnect
MCSpec == Init /\ [][MCNext]_vars
=============================================================================
