CONSTANTS
  t1 = t1
  t2 = t2
  none = none
  NoTx = none
  NoToken = noToken
  Token <- MCToken
  TxId <- MCTxId
  Vout <- MCVout
  MaxSupply = 4
  MaxAmount = 5
  Lot = 2
  Anchor = 10
  R <- MCR
  Txs <- MCTxs
  MaxTxs = 5
SPECIFICATION MCSpec
INVARIANTS TypeOK Conservation Lockstep NoGhostBalance FullReserve UndoExact
