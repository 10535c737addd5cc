SPECIFICATION FairSpec
CONSTANTS
  g = g
  a1 = a1
  a2 = a2
  b1 = b1
  b2 = b2
  x2 = x2
  x3 = x3
  f = f
  t1 = t1
  t2 = t2
  t4 = t4
  d1 = d1
  NoBlock = NoBlock
  Base = g
  Blocks <- MCBlocks
  Parent <- MCParent
  BlockWork <- MCBlockWork
  BaseTxs = {f}
  Txs <- MCTxs
  Vin <- MCVin
  Vout <- MCVout
  Vtx <- MCVtx
  BaseCoins <- MCBaseCoins
  Hash <- MCHash
  COINBASE_MATURITY = 2
  InitialDownload = {FALSE}
  MaxOrphanTxs = 1
  LossInDownload = FALSE
  MaxStops = 0
PROPERTIES
  OrphanIsAccepted
CHECK_DEADLOCK FALSE
