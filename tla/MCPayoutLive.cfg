SPECIFICATION FairSpec
CONSTANTS
  m1 = m1
  m2 = m2
  Fee = fee
  Miners = {m1, m2}
  Heights = {}
  Unsubmitted = {}
  Opening = 5
  BlockReward = 20
  EepsChoices <- MCEepsChoices
  PoolFeeShare = 2
  WinnerShare = 2
  ShareDen = 10
  MinPayouts = {0}
  Intervals = {}
  MinerTxFee = 1
  PoolTxFee = 1
  MinimumPayout = 3
  SetFee = 100
  MaxMultiRecipients = 2
  Wallets = {w1, w2}
  Lagging = {}
  TxIds = {t1, t2, t3}
  MaxRows = 2
  MaxCrashes = 1
  Null = Null
PROPERTY RowsSettle
