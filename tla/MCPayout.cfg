SPECIFICATION Spec
CONSTANTS
  m1 = m1
  m2 = m2
  Fee = fee
  Miners = {m1, m2}
  Heights = {1, 2}
  Unsubmitted = {2}
  Opening = 2
  BlockReward = 20
  EepsChoices <- MCEepsChoices
  PoolFeeShare = 2
  WinnerShare = 2
  ShareDen = 10
  MinPayouts = {1}
  Intervals = {"daily"}
  MinerTxFee = 1
  PoolTxFee = 1
  MinimumPayout = 3
  SetFee = 1
  MaxMultiRecipients = 2
  Wallets = {w1, w2}
  Lagging = {}
  TxIds = {t1, t2}
  MaxRows = 2
  MaxCrashes = 1
  Null = Null
INVARIANTS
  TypeOK
  MoneyConserved
  CreditBounded
  NoDoublePayout
PROPERTY PaymentsRefine
SYMMETRY TxSymmetry
