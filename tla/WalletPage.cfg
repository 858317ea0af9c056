CONSTANTS
  Texts = {"passphrase"}
  MaxWallets = 2
  MaxTimers = 2
  Null = Null
SPECIFICATION FairSpec
INVARIANTS RestoreModeShown ScreenMatchesWallet SamePhraseSameKeys
PROPERTIES WalletNotReplaced ToastHides
