--------------------------- MODULE MCWalletDaemon ---------------------------
EXTENDS WalletDaemon
=============================================================================
