---- MODULE MCUpgradableConnection ----
EXTENDS UpgradableConnection
====
