---- MODULE MCTransactions ----
EXTENDS Transactions
====
