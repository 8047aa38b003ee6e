---- MODULE MessageLedger ----
(***************************************************************************)
(* What the message store promises whoever sent a message, whatever the    *)
(* threads of the supervisor do and in whatever order: a row appears once, *)
(* in `queued`; it reaches `consumed` only from `delivered`; `consumed`    *)
(* and `undeliverable` are final, so a poison message cannot loop; a       *)
(* closed usage window sends it back at most MaxLimitRequeues times; the   *)
(* sender is notified at most once; an error is never taken back.          *)
(***************************************************************************)
EXTENDS MessageStore

VARIABLE row

LedgerInit == row = [m \in Msgs |-> NoRow]

\* Any number of rows may move in one statement, each of them legally.
LedgerNext == \A m \in Msgs : Legal(row[m], row'[m])

LedgerSpec == LedgerInit /\ [][LedgerNext]_row
====
