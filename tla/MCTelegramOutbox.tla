-------------------------- MODULE MCTelegramOutbox --------------------------
(* TelegramOutbox on a small instance for TLC. *)
EXTENDS TelegramOutbox
=============================================================================
