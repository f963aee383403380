----------------------------- MODULE SALinkAbs -----------------------------
(***************************************************************************)
(* What a channel of the SA protocol promises its users: what the far end  *)
(* sends arrives once and in order, and the next command is accepted only  *)
(* when the far end has the last one.                                      *)
(***************************************************************************)
EXTENDS Integers, Sequences

CONSTANT Messages

VARIABLES
  sent,         \* what the far end has to send, so far
  got,          \* what UART_GetCMD() returned
  accepted,     \* the commands UART_SendCMD() took
  heard,        \* the commands the far end received
  busy          \* UART_SendCMD() refuses

linkVars == <<sent, got, accepted, heard, busy>>

LinkInit ==
  /\ sent = <<>> /\ got = <<>> /\ accepted = <<>> /\ heard = <<>>
  /\ busy = FALSE

Send ==
  /\ \E m \in Messages : sent' = Append(sent, m)
  /\ UNCHANGED <<got, accepted, heard, busy>>

Receive ==
  /\ Len(got) < Len(sent)
  /\ got' = Append(got, sent[Len(got) + 1])
  /\ UNCHANGED <<sent, accepted, heard, busy>>

Accept ==
  /\ ~busy /\ busy' = TRUE
  /\ \E m \in Messages : accepted' = Append(accepted, m)
  /\ UNCHANGED <<sent, got, heard>>

Hear ==
  /\ Len(heard) < Len(accepted)
  /\ heard' = Append(heard, accepted[Len(heard) + 1])
  /\ UNCHANGED <<sent, got, accepted, busy>>

Release ==
  /\ busy /\ heard = accepted
  /\ busy' = FALSE
  /\ UNCHANGED <<sent, got, accepted, heard>>

LinkNext == Send \/ Receive \/ Accept \/ Hear \/ Release

LinkSpec == LinkInit /\ [][LinkNext]_linkVars
=============================================================================
