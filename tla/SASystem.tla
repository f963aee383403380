------------------------------ MODULE SASystem ------------------------------
(***************************************************************************)
(* A channel of uart.c with tasks that send and poll, the two lines, and   *)
(* the firmware at the far end.  That firmware is not part of the          *)
(* repository: it is modelled as the protocol's diagram asks, with a pad   *)
(* byte after each packet and a retry when no ACK came.                    *)
(***************************************************************************)
EXTENDS SAChannel

CONSTANTS
  Commands,     \* what the far end may send: length, data
  Orders,       \* what the board may send
  Pad,          \* bytes the far end sends after each packet
  Retries,      \* does the far end repeat a packet
  MaxSent,      \* BOUND on the messages of the far end
  MaxAccepted,  \* BOUND on the commands of the board
  MaxLine,      \* BOUND on the bytes on the line to the board
  MaxLost,      \* BOUND on the bytes lost or garbled on it
  MaxDropped,   \* BOUND on the pieces lost on the line to the far end
  Garble        \* what a garbled byte may become

VARIABLES
  line,         \* bytes on their way to the board
  peerToggle, peerWaits,        \* the sender of the far end
  peerExpects,                  \* toggle of the next packet it takes
  sent, got, accepted, heard,   \* the messages so far, in both directions
  lost, dropped                 \* counts of faults

peer == <<peerToggle, peerWaits, peerExpects>>
history == <<sent, got, accepted, heard>>
faults == <<lost, dropped>>
vars == <<chanVars, line, peer, history, faults>>

ChannelInit ==
  /\ SAInit
  /\ line = <<>> /\ peerToggle = 1 /\ peerWaits = FALSE /\ peerExpects = 1
  /\ sent = <<>> /\ got = <<>> /\ accepted = <<>> /\ heard = <<>>
  /\ lost = 0 /\ dropped = 0

-----------------------------------------------------------------------------
(* The board.  The tasks are one another's only competition: the sections  *)
(* of the channel run with interrupts disabled.                            *)
BoardReceives ==
  /\ line # <<>>
  /\ SA_callback(Head(line))
  /\ line' = Tail(line)
  /\ UNCHANGED <<peer, history, faults>>

BoardPolls ==
  /\ UART_GetCMD
  /\ got' = Append(got, FirstCommand)
  /\ UNCHANGED <<line, peer, sent, accepted, heard, faults>>

BoardBuilds(t) ==
  /\ Len(accepted) < MaxAccepted
  /\ \E data \in Orders : SendBuild(t, data)
  /\ UNCHANGED <<line, peer, history, faults>>

BoardIsRefused(t) ==
  /\ SendRefused(t)
  /\ UNCHANGED <<line, peer, history, faults>>

(* The command a packet carries.                                           *)
Content(p) == <<p[4] - 3>> \o SubSeq(p, 5, Len(p))

BoardSends(t) ==
  /\ SendCommit(t)
  /\ accepted' = IF txACK' THEN accepted ELSE Append(accepted, Content(buf[t]))
  /\ UNCHANGED <<line, peer, sent, got, heard, faults>>

-----------------------------------------------------------------------------
(* The far end.                                                            *)
ToBoard(bytes) ==
  /\ Len(line) + Len(bytes) <= MaxLine
  /\ line' = line \o bytes

PeerSends ==
  /\ ~peerWaits /\ Len(sent) < MaxSent
  /\ \E data \in Commands :
       /\ ToBoard(Packet(peerToggle, data) \o Pad)
       /\ sent' = Append(sent, data)
  /\ peerWaits' = TRUE
  /\ UNCHANGED <<chanVars, peerToggle, peerExpects, got, accepted, heard, faults>>

PeerRetries ==
  /\ Retries /\ peerWaits
  /\ ToBoard(Packet(peerToggle, Last(sent)) \o Pad)
  /\ UNCHANGED <<chanVars, peer, history, faults>>

(* The pieces uart_write() did not cut are whole packets and ACKs.         *)
Piece == Head(txfifo)
Whole(p) == Len(p) > 4 /\ p[1] = Start /\ Len(p) = p[4] /\ SA_is_valid_packet(p)

PeerTakesACK ==
  /\ txfifo # <<>> /\ Piece = ACK
  /\ peerToggle' = IF peerWaits THEN Not(peerToggle) ELSE peerToggle
  /\ peerWaits' = FALSE
  /\ txfifo' = Tail(txfifo)
  /\ UNCHANGED <<rxEnd, tx_toggle, txACK, buf, line, peerExpects, history, faults>>

PeerTakesPacket ==
  /\ txfifo # <<>> /\ Whole(Piece) /\ Piece[2] = peerExpects
  /\ ToBoard(ACK)
  /\ peerExpects' = Not(peerExpects)
  /\ heard' = Append(heard, Content(Piece))
  /\ txfifo' = Tail(txfifo)
  /\ UNCHANGED <<rxEnd, tx_toggle, txACK, buf, peerToggle, peerWaits,
                 sent, got, accepted, faults>>

PeerIgnores ==
  /\ txfifo # <<>> /\ Piece # ACK
  /\ Whole(Piece) => Piece[2] # peerExpects
  /\ txfifo' = Tail(txfifo)
  /\ UNCHANGED <<rxEnd, tx_toggle, txACK, buf, line, peer, history, faults>>

-----------------------------------------------------------------------------
(* The lines.                                                              *)
LoseByte ==
  /\ lost < MaxLost /\ lost' = lost + 1
  /\ \E i \in DOMAIN line :
       \/ line' = RemoveAt(line, i)
       \/ \E b \in Garble : line' = [line EXCEPT ![i] = b]
  /\ UNCHANGED <<chanVars, peer, history, dropped>>

DropPiece ==
  /\ dropped < MaxDropped /\ dropped' = dropped + 1
  /\ \E i \in DOMAIN txfifo : txfifo' = RemoveAt(txfifo, i)
  /\ UNCHANGED <<rxEnd, tx_toggle, txACK, buf, line, peer, history, lost>>

BoardSide ==
  \/ BoardReceives \/ BoardPolls
  \/ \E t \in Tasks : BoardBuilds(t) \/ BoardIsRefused(t) \/ BoardSends(t)
PeerSide ==
  PeerSends \/ PeerRetries \/ PeerTakesACK \/ PeerTakesPacket \/ PeerIgnores

ChannelNext == BoardSide \/ PeerSide \/ LoseByte \/ DropPiece

(* The line delivers, the application polls, the far end answers.          *)
ChannelFairness ==
  /\ WF_vars(BoardReceives) /\ WF_vars(BoardPolls)
  /\ WF_vars(PeerTakesACK \/ PeerTakesPacket \/ PeerIgnores) /\ WF_vars(PeerRetries)

ChannelSpec == ChannelInit /\ [][ChannelNext]_vars /\ ChannelFairness
-----------------------------------------------------------------------------
(* Is q a row of whole commands?  The cuts are where one ends and the next *)
(* begins, with its length.                                                *)
CutAt(q, cuts) ==
  /\ {0, Len(q)} \subseteq cuts
  /\ \A c \in cuts : c < Len(q) => q[c + 1] \in 1 .. Len(q) - c /\ c + q[c + 1] \in cuts

Row(q) == \E cuts \in SUBSET (0 .. Len(q)) : CutAt(q, cuts)

(* UART_GetCMD() takes the first byte of the receive queue for a length;   *)
(* the receiver that checked for room before each byte of a packet has     *)
(* always put whole commands into it, and never more than it holds.  Its   *)
(* stores go into cmd, or one place behind it: that is where the byte goes *)
(* that completes a packet of the greatest length (uart.c:152).            *)
WholeCommands ==
  Row(rxfifo) /\ Len(rxfifo) <= RxSize /\ touched <= MAX_SAPACKET_LEN + 1

Link == INSTANCE SALinkAbs WITH busy <- ~txACK, Messages <- Commands \cup Orders

(* Every message of the far end reaches UART_GetCMD() once and in order,   *)
(* whatever is lost, garbled and repeated, and UART_SendCMD() accepts a    *)
(* command only when the far end has the one before.                       *)
ImplementsLink == Link!LinkSpec

(* When no ACK of the board is lost, a message the far end keeps sending   *)
(* is received although bytes of it are lost and garbled: the receiver     *)
(* never gets stuck between two packets.                                   *)
MessagesArrive == []<>(Len(got) = Len(sent) \/ dropped > 0)
=============================================================================
