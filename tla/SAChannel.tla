----------------------------- MODULE SAChannel -----------------------------
(***************************************************************************)
(* uart.c: one channel of the stop-and-wait protocol over a serial port.   *)
(* The receiver runs in the interrupt, byte by byte; the sender in a task. *)
(* Bytes are numbers and the check sum is the one of CHKMOD_SUM, the model *)
(* UART_SetCheckModel() has set before the traffic begins.                 *)
(***************************************************************************)
EXTENDS Integers, Sequences, SequencesExt, FiniteSetsExt, Functions

CONSTANTS
  MAX_SAPACKET_LEN,
  RxSize,       \* fifosize of the channel: 512
  TxSize,       \* UART_XMIT_SIZE: 512
  Tasks,        \* tasks that call UART_SendCMD() on the channel
  NoPacket

ASSUME SAAssumption ==
  /\ MAX_SAPACKET_LEN \in 5 .. 255
  /\ RxSize \in Nat /\ RxSize >= MAX_SAPACKET_LEN
  /\ TxSize \in Nat \ {0}

VARIABLES
  rx_toggle, tx_toggle, txACK,
  cmd,          \* the bytes 0 .. idx - 1 of the packet being received
  touched,      \* the places of cmd that were ever stored to: 0 .. touched - 1
  rxfifo,       \* bytes of complete commands, for UART_GetCMD()
  txfifo,       \* of the port: what uart_write() has put there, piece by piece
  buf           \* local of __UART_SendCMD(), of each task

rxEnd == <<rx_toggle, cmd, touched, rxfifo>>
chanVars == <<rxEnd, tx_toggle, txACK, txfifo, buf>>

Byte == 0 .. 255
Start == 170            \* 0xaa
AckByte == 85           \* 0x55
ACK == <<Start, AckByte>>
Not(toggle) == 1 - toggle

(* The sum of all bytes, the one of the sum itself taken as 0.             *)
SA_gen_chksum(p) == SumFunctionOnSet(p, DOMAIN p \ {3}) % 256

(* A command is its length, itself included, and its data.  The packet has *)
(* three bytes in front, and its length byte counts them.                  *)
Packet(toggle, data) ==
  LET p == <<Start, toggle, 0, data[1] + 3>> \o Tail(data)
  IN [p EXCEPT ![3] = SA_gen_chksum(p)]

SA_is_valid_packet(p) == p[3] = SA_gen_chksum(p)

SAInit ==
  /\ rx_toggle = 0 /\ tx_toggle = 1 /\ txACK = TRUE
  /\ cmd = <<>> /\ touched = 0 /\ rxfifo = <<>> /\ txfifo = <<>>
  /\ buf = [t \in Tasks |-> NoPacket]

-----------------------------------------------------------------------------
Unused(fifo, size) == size - Len(fifo)

(* fifo_in() takes what fits.                                              *)
fifo_in(fifo, bytes, size) ==
  fifo \o SubSeq(bytes, 1, Min({Len(bytes), Unused(fifo, size)}))

(* uart_write() fills the transmit queue and returns how much of the       *)
(* bytes it took.                                                          *)
Written(bytes) == SubSeq(bytes, 1, Min({Len(bytes), TxSize - Len(FlattenSeq(txfifo))}))

uart_write(bytes) ==
  txfifo' = IF Written(bytes) = <<>> THEN txfifo ELSE Append(txfifo, Written(bytes))

(* The receiver of one byte.                                               *)
Discard == UNCHANGED chanVars

(* A store at cmd[idx].                                                    *)
Touch == touched' = IF Len(cmd) < touched THEN touched ELSE Len(cmd) + 1

Store(ch) ==
  /\ cmd' = Append(cmd, ch) /\ Touch
  /\ UNCHANGED <<rx_toggle, rxfifo, tx_toggle, txACK, txfifo, buf>>

Restart ==
  /\ cmd' = <<>>
  /\ UNCHANGED <<rx_toggle, touched, rxfifo, tx_toggle, txfifo, buf>>

(* The byte after the last one completes a packet.  It is stored all the   *)
(* same, at cmd[idx], and not looked at; after a packet of the greatest    *)
(* length that is one place behind the array.                              *)
Complete ==
  /\ cmd' = <<>> /\ Touch
  /\ UNCHANGED <<tx_toggle, txACK, buf>>
  /\ IF SA_is_valid_packet(cmd)
       THEN /\ rx_toggle' = Not(rx_toggle)
            /\ rxfifo' = fifo_in(rxfifo, <<cmd[4] - 3>> \o SubSeq(cmd, 5, Len(cmd)), RxSize)
            /\ uart_write(ACK)
       ELSE UNCHANGED <<rx_toggle, rxfifo, txfifo>>

(* Mutant: room for just one packet is taken for too little.              *)
RoomForPacket_OneMore == Unused(rxfifo, RxSize) > MAX_SAPACKET_LEN

(* Mutant: one free byte is taken for enough.                              *)
RoomForPacket_AnyRoom == Unused(rxfifo, RxSize) > 0
RoomForPacket == Unused(rxfifo, RxSize) >= MAX_SAPACKET_LEN

LengthOK(ch) == ch \in 5 .. MAX_SAPACKET_LEN

SA_callback(ch) ==
  LET idx == Len(cmd)
  IN IF ~RoomForPacket \/ (idx = 0 /\ ch # Start) THEN Discard
     ELSE \/ idx = 1 /\ ch # Not(rx_toggle) /\ Restart /\ txACK' = (txACK \/ ch = AckByte)
          \/ idx = 3 /\ ~LengthOK(ch) /\ Restart /\ UNCHANGED txACK
          \/ idx > 3 /\ idx = cmd[4] /\ Complete
          \/ /\ idx = 1 => ch = Not(rx_toggle)
             /\ idx = 3 => LengthOK(ch)
             /\ idx > 3 => idx # cmd[4]
             /\ Store(ch)

-----------------------------------------------------------------------------
(* UART_GetCMD() looks at the length in front and takes that many bytes.   *)
HasCommand == rxfifo # <<>> /\ rxfifo[1] <= Len(rxfifo)
FirstCommand == SubSeq(rxfifo, 1, rxfifo[1])

UART_GetCMD ==
  /\ HasCommand
  /\ rxfifo' = SubSeq(rxfifo, rxfifo[1] + 1, Len(rxfifo))
  /\ UNCHANGED <<rx_toggle, cmd, touched, tx_toggle, txACK, txfifo, buf>>

(* UART_SendCMD() builds the packet with interrupts enabled, ...           *)
SendBuild(t, data) ==
  /\ buf[t] = NoPacket
  /\ buf' = [buf EXCEPT ![t] = Packet(tx_toggle, data)]
  /\ UNCHANGED <<rxEnd, tx_toggle, txACK, txfifo>>

(* ... and then looks whether the last packet was acknowledged.            *)
SendRefused(t) ==
  /\ buf[t] # NoPacket /\ ~txACK
  /\ buf' = [buf EXCEPT ![t] = NoPacket]
  /\ UNCHANGED <<rxEnd, tx_toggle, txACK, txfifo>>

(* Mutant: the next command need not wait for the ACK.                     *)
SendCommit_KeepsACK(t) ==
  /\ buf[t] # NoPacket /\ txACK
  /\ uart_write(buf[t])
  /\ IF Written(buf[t]) = buf[t]
       THEN tx_toggle' = Not(tx_toggle)
       ELSE UNCHANGED tx_toggle
  /\ buf' = [buf EXCEPT ![t] = NoPacket]
  /\ UNCHANGED <<rxEnd, txACK>>

SendCommit(t) ==
  /\ buf[t] # NoPacket /\ txACK
  /\ uart_write(buf[t])
  /\ IF Written(buf[t]) = buf[t]
       THEN txACK' = FALSE /\ tx_toggle' = Not(tx_toggle)
       ELSE UNCHANGED <<txACK, tx_toggle>>
  /\ buf' = [buf EXCEPT ![t] = NoPacket]
  /\ UNCHANGED rxEnd
=============================================================================
