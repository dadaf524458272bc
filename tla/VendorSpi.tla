------------------------------ MODULE VendorSpi -------------------------------
(***************************************************************************)
(* gateware/blocks/usb/vendor_spi.py: EXEC stages octets from the data     *)
(* stage and has the SPI sequencer shift them out and read `rlen` back;    *)
(* RESULT sends what was read. The control transfers are the host's.       *)
(***************************************************************************)
EXTENDS Integers, Sequences

CONSTANTS
  MPS,    \* packet size of the control endpoint
  RBUF    \* octets of read staging

ASSUME StagingAssumption == MPS \in Nat \ {0} /\ RBUF \in Nat \ {0}

VARIABLES
  spi, ep0,            \* FSM states
  wlen, rlen, rxidx,
  widx, ridx, rmem,
  pos, in_packet,
  packet, result       \* what RESULT has sent: the open packet, and all before it

vs_spi  == <<spi, widx, ridx, rmem>>
vs_ep0  == <<ep0, wlen, rlen, rxidx, pos, in_packet, packet, result>>
vs_vars == <<vs_spi, vs_ep0>>

VendorInit ==
  /\ spi = "IDLE" /\ widx = 0 /\ ridx = 0 /\ rmem = [k \in 0 .. RBUF - 1 |-> 0]
  /\ ep0 = "IDLE" /\ wlen = 0 /\ rlen = 0 /\ rxidx = 0
  /\ pos = 0 /\ in_packet = 0 /\ packet = <<>> /\ result = <<>>

-----------------------------------------------------------------------------
(* The SPI sequencer: one burst. Its start is the action of EP0 below. *)

vs_active == spi # "IDLE"

VsWritten == spi' = IF rlen # 0 THEN "SHIFT_R_REQ" ELSE "RELEASE"

\* Nothing to write: on without the bus.
VsShiftNone ==
  /\ spi = "SHIFT_W" /\ widx = wlen /\ VsWritten
  /\ UNCHANGED <<widx, ridx, rmem, vs_ep0>>

VsShiftW ==
  /\ spi = "SHIFT_W" /\ widx # wlen
  /\ widx' = widx + 1
  /\ IF widx' = wlen THEN VsWritten ELSE UNCHANGED spi
  /\ UNCHANGED <<ridx, rmem, vs_ep0>>

VsShiftReq ==
  /\ spi = "SHIFT_R_REQ"
  /\ spi' = "SHIFT_R_RESP"
  /\ UNCHANGED <<widx, ridx, rmem, vs_ep0>>

VsShiftResp(octet) ==
  /\ spi = "SHIFT_R_RESP"
  /\ rmem' = [rmem EXCEPT ![ridx % RBUF] = octet]
  /\ ridx' = ridx + 1
  /\ spi' = IF ridx = rlen - 1 THEN "RELEASE" ELSE "SHIFT_R_REQ"
  /\ UNCHANGED <<widx, vs_ep0>>

VsRelease ==
  /\ spi = "RELEASE"
  /\ spi' = "IDLE"
  /\ UNCHANGED <<widx, ridx, rmem, vs_ep0>>

-----------------------------------------------------------------------------
(* EP0. *)

Exec(value) ==
  /\ ep0 = "IDLE"
  /\ rlen' = value /\ rxidx' = 0
  /\ ep0' = "RX"
  /\ UNCHANGED <<vs_spi, wlen, pos, in_packet, packet, result>>

ReceiveOctet ==
  /\ ep0 = "RX"
  /\ rxidx' = rxidx + 1
  /\ UNCHANGED <<vs_spi, ep0, wlen, rlen, pos, in_packet, packet, result>>

\* The first status poll ends the data stage; it is answered NAK.
StatusStarts ==
  /\ ep0 = "RX"
  /\ wlen' = rxidx
  /\ spi' = "SHIFT_W" /\ widx' = 0 /\ ridx' = 0
  /\ ep0' = "EXEC_STATUS"
  /\ UNCHANGED <<rmem, rlen, rxidx, pos, in_packet, packet, result>>

BurstDone == spi = "IDLE"

\* Later polls are answered NAK until the burst is over.
StatusDone ==
  /\ ep0 = "EXEC_STATUS" /\ BurstDone
  /\ ep0' = "IDLE"
  /\ UNCHANGED <<vs_spi, wlen, rlen, rxidx, pos, in_packet, packet, result>>

Result ==
  /\ ep0 = "IDLE"
  /\ pos' = 0 /\ in_packet' = 0 /\ result' = <<>> /\ packet' = <<>>
  /\ ep0' = "RESULT_CLAIM"
  /\ UNCHANGED <<vs_spi, wlen, rlen, rxidx>>

DataRequested ==
  /\ ep0 = "RESULT_CLAIM"
  /\ in_packet' = 0
  /\ ep0' = "RESULT_STREAM"
  /\ UNCHANGED <<vs_spi, wlen, rlen, rxidx, pos, packet, result>>

\* Bug: pos is left on the last octet of a full packet.
NextPosStays == IF in_packet = MPS - 1 THEN pos ELSE pos + 1

NextPos == pos + 1

\* length is the wLength of the request.
StreamOctet(length) ==
  /\ ep0 = "RESULT_STREAM"
  /\ LET last == pos = rlen - 1 \/ pos = length - 1
         sent == Append(packet, rmem[pos % RBUF])
     IN /\ IF last \/ in_packet = MPS - 1
             THEN ep0' = "RESULT_CLAIM" /\ result' = result \o sent /\ packet' = <<>>
             ELSE UNCHANGED <<ep0, result>> /\ packet' = sent
        /\ pos' = IF last THEN pos ELSE NextPos
        /\ in_packet' = IF last \/ in_packet = MPS - 1 THEN in_packet ELSE in_packet + 1
  /\ UNCHANGED <<vs_spi, wlen, rlen, rxidx>>

ResultStatus ==
  /\ ep0 = "RESULT_CLAIM"
  /\ ep0' = "IDLE"
  /\ UNCHANGED <<vs_spi, wlen, rlen, rxidx, pos, in_packet, packet, result>>

=============================================================================
