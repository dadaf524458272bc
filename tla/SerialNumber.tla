----------------------------- MODULE SerialNumber ------------------------------
(***************************************************************************)
(* From the octets read at boot to the string descriptor: the hex encoder, *)
(* the scanner for a JSON key and the descriptor handler (serial/          *)
(* hex_encoder.py, json_key_parser.py, usb/serial_handler.py). A character *)
(* is its code, a hex digit its value.                                     *)
(***************************************************************************)
EXTENDS Integers, Sequences

CONSTANTS
  Key,            \* the quoted key
  MaxLen,         \* the handler's max_len
  PacketSize      \* its max_packet_size

(* The key is quoted, and no quote is inside. *)
ASSUME TextAssumption ==
  /\ Key \in Seq(Nat) /\ Len(Key) > 1 /\ \A j \in 2 .. Len(Key) - 1 : Key[j] # Key[1]
  /\ MaxLen \in Nat /\ PacketSize \in Nat \ {0}

QUOTE == 34
COLON == 58

VARIABLES
  nibble,                   \* HexNibbleEncoder: "HIGH" or "LOW"
  parser, match_pos,        \* JsonStringKeyParser
  serial,                   \* the handler's memory, `length` its length
  handler, pos, in_packet,  \* its descriptor side
  w_length,                 \* the request's wLength
  packet                    \* the packet being sent

text_vars == <<nibble, parser, match_pos, serial>>
desc_vars == <<handler, pos, in_packet, w_length, packet>>

SerialInit ==
  /\ nibble = "HIGH" /\ parser = "SEARCH" /\ match_pos = 0 /\ serial = <<>>
  /\ handler = "IDLE" /\ pos = 0 /\ in_packet = 0 /\ w_length = 0 /\ packet = <<>>

\* The handler takes every character, and keeps those that fit.
Captured(c) == IF Len(serial) < MaxLen THEN Append(serial, c) ELSE serial

-----------------------------------------------------------------------------
(* HexNibbleEncoder: a cycle with an octet waiting. *)

Encode(octet) ==
  /\ nibble' = IF nibble = "HIGH" THEN "LOW" ELSE "HIGH"
  /\ serial' = Captured(IF nibble = "HIGH" THEN octet \div 16 ELSE octet % 16)
  /\ UNCHANGED <<parser, match_pos>>

(* JsonStringKeyParser: a cycle with an octet waiting. *)

Restart(c) == IF c = Key[1] THEN 1 ELSE 0

Matches(c) == parser = "SEARCH" /\ c = Key[match_pos + 1]

Parse(c) ==
  /\ parser' = CASE Matches(c) /\ match_pos = Len(Key) - 1  -> "SEEK_COLON"
                 [] parser = "SEEK_COLON" /\ c = COLON      -> "SEEK_VALUE"
                 [] parser = "SEEK_VALUE" /\ c = QUOTE      -> "CAPTURE"
                 [] parser = "CAPTURE" /\ c = QUOTE         -> "DONE"
                 [] OTHER -> parser
  /\ match_pos' = CASE Matches(c)                          -> (match_pos + 1) % Len(Key)
                    [] parser = "SEARCH" /\ ~Matches(c)    -> Restart(c)
                    [] OTHER                               -> match_pos
  /\ serial' = IF parser = "CAPTURE" /\ c # QUOTE THEN Captured(c) ELSE serial
  /\ UNCHANGED nibble

ParserDone == parser = "DONE"

-----------------------------------------------------------------------------
(* The descriptor: its length, its type, and two octets a character. *)

DescriptorOf(chars) ==
  [k \in 1 .. 2 + 2 * Len(chars) |->
     CASE k = 1 -> 2 + 2 * Len(chars)
       [] k = 2 -> 3
       [] OTHER -> IF k % 2 = 1 THEN chars[(k - 1) \div 2] ELSE 0]

GetDescriptor(length) ==
  /\ handler = "IDLE"
  /\ w_length' = length /\ pos' = 0
  /\ handler' = "CLAIM"
  /\ UNCHANGED <<in_packet, packet>>

InToken ==
  /\ handler = "CLAIM"
  /\ in_packet' = 0 /\ packet' = <<>>
  /\ handler' = "STREAM"
  /\ UNCHANGED <<pos, w_length>>

transfer_last == pos = 2 + 2 * Len(serial) - 1 \/ pos = w_length - 1

\* Bug: every packet begins the descriptor again.
NextPosInPacket == in_packet + 1

NextPos == pos + 1

SendOctet ==
  /\ handler = "STREAM"
  /\ packet' = Append(packet, DescriptorOf(serial)[pos + 1])
  /\ pos' = IF transfer_last THEN pos ELSE NextPos
  /\ IF transfer_last \/ in_packet = PacketSize - 1
       THEN handler' = "CLAIM" /\ UNCHANGED in_packet
       ELSE in_packet' = in_packet + 1 /\ UNCHANGED handler
  /\ UNCHANGED w_length

StatusStage ==
  /\ handler = "CLAIM"
  /\ handler' = "IDLE"
  /\ UNCHANGED <<pos, in_packet, w_length, packet>>

=============================================================================
