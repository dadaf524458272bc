---------------------------- MODULE DfuUploadProofs ----------------------------
(***************************************************************************)
(* Theorems about DfuUpload on a single-bank board: whatever the depth of  *)
(* the FIFO, the packet and transfer sizes and the pace of the flash, the  *)
(* FIFO holds the next octets of the image and addr is where they belong;  *)
(* and the device that reboots has the image in its flash.                 *)
(***************************************************************************)
EXTENDS DfuUpload, SequenceTheorems, TLAPS

(* One alternate setting, and images that end before the flash does: addr
   is back at 0 once it has been written to its last octet. *)
SingleBank ==
  /\ Len(Areas) = 1
  /\ \A i \in Images : Areas[1] + Len(i) < AddrSpace

-----------------------------------------------------------------------------
(* DownloadPlaced says nothing of a packet on its way, nor why there is room
   for it. The invariant follows a control transfer through its stages: what
   the FSM can be at in each, that a transfer is begun only with room for the
   largest one, and that the packet that is not committed yet is the next one. *)

Downloading == dfu_state = "dfuDNLOAD_IDLE"
Sending     == stage \in {"data", "packet"}
PacketLen   == IF ahead < MaxPacket0 THEN ahead ELSE MaxPacket0

PlaceTypes ==
  /\ fifo \in Seq(Octet) /\ fill \in Seq(Octet) /\ image \in Seq(Octet)
  /\ acked \in Nat /\ ahead \in Nat /\ acked + ahead <= Len(image)
  /\ area_sel = 0 /\ addr \in Int /\ setup.value \in Nat
  /\ dfu_state \in {"dfuIDLE", "dfuDNLOAD_IDLE"}
  /\ stage \in {"none", "data", "packet", "status"}
  /\ image # <<>> => image \in Images

\* The stage of the control transfer against the state of the handler.
StagesMatch ==
  /\ stage = "none" =>
       dfu_fsm \notin Requests /\ (dfu_fsm = "DISPATCH" => setup.request \notin Requests)
  /\ stage # "none" => setup.request \in Requests /\ dfu_fsm \in {"DISPATCH", setup.request}
  /\ Sending => setup.request = "DFU_DNLOAD" /\ setup.length > 0 /\ ahead > 0
  /\ stage = "packet" => dfu_fsm = "DFU_DNLOAD"
  /\ ~Sending => ahead = 0

\* Where a download has begun, and that only its last block is empty.
BlocksInOrder ==
  /\ Sending /\ dfu_fsm = "DFU_DNLOAD" => Downloading
  /\ ~Sending /\ acked < Len(image) => Downloading
  /\ Sending /\ ~Downloading => acked = 0 /\ fifo = <<>>
  /\ stage = "status" /\ dfu_fsm = "DISPATCH" /\ setup.request = "DFU_DNLOAD" =>
       setup.length = 0 /\ acked = Len(image) /\ Downloading

\* What the status stage's NAK is for.
RoomLeft ==
  /\ Sending => Len(fifo) + ahead <= Depth
  /\ stage = "none" \/ setup.request # "DFU_DNLOAD" => Len(fifo) + TransferSize <= Depth

PacketNext ==
  /\ stage # "packet" => fill = <<>>
  /\ stage = "packet" =>
       Len(fill) = PacketLen /\ \A k \in 1 .. Len(fill) : fill[k] = image[acked + k]

FifoPlaced ==
  Downloading \/ fifo # <<>> =>
    /\ Len(fifo) <= acked
    /\ \A k \in 1 .. Len(fifo) : fifo[k] = image[acked - Len(fifo) + k]
    /\ addr = Base + acked - Len(fifo)

PlaceInv ==
  PlaceTypes /\ StagesMatch /\ BlocksInOrder /\ RoomLeft /\ PacketNext /\ FifoPlaced

-----------------------------------------------------------------------------
(* What the invariant says is what the property says. *)

LEMMA PlaceImplies == PlaceInv => DownloadPlaced
<1> SUFFICES ASSUME PlaceInv, Downloading \/ fifo # <<>>
             PROVE  /\ fifo = SubSeq(image, acked - Len(fifo) + 1, acked)
                    /\ addr = Base + acked - Len(fifo)
  BY DEF DownloadPlaced, Downloading
<1> DEFINE first == acked - Len(fifo) + 1
<1> DEFINE part == SubSeq(image, first, acked)
<1>1. /\ fifo \in Seq(Octet) /\ image \in Seq(Octet)
      /\ acked \in Nat /\ acked <= Len(image) /\ Len(fifo) <= acked
      /\ \A k \in 1 .. Len(fifo) : fifo[k] = image[acked - Len(fifo) + k]
      /\ addr = Base + acked - Len(fifo)
  BY SMT DEF PlaceInv, PlaceTypes, FifoPlaced
<1>2. Len(fifo) \in Nat /\ first \in Int BY <1>1
<1>3. Len(part) = Len(fifo)
  BY <1>1, <1>2
<1>4. \A k \in 1 .. Len(fifo) : part[k] = fifo[k]
  BY <1>1, <1>2
<1>5. part \in Seq(Octet) BY <1>1, <1>2
<1>6. part = fifo BY <1>1, <1>3, <1>4, <1>5
<1> QED BY <1>1, <1>6

-----------------------------------------------------------------------------
(* The steps. *)

LEMMA InitHolds == ASSUME Init PROVE PlaceInv
BY DfuAssumption, DownloadAssumption
   DEF Init, DfuInit, PlaceInv, PlaceTypes, StagesMatch, BlocksInOrder, RoomLeft, PacketNext,
       FifoPlaced, Downloading, Sending, Requests

LEMMA IdleStep == ASSUME PlaceInv, UNCHANGED <<dfu, host_vars>> PROVE PlaceInv'
BY DEF dfu, host_vars, PlaceInv, PlaceTypes, StagesMatch, BlocksInOrder, RoomLeft, PacketNext,
       PacketLen, FifoPlaced, Downloading, Sending, Base

LEMMA SmallRemainder == ASSUME NEW m \in Nat \ {0}, NEW r \in 0 .. m - 1 PROVE r % m = r
BY SMT

LEMMA DeliverStep ==
  ASSUME SingleBank, PlaceInv, Deliver, UNCHANGED host_vars
  PROVE  PlaceInv'
<1> USE DEF Deliver, host_vars
<1>1. PlaceTypes /\ FifoPlaced /\ fifo # <<>> BY DEF PlaceInv
<1>2. /\ fifo' \in Seq(Octet) /\ Len(fifo') = Len(fifo) - 1 /\ Len(fifo) \in Nat \ {0}
      /\ \A k \in 1 .. Len(fifo') : fifo'[k] = fifo[k + 1]
  BY <1>1 DEF PlaceTypes
<1>3. image \in Images /\ area_sel = 0 /\ Areas[1] \in 0 .. AddrSpace - 1 /\ AddrSpace \in Nat
  BY <1>1, DfuAssumption DEF PlaceTypes, FifoPlaced, SingleBank
<1>4. addr = Areas[1] + acked - Len(fifo) BY <1>1, <1>3 DEF FifoPlaced, Base
<1>5. addr + 1 \in 0 .. AddrSpace - 1 /\ AddrSpace # 0
  <2>1. acked \in Nat /\ ahead \in Nat /\ Len(image) \in Nat /\ acked + ahead <= Len(image)
    BY <1>1 DEF PlaceTypes
  <2>2. Areas[1] + Len(image) < AddrSpace BY <1>3 DEF SingleBank
  <2>3. Areas[1] \in Nat BY <1>3
  <2>4. Len(fifo) <= acked BY <1>1 DEF FifoPlaced
  <2>5. addr + 1 = Areas[1] + (acked - Len(fifo)) + 1 /\ acked - Len(fifo) \in Nat
    BY <1>2, <1>4, <2>1, <2>3, <2>4
  <2>6. addr + 1 \in Nat BY <2>3, <2>5
  <2>7. addr + 1 <= Areas[1] + Len(image) BY <1>2, <2>1, <2>3, <2>5
  <2> QED BY <1>3, <2>1, <2>2, <2>3, <2>6, <2>7
<1>6. addr' = addr + 1
  <2>1. (addr + 1) % AddrSpace = addr + 1 BY <1>3, <1>5, SmallRemainder
  <2> QED BY <2>1
<1>7. PlaceTypes' BY <1>1, <1>2, <1>6 DEF PlaceTypes
<1>8. FifoPlaced'
  <2>1. /\ Len(fifo') <= acked
        /\ \A k \in 1 .. Len(fifo') : fifo'[k] = image[acked - Len(fifo') + k]
    <3>1. \A k \in 1 .. Len(fifo') : k + 1 \in 1 .. Len(fifo)
      BY <1>2
    <3>2. \A k \in 1 .. Len(fifo') : fifo[k + 1] = image[acked - Len(fifo) + (k + 1)]
      BY <1>1, <3>1 DEF FifoPlaced
    <3>3. \A k \in 1 .. Len(fifo') : acked - Len(fifo) + (k + 1) = acked - Len(fifo') + k
      BY <1>1, <1>2 DEF PlaceTypes
    <3> QED BY <1>1, <1>2, <3>2, <3>3 DEF FifoPlaced, PlaceTypes
  <2>2. addr' = Base' + acked' - Len(fifo')
    <3>1. Base' = Areas[1] /\ Areas[1] \in Nat BY <1>3 DEF Base
    <3>2. acked' = acked /\ acked \in Nat BY <1>1 DEF PlaceTypes
    <3> QED BY <1>2, <1>4, <1>6, <3>1, <3>2
  <2> QED BY <2>1, <2>2 DEF FifoPlaced
<1>9. StagesMatch' BY DEF PlaceInv, StagesMatch, Sending
<1>10. BlocksInOrder' BY <1>1 DEF PlaceInv, BlocksInOrder, Sending, Downloading
<1>11. RoomLeft'
  BY <1>1, <1>2, DfuAssumption, DownloadAssumption
     DEF PlaceInv, PlaceTypes, RoomLeft, Sending
<1>12. PacketNext' BY DEF PlaceInv, PacketNext, PacketLen
<1> QED BY <1>7, <1>8, <1>9, <1>10, <1>11, <1>12 DEF PlaceInv

LEMMA StartStep ==
  ASSUME PlaceInv, StartDownload
  PROVE  PlaceInv'
<1> USE DEF StartDownload, ReceiveSetup
<1> DEFINE n == IF Len(image') < TransferSize THEN Len(image') ELSE TransferSize
<1>1. /\ setup' = Request("DFU_DNLOAD", n, 0) /\ dfu_fsm' = "DISPATCH" /\ ahead' = n
      /\ stage' = "data" /\ acked' = 0
      /\ UNCHANGED <<dfu_state, area_sel, addr, fifo, fill>>
  BY DEF Request
<1>2. image' \in Seq(Octet) /\ image' \in Images /\ Len(image') \in Nat \ {0}
  BY DownloadAssumption
<1>3. n \in 1 .. TransferSize /\ n <= Len(image') BY <1>2, DownloadAssumption
<1>4. fifo = <<>> /\ fill = <<>> /\ dfu_state = "dfuIDLE"
  BY DEF Finished, InDownload, PlaceInv, PlaceTypes, PacketNext
<1>5. setup'.request = "DFU_DNLOAD" /\ setup'.length = n /\ setup'.value = 0 BY <1>1 DEF Request
<1> HIDE DEF n
<1>6. PlaceTypes' BY <1>1, <1>2, <1>3, <1>5, DownloadAssumption DEF PlaceInv, PlaceTypes
<1>7. StagesMatch' BY <1>1, <1>3, <1>5 DEF StagesMatch, Sending, Requests
<1>8. BlocksInOrder' BY <1>1, <1>4 DEF BlocksInOrder, Sending, Downloading
<1>9. RoomLeft'
  BY <1>1, <1>3, <1>4, <1>5, DfuAssumption, DownloadAssumption DEF RoomLeft, Sending
<1>10. PacketNext' /\ FifoPlaced'
  BY <1>1, <1>4 DEF PacketNext, FifoPlaced, Downloading
<1> QED BY <1>6, <1>7, <1>8, <1>9, <1>10 DEF PlaceInv

LEMMA NextBlockStep ==
  ASSUME PlaceInv, NextBlock
  PROVE  PlaceInv'
<1> USE DEF NextBlock, ReceiveSetup
<1> DEFINE left == Len(image) - acked
           n == IF left < TransferSize THEN left ELSE TransferSize
<1>1. /\ setup' = Request("DFU_DNLOAD", n, 0) /\ dfu_fsm' = "DISPATCH" /\ ahead' = n
      /\ stage' = IF n = 0 THEN "status" ELSE "data"
      /\ stage = "none"
      /\ UNCHANGED <<dfu_state, area_sel, addr, fifo, fill, image, acked>>
  BY DEF Request
<1>2. /\ PlaceTypes /\ acked \in Nat /\ Len(image) \in Nat /\ left \in Nat
      /\ fill = <<>> /\ Len(fifo) \in Nat
  BY DEF PlaceInv, PlaceTypes, PacketNext
<1>3. n \in 0 .. TransferSize /\ n <= left /\ (n = 0 => left = 0)
  BY <1>2, DownloadAssumption
<1>4. Downloading
  BY <1>2 DEF InDownload, Downloading, PlaceInv, BlocksInOrder, Sending
<1>5. setup'.request = "DFU_DNLOAD" /\ setup'.length = n /\ setup'.value = 0 BY <1>1 DEF Request
<1> HIDE DEF n
<1>6. PlaceTypes' BY <1>1, <1>2, <1>3, <1>5, DownloadAssumption DEF PlaceTypes
<1>7. StagesMatch' BY <1>1, <1>3, <1>5 DEF StagesMatch, Sending, Requests
<1>8. BlocksInOrder'
  BY <1>1, <1>2, <1>3, <1>4, <1>5 DEF BlocksInOrder, Sending, Downloading
<1>9. RoomLeft'
  BY <1>1, <1>2, <1>3, <1>5, DfuAssumption, DownloadAssumption
     DEF PlaceInv, RoomLeft, Sending
<1>10. PacketNext' /\ FifoPlaced'
  BY <1>1, <1>2 DEF PlaceInv, PacketNext, FifoPlaced, Downloading, Base
<1> QED BY <1>6, <1>7, <1>8, <1>9, <1>10 DEF PlaceInv

LEMMA ChatterStep ==
  ASSUME PlaceInv, NEW s \in Others, Chatter(s)
  PROVE  PlaceInv'
<1> USE DEF Chatter, ReceiveSetup
<1>1. /\ s.request # "DFU_DNLOAD" /\ (s.ours \/ s.request \notin Requests)
      /\ s.value \in Nat
  BY DEF Others, Request, Requests
<1>2. /\ setup' = s /\ stage = "none"
      /\ stage' = IF s.ours /\ s.request \in Requests THEN "status" ELSE "none"
      /\ dfu_fsm' = IF s.ours THEN "DISPATCH" ELSE dfu_fsm
      /\ UNCHANGED <<dfu_state, area_sel, addr, fifo, fill, image, acked, ahead>>
  OBVIOUS
<1>3. PlaceTypes' BY <1>1, <1>2 DEF PlaceInv, PlaceTypes
<1>4. StagesMatch' BY <1>1, <1>2 DEF PlaceInv, StagesMatch, Sending, Requests
<1>5. BlocksInOrder' BY <1>1, <1>2 DEF PlaceInv, BlocksInOrder, Sending, Downloading
<1>6. RoomLeft' BY <1>1, <1>2 DEF PlaceInv, RoomLeft, Sending
<1>7. PacketNext' /\ FifoPlaced'
  BY <1>2 DEF PlaceInv, PacketNext, FifoPlaced, Downloading, Base
<1> QED BY <1>3, <1>4, <1>5, <1>6, <1>7 DEF PlaceInv

LEMMA SendStep ==
  ASSUME PlaceInv, SendPacket
  PROVE  PlaceInv'
<1> USE DEF SendPacket, ReceiveData
<1> DEFINE packet == SubSeq(image, acked + 1, acked + PacketLen)
<1>1. /\ stage = "data" /\ stage' = "packet" /\ dfu_fsm = "DFU_DNLOAD"
      /\ UNCHANGED <<dfu_fsm, setup, dfu_state, area_sel, addr, fifo, image, acked, ahead>>
      /\ fill' = fill \o SubSeq(packet, 1, IF Len(packet) < space_available
                                           THEN Len(packet) ELSE space_available)
  BY DEF PacketLen
<1>2. /\ PlaceTypes /\ fill = <<>> /\ Len(fifo) + ahead <= Depth /\ ahead \in Nat \ {0}
      /\ acked \in Nat /\ acked + ahead <= Len(image) /\ Len(fifo) \in Nat
      /\ image \in Seq(Octet)
  <2>1. PlaceTypes /\ fill = <<>> BY <1>1 DEF PlaceInv, PacketNext
  <2>2. ahead \in Nat \ {0} BY <1>1, <2>1 DEF PlaceInv, PlaceTypes, StagesMatch, Sending
  <2>3. Len(fifo) + ahead <= Depth BY <1>1 DEF PlaceInv, RoomLeft, Sending
  <2> QED BY <2>1, <2>2, <2>3 DEF PlaceTypes
<1>3. PacketLen \in 1 .. ahead BY <1>2, DownloadAssumption DEF PacketLen
<1> HIDE DEF packet
<1>4. /\ packet \in Seq(Octet) /\ Len(packet) = PacketLen
      /\ \A k \in 1 .. PacketLen : packet[k] = image[acked + k]
  <2>1. acked + 1 \in Nat /\ acked + PacketLen <= Len(image) /\ PacketLen \in Nat
    BY <1>2, <1>3
  <2>2. packet \in Seq(Octet) BY <1>2, <2>1 DEF packet
  <2>3. Len(packet) = PacketLen BY <1>2, <2>1 DEF packet
  <2>4. \A k \in 1 .. PacketLen : packet[k] = image[acked + k]
    BY <1>2, <2>1 DEF packet
  <2> QED BY <2>2, <2>3, <2>4
<1>5. space_available = Depth - Len(fifo) /\ Depth \in Nat
  BY <1>2, DfuAssumption DEF space_available
<1>6. (IF Len(packet) < space_available THEN Len(packet) ELSE space_available) = PacketLen
  <2>1. PacketLen \in Nat /\ PacketLen <= Depth - Len(fifo) BY <1>2, <1>3, <1>5
  <2>2. Len(packet) = PacketLen /\ space_available \in Int /\ PacketLen <= space_available
    BY <1>2, <1>4, <1>5, <2>1
  <2> QED BY <2>1, <2>2
<1>7. fill' = fill \o SubSeq(packet, 1, PacketLen) BY <1>1, <1>6
<1>8. /\ fill' \in Seq(Octet) /\ Len(fill') = PacketLen
      /\ \A k \in 1 .. PacketLen : fill'[k] = packet[k]
  <2> DEFINE head == SubSeq(packet, 1, PacketLen)
  <2>1. /\ head \in Seq(Octet) /\ Len(head) = PacketLen
        /\ \A k \in 1 .. PacketLen : head[k] = packet[k]
    BY <1>2, <1>3, <1>4
  <2> HIDE DEF head
  <2>2. fill' = head
    <3>1. fill' = <<>> \o head BY <1>2, <1>7 DEF head
    <3> QED BY <2>1, <3>1, ConcatEmptySeq
  <2> QED BY <2>1, <2>2
<1>9. PacketLen' = PacketLen BY <1>1 DEF PacketLen
<1>10. PlaceTypes' BY <1>1, <1>2, <1>8 DEF PlaceTypes
<1>11. StagesMatch' /\ BlocksInOrder' /\ RoomLeft' /\ FifoPlaced'
  BY <1>1 DEF PlaceInv, StagesMatch, BlocksInOrder, RoomLeft, FifoPlaced, Sending, Downloading,
              Base, Requests
<1>12. PacketNext' BY <1>1, <1>4, <1>8, <1>9 DEF PacketNext
<1> QED BY <1>10, <1>11, <1>12 DEF PlaceInv

LEMMA GoodStep ==
  ASSUME PlaceInv, PacketGood
  PROVE  PlaceInv'
<1> USE DEF PacketGood, CommitPacket
<1>1. /\ stage = "packet" /\ dfu_fsm = "DFU_DNLOAD"
      /\ fifo' = fifo \o fill /\ fill' = <<>>
      /\ acked' = acked + PacketLen /\ ahead' = ahead - PacketLen
      /\ stage' = IF ahead' = 0 THEN "status" ELSE "data"
      /\ UNCHANGED <<dfu_fsm, setup, dfu_state, area_sel, addr, image>>
  BY DEF PacketLen
<1>2. /\ PlaceTypes /\ Downloading /\ Len(fifo) + ahead <= Depth /\ ahead \in Nat \ {0}
      /\ setup.request = "DFU_DNLOAD" /\ setup.length > 0
  BY <1>1 DEF PlaceInv, PlaceTypes, StagesMatch, BlocksInOrder, RoomLeft, Sending
<1>3. PacketLen \in 1 .. ahead BY <1>2, DownloadAssumption DEF PacketLen
<1>4. /\ Len(fill) = PacketLen /\ \A k \in 1 .. PacketLen : fill[k] = image[acked + k]
      /\ Len(fifo) <= acked /\ addr = Base + acked - Len(fifo)
      /\ \A k \in 1 .. Len(fifo) : fifo[k] = image[acked - Len(fifo) + k]
  BY <1>1, <1>2 DEF PlaceInv, PacketNext, FifoPlaced
<1>5. /\ fifo' \in Seq(Octet) /\ Len(fifo') = Len(fifo) + PacketLen /\ Len(fifo) \in Nat
      /\ \A k \in 1 .. Len(fifo) : fifo'[k] = fifo[k]
      /\ \A k \in Len(fifo) + 1 .. Len(fifo') : fifo'[k] = fill[k - Len(fifo)]
  <2>1. fifo \in Seq(Octet) /\ fill \in Seq(Octet) /\ Len(fill) = PacketLen
    BY <1>2, <1>4 DEF PlaceTypes
  <2>2. Len(fifo) \in Nat /\ PacketLen \in Nat BY <2>1
  <2>3. fifo' \in Seq(Octet) /\ Len(fifo') = Len(fifo) + PacketLen
    BY <1>1, <2>1, ConcatProperties, Zenon
  <2>4. \A k \in 1 .. Len(fifo') :
          fifo'[k] = IF k <= Len(fifo) THEN fifo[k] ELSE fill[k - Len(fifo)]
    <3>1. \A k \in 1 .. Len(fifo) + Len(fill) :
            (fifo \o fill)[k] = IF k <= Len(fifo) THEN fifo[k] ELSE fill[k - Len(fifo)]
      BY <2>1, ConcatProperties, Zenon
    <3>2. 1 .. Len(fifo') = 1 .. Len(fifo) + Len(fill) BY <2>1, <2>3
    <3> QED BY <1>1, <3>1, <3>2, Zenon
  <2> QED BY <2>2, <2>3, <2>4
<1>6. acked \in Nat /\ acked' - Len(fifo') = acked - Len(fifo)
  <2>1. acked \in Nat /\ PacketLen \in Nat BY <1>2, <1>3 DEF PlaceTypes
  <2>2. acked' = acked + PacketLen /\ Len(fifo') = Len(fifo) + PacketLen /\ Len(fifo) \in Nat
    BY <1>1, <1>5
  <2> QED BY <2>1, <2>2
<1>7. \A k \in 1 .. Len(fifo') : fifo'[k] = image[acked - Len(fifo) + k]
  <2> SUFFICES ASSUME NEW k \in 1 .. Len(fifo')
               PROVE  fifo'[k] = image[acked - Len(fifo) + k]
    OBVIOUS
  <2>1. CASE k <= Len(fifo) BY <1>4, <1>5, <2>1
  <2>2. CASE k > Len(fifo)
    <3>1. k - Len(fifo) \in 1 .. PacketLen BY <1>3, <1>5, <2>2
    <3>2. fifo'[k] = image[acked + (k - Len(fifo))] BY <1>3, <1>4, <1>5, <2>2, <3>1
    <3>3. acked + (k - Len(fifo)) = acked - Len(fifo) + k BY <1>5, <1>6
    <3> QED BY <3>2, <3>3
  <2> QED BY <1>3, <1>5, <2>1, <2>2
<1>8. FifoPlaced'
  <2>1. Len(fifo') <= acked' BY <1>1, <1>3, <1>4, <1>5, <1>6
  <2>2. addr' = Base' + acked' - Len(fifo')
    <3>1. Base' = Base /\ addr' = addr BY <1>1 DEF Base
    <3>2. Base \in Int
      BY <1>2, DfuAssumption DEF PlaceTypes, Base
    <3> QED BY <1>1, <1>3, <1>4, <1>5, <1>6, <3>1, <3>2
  <2> QED BY <1>1, <1>6, <1>7, <2>1, <2>2 DEF FifoPlaced
<1>9. PlaceTypes'
  <2>1. PacketLen \in Nat /\ acked \in Nat /\ ahead - PacketLen \in Nat
    BY <1>2, <1>3, <1>6
  <2>2. /\ acked' \in Nat /\ ahead' \in Nat /\ acked' + ahead' = acked + ahead
        /\ stage' \in {"data", "status"} /\ fill' = <<>>
    BY <1>1, <1>2, <2>1
  <2> QED BY <1>1, <1>2, <1>5, <2>2 DEF PlaceTypes
<1>10. StagesMatch' BY <1>1, <1>2, <1>3 DEF StagesMatch, Sending, Requests
<1>11. BlocksInOrder' BY <1>1, <1>2 DEF BlocksInOrder, Sending, Downloading
<1>12. RoomLeft' BY <1>1, <1>2, <1>3, <1>5, DfuAssumption DEF RoomLeft, Sending
<1>13. PacketNext' BY <1>1 DEF PacketNext
<1> QED BY <1>8, <1>9, <1>10, <1>11, <1>12, <1>13 DEF PlaceInv

LEMMA BadStep == ASSUME PlaceInv, PacketBad PROVE PlaceInv'
<1> USE DEF PacketBad, DiscardPacket
<1>1. PlaceTypes' /\ PacketNext' BY DEF PlaceInv, PlaceTypes, PacketNext
<1>2. StagesMatch' /\ BlocksInOrder' /\ RoomLeft' /\ FifoPlaced'
  BY DEF PlaceInv, StagesMatch, BlocksInOrder, RoomLeft, FifoPlaced, Sending, Downloading, Base,
         Requests
<1> QED BY <1>1, <1>2 DEF PlaceInv

\* The status stage of a download lets through with room for another transfer.
LEMMA AckStep == ASSUME PlaceInv, Acknowledged PROVE PlaceInv'
<1> USE DEF Acknowledged, StatusStage
<1>1. /\ stage = "status" /\ stage' = "none" /\ dfu_fsm' = "IDLE" /\ StatusReady
      /\ dfu_fsm \in Requests
      /\ UNCHANGED <<setup, dfu_state, area_sel, addr, fifo, fill, image, acked, ahead>>
  BY Zenon
<1>2. PlaceTypes /\ fill = <<>> BY <1>1 DEF PlaceInv, PacketNext
<1>3. setup.request = dfu_fsm
  BY <1>1 DEF PlaceInv, StagesMatch, Requests
<1>4. Len(fifo) + TransferSize <= Depth
  <2>1. CASE dfu_fsm = "DFU_DNLOAD"
    <3>1. fifo = <<>> \/ Depth - Len(fifo) - 0 >= StatusSpace
      BY <1>1, <1>2, <2>1 DEF StatusReady, space_available
    <3> QED BY <1>2, <3>1, DfuAssumption, DownloadAssumption DEF PlaceTypes
  <2>2. CASE dfu_fsm # "DFU_DNLOAD"
    BY <1>3, <2>2 DEF PlaceInv, RoomLeft
  <2> QED BY <2>1, <2>2
<1>5. PlaceTypes' BY <1>1, <1>2 DEF PlaceTypes
<1>6. StagesMatch' BY <1>1 DEF PlaceInv, StagesMatch, Sending, Requests
<1>7. BlocksInOrder' BY <1>1 DEF PlaceInv, BlocksInOrder, Sending, Downloading
<1>8. RoomLeft' BY <1>1, <1>4 DEF RoomLeft, Sending
<1>9. PacketNext' /\ FifoPlaced'
  BY <1>1, <1>2 DEF PlaceInv, PacketNext, FifoPlaced, Downloading, Base
<1> QED BY <1>5, <1>6, <1>7, <1>8, <1>9 DEF PlaceInv

\* With one alternate setting, SET_INTERFACE leaves area_sel where it is.
LEMMA OneSetting == ASSUME SingleBank, NEW v \in Nat PROVE v % Len(Areas) = 0
<1>1. v % 1 = 0 OBVIOUS
<1> QED BY <1>1 DEF SingleBank

LEMMA DispatchStep ==
  ASSUME SingleBank, PlaceInv, Dispatch, UNCHANGED host_vars
  PROVE  PlaceInv'
<1> USE DEF Dispatch, Decodes, host_vars
<1>1. /\ dfu_fsm = "DISPATCH" /\ setup.request \in Requests /\ setup.request # "DFU_DNLOAD"
      /\ dfu_fsm' = setup.request
      /\ UNCHANGED <<setup, dfu_state, addr, fifo, fill, stage, image, acked, ahead>>
  OBVIOUS
<1>2. stage = "status" BY <1>1 DEF PlaceInv, PlaceTypes, StagesMatch, Sending
<1>3. StagesMatch' BY <1>1, <1>2 DEF PlaceInv, StagesMatch, Sending, Requests
<1>4. BlocksInOrder' BY <1>1, <1>2 DEF PlaceInv, BlocksInOrder, Sending, Downloading
<1>5. RoomLeft' /\ PacketNext'
  BY <1>1, <1>2 DEF PlaceInv, RoomLeft, PacketNext, Sending
<1>6. PlaceTypes /\ area_sel' = 0 BY OneSetting DEF PlaceInv, PlaceTypes
<1>7. PlaceTypes' BY <1>1, <1>6 DEF PlaceTypes
<1>8. FifoPlaced'
  <2>1. Base' = Base BY <1>6 DEF PlaceTypes, Base
  <2> QED BY <1>1, <2>1 DEF PlaceInv, FifoPlaced, Downloading
<1> QED BY <1>3, <1>4, <1>5, <1>7, <1>8 DEF PlaceInv

LEMMA DispatchDnloadStep ==
  ASSUME PlaceInv, DispatchDnload, UNCHANGED host_vars
  PROVE  PlaceInv'
<1> USE DEF DispatchDnload, Decodes, host_vars
<1>1. /\ dfu_fsm = "DISPATCH" /\ setup.request = "DFU_DNLOAD" /\ dfu_fsm' = "DFU_DNLOAD"
      /\ dfu_state' = IF setup.length > 0 THEN "dfuDNLOAD_IDLE" ELSE "dfuIDLE"
      /\ addr' = NextAddr
      /\ UNCHANGED <<setup, area_sel, fifo, fill, stage, image, acked, ahead>>
  OBVIOUS
<1>2. PlaceTypes /\ stage \in {"data", "status"}
  BY <1>1 DEF PlaceInv, PlaceTypes, StagesMatch, Requests
<1>3. Base \in Int BY <1>2, DfuAssumption DEF PlaceTypes, Base
<1>4. NextAddr \in Int /\ (Downloading => NextAddr = addr) /\ (~Downloading => NextAddr = Base)
  BY <1>2, <1>3 DEF PlaceTypes, NextAddr, Downloading, Base
<1>5. PlaceTypes' BY <1>1, <1>2, <1>4 DEF PlaceTypes
<1>6. StagesMatch' BY <1>1, <1>2 DEF PlaceInv, StagesMatch, Sending, Requests
<1>7. BlocksInOrder' BY <1>1, <1>2 DEF PlaceInv, StagesMatch, BlocksInOrder, Sending, Downloading
<1>8. RoomLeft' /\ PacketNext'
  BY <1>1, <1>2 DEF PlaceInv, RoomLeft, PacketNext, PacketLen, Sending
<1>9. FifoPlaced'
  <2>1. Base' = Base BY <1>1 DEF Base
  <2>2. CASE Downloading
    BY <1>1, <1>4, <2>1, <2>2 DEF PlaceInv, FifoPlaced, Downloading
  <2>3. CASE ~Downloading
    <3>1. acked = 0 /\ fifo = <<>>
      BY <1>1, <1>2, <2>3 DEF PlaceInv, BlocksInOrder, Sending
    <3>2. addr' = Base' + acked' - Len(fifo')
      BY <1>1, <1>3, <1>4, <2>1, <2>3, <3>1
    <3> QED BY <1>1, <3>1, <3>2 DEF FifoPlaced
  <2> QED BY <2>2, <2>3
<1> QED BY <1>5, <1>6, <1>7, <1>8, <1>9 DEF PlaceInv

-----------------------------------------------------------------------------
(* What a download writes goes where it belongs. *)

LEMMA PlaceStep == ASSUME SingleBank, PlaceInv, [Next]_vars PROVE PlaceInv'
<1>1. CASE StartDownload BY <1>1, StartStep
<1>2. CASE NextBlock BY <1>2, NextBlockStep
<1>3. CASE SendPacket BY <1>3, SendStep
<1>4. CASE PacketGood BY <1>4, GoodStep
<1>5. CASE PacketBad BY <1>5, BadStep
<1>6. CASE Acknowledged BY <1>6, AckStep
<1>7. ASSUME NEW s \in Others, Chatter(s) PROVE PlaceInv' BY <1>7, ChatterStep
<1>8. CASE HandlerStep BY <1>8, DispatchStep, DispatchDnloadStep DEF HandlerStep
<1>9. CASE FlashStep BY <1>9, DeliverStep, IdleStep DEF FlashStep, Store
<1>10. CASE DeviceStep BY <1>10, IdleStep DEF DeviceStep
<1>11. CASE Boot BY <1>11, IdleStep DEF Boot
<1>12. CASE UNCHANGED vars BY <1>12, IdleStep DEF vars
<1> QED
  BY <1>1, <1>2, <1>3, <1>4, <1>5, <1>6, <1>7, <1>8, <1>9, <1>10, <1>11, <1>12
     DEF Next, HostStep

\* Every octet of a download leaves the FIFO once, in order and for its own place, for every
\* depth, packet size and transfer size, whatever is damaged and however the flash keeps up.
THEOREM OctetsPlaced == ASSUME SingleBank PROVE Spec => []DownloadPlaced
<1>1. Init => PlaceInv BY InitHolds
<1>2. PlaceInv /\ [Next]_vars => PlaceInv' BY PlaceStep
<1>3. PlaceInv => DownloadPlaced BY PlaceImplies
<1> QED BY <1>1, <1>2, <1>3, PTL DEF Spec

-----------------------------------------------------------------------------
(* What is in the flash. The FIFO, its address counter and the flush latch make
   up a writer that keeps FlashUpload's contract, so what FlashStoreProofs says
   of the array holds of the download. The writer's view of it: how many octets
   have been on the port, where they belong, and a flush that a fresh download
   has withdrawn as soon as the host begins with it. *)

NoOctet   == CHOOSE n : n \notin Byte
Octets(a) == Octet

Shown == IF fifo = <<>> THEN acked ELSE acked - Len(fifo) + 1

Number(a) == (a.blk * Pages + a.pg) * PageSize + a.off
PlaceOf(n) == FlashAddr(Base + n - 1)

UpW ==
  [valid |-> fifo # <<>>,
   addr  |-> IF Shown = 0 THEN FlashAddr(0) ELSE PlaceOf(Shown),
   data  |-> IF Shown = 0 THEN Flash!Erased ELSE image[Shown]]

UpFlush == flushing /\ ~(Sending /\ ~Downloading)

UpSent  == {a \in Flash!Addr : Number(a) \in Base .. Base + Shown - 1}
UpImage == [a \in Flash!Addr |-> IF a \in UpSent THEN image[Number(a) - Base + 1]
                                 ELSE Flash!Erased]

Upload == INSTANCE FlashStoreProofs
            WITH w <- UpW, flush <- UpFlush, image <- UpImage, sent <- UpSent,
                 Payload <- Octets, session <- downloads, MaxBytes <- 0,
                 MaxSessions <- MaxDownloads, None <- NoOctet

\* The FSM has the place of the last octet it took.
LastLatched == fifo = <<>> /\ Shown > 0 => addr_latch = PlaceOf(Shown)

\* The flush is asked for by the end of a download and by nothing else.
FlushMeant ==
  /\ flushing \in BOOLEAN /\ pending \in BOOLEAN
  /\ Downloading => ~flushing /\ image # <<>>
  /\ ~Downloading /\ ~Sending /\ image # <<>> => flushing
  /\ flushing \/ pending => image # <<>> /\ ended
  /\ stage = "status" /\ dfu_fsm = "DISPATCH" /\ setup.request = "DFU_DNLOAD" => ended

StoredInv ==
  Upload!ProtocolInv /\ Upload!StoreInv /\ LastLatched /\ FlushMeant /\ FlashedAtBoot

-----------------------------------------------------------------------------
(* The instance of FlashStoreProofs, and the numbers of its addresses. *)

\* What FlashStoreProofs assumes holds of this writer.
LEMMA Given ==
  /\ NoOctet \notin Byte /\ \A a \in Upload!Addr : Octets(a) \subseteq Byte
  /\ Blocks \in Nat \ {0} /\ Pages \in Nat \ {0} /\ PageSize \in Nat \ {0}
  /\ Byte \subseteq Nat
  /\ {Upload!Erased, Upload!WRITE_ENABLE, Upload!READ_STATUS, Upload!PAGE_PROGRAM,
      Upload!BLOCK_ERASE} \subseteq Byte
  /\ 0 .. Blocks - 1 \subseteq Byte /\ 0 .. Pages - 1 \subseteq Byte /\ 0 .. PageSize - 1 \subseteq Byte
  /\ \A x, y \in Byte : /\ BitAnd(x, y) \in Byte
                        /\ BitAnd(Upload!Erased, x) = x /\ BitAnd(x, Upload!Erased) = x
  /\ Contents \subseteq [Upload!Addr -> Byte]
  /\ MaxDownloads \in Nat /\ MaxResets \in Nat /\ 0 \in Nat
<1>1. NoOctet \notin Byte
  <2>1. \E n : n \notin Byte BY NoSetContainsEverything
  <2> QED BY <2>1 DEF NoOctet
<1>2. \A a \in Upload!Addr : Octets(a) \subseteq Byte BY FlashAssumption DEF Octets
<1>3. Contents \subseteq [Upload!Addr -> Byte]
  BY FlashAssumption DEF Flash!Addr, Upload!Addr
<1>4. Blocks \in Nat \ {0} /\ Pages \in Nat \ {0} /\ PageSize \in Nat \ {0}
  BY FlashAssumption DEF Flash!GeometryAssumption
<1> USE DEF Flash!Erased, Flash!WRITE_ENABLE, Flash!READ_STATUS, Flash!PAGE_PROGRAM,
            Flash!BLOCK_ERASE, Upload!Erased, Upload!WRITE_ENABLE, Upload!READ_STATUS,
            Upload!PAGE_PROGRAM, Upload!BLOCK_ERASE
<1>5. /\ Byte \subseteq Nat
      /\ {Upload!Erased, Upload!WRITE_ENABLE, Upload!READ_STATUS, Upload!PAGE_PROGRAM,
          Upload!BLOCK_ERASE} \subseteq Byte
      /\ 0 .. Blocks - 1 \subseteq Byte /\ 0 .. Pages - 1 \subseteq Byte
      /\ 0 .. PageSize - 1 \subseteq Byte
  BY FlashAssumption DEF Flash!ByteAssumption
<1>6. \A x, y \in Byte : /\ BitAnd(x, y) \in Byte
                         /\ BitAnd(Upload!Erased, x) = x /\ BitAnd(x, Upload!Erased) = x
  BY FlashAssumption DEF Flash!AndAssumption
<1> QED BY <1>1, <1>2, <1>3, <1>4, <1>5, <1>6, DownloadAssumption

LEMMA UploadStores ==
  ASSUME Upload!ProtocolInv, Upload!StoreInv, [Upload!Next]_(Upload!core)
  PROVE  Upload!ProtocolInv' /\ Upload!StoreInv'
<1>1. Upload!StoreInv /\ Upload!ProtocolInv /\ [Upload!Next]_(Upload!core) => Upload!StoreInv'
  BY Given, Upload!StoreStep
<1>2. Upload!ProtocolInv /\ [Upload!Next]_(Upload!core) => Upload!ProtocolInv'
  BY Given, Upload!ProtocolStep
<1> QED BY <1>1, <1>2

LEMMA UploadFlushes ==
  ASSUME Upload!ProtocolInv, Upload!StoreInv, Upload!Flushed
  PROVE  /\ ~wip
         /\ \A a \in Flash!Addr : (\E s \in UpSent : s.blk = a.blk) => mem[a] = UpImage[a]
BY Given, Upload!FlushStores DEF Flash!Addr, Upload!Addr

LEMMA SpaceIsCapacity == Upload!Capacity = AddrSpace
<1>1. \A x, y, z \in Nat : x * y * z = x * (y * z) BY SMT
<1> QED BY <1>1, Given, DownloadAssumption DEF Upload!Capacity, BlockSize

LEMMA AddressNumbered ==
  ASSUME NEW a \in Flash!Addr
  PROVE  Number(a) \in 0 .. AddrSpace - 1 /\ FlashAddr(Number(a)) = a
<1>1. a \in Upload!Addr BY DEF Flash!Addr, Upload!Addr
<1>2. /\ Upload!Cell(Upload!Number(a)) = a
      /\ Upload!Number(a) \in 0 .. Upload!Capacity - 1
  BY <1>1, Given, Upload!CellOfNumber
<1> QED
  BY <1>2, SpaceIsCapacity DEF Upload!Number, Number, Upload!Cell, FlashAddr, BlockSize

LEMMA NumberAddressed ==
  ASSUME NEW n \in 0 .. AddrSpace - 1
  PROVE  FlashAddr(n) \in Flash!Addr /\ Number(FlashAddr(n)) = n
<1>1. n \in 0 .. Upload!Capacity - 1 BY SpaceIsCapacity
<1>2. Upload!Cell(n) \in Upload!Addr /\ Upload!Number(Upload!Cell(n)) = n
  BY <1>1, Given, Upload!NumberOfCell
<1>3. Upload!Cell(n) = FlashAddr(n) BY DEF Upload!Cell, FlashAddr, BlockSize
<1>4. Upload!Number(FlashAddr(n)) = Number(FlashAddr(n)) BY DEF Upload!Number, Number
<1> QED BY <1>2, <1>3, <1>4 DEF Flash!Addr, Upload!Addr

LEMMA CountedFollows ==
  ASSUME NEW last \in Flash!Addr, NEW a \in Flash!Addr, Number(a) = Number(last) + 1,
         \A s \in UpSent : Number(s) <= Number(last)
  PROVE  Upload!MayFollow(last, a)
<1>1. last \in Upload!Addr /\ a \in Upload!Addr /\ \A s \in UpSent : s \in Upload!Addr
  BY DEF Flash!Addr, Upload!Addr, UpSent
<1>2. \A s : Upload!Number(s) = Number(s) BY DEF Upload!Number, Number
<1> QED BY <1>1, <1>2, Given, Upload!SequentialFollows

\* The FSM's actions are the same formulas on the port and on the writer's view of it.
LEMMA UploadTakes ==
  ASSUME PortW = UpW, Flash!TakesByte
  PROVE  Upload!TakesByte /\ addr_latch' = UpW.addr
BY DEF Flash!TakesByte, Flash!Idle, Flash!WriteNextByte, Flash!Accept, Flash!device, Flash!PageOf,
       Upload!TakesByte, Upload!Idle, Upload!WriteNextByte, Upload!Accept, Upload!device,
       Upload!PageOf

LEMMA UploadShifts == ASSUME NEW b PROVE Flash!ShiftIn(b) <=> Upload!ShiftIn(b)
BY DEF Flash!ShiftIn, Upload!ShiftIn

LEMMA UploadRises == Flash!ChipSelectRise <=> Upload!ChipSelectRise
BY DEF Upload!ChipSelectRise, Flash!ChipSelectRise, Flash!Erases, Flash!Programs, Upload!Erases,
       Upload!Programs, Flash!HasAddress, Upload!HasAddress, Flash!Command, Upload!Command,
       Flash!FrameBlock, Upload!FrameBlock, Flash!FramePage, Upload!FramePage, Flash!Programmed,
       Upload!Programmed, Flash!EmptyBuf, Upload!EmptyBuf, Flash!Addr, Upload!Addr, Flash!Erased,
       Upload!Erased, Flash!PAGE_PROGRAM, Upload!PAGE_PROGRAM, Flash!BLOCK_ERASE,
       Upload!BLOCK_ERASE, Flash!WRITE_ENABLE, Upload!WRITE_ENABLE

LEMMA UploadWorks ==
  ASSUME state = "WRITE_NEXT" => flushing = UpFlush, Flash!WorksAlone
  PROVE  Upload!WorksAlone /\ addr_latch' = addr_latch
<1> USE UploadRises
    DEF Flash!device, Upload!device, Flash!regs, Upload!regs, Flash!PageOf, Upload!PageOf
<1>1. CASE Flash!Wren
  BY <1>1, UploadShifts DEF Flash!Wren, Upload!Wren, Flash!WRITE_ENABLE, Upload!WRITE_ENABLE,
     Upload!WorksAlone
<1>2. CASE Flash!WrenRelease
  BY <1>2 DEF Flash!WrenRelease, Upload!WrenRelease, Upload!WorksAlone
<1>3. CASE Flash!EraseCmd
  BY <1>3, UploadShifts DEF Flash!EraseCmd, Upload!EraseCmd, Flash!SendOpcode, Upload!SendOpcode,
     Flash!BLOCK_ERASE, Upload!BLOCK_ERASE, Upload!WorksAlone
<1>4. CASE Flash!EraseAddr
  BY <1>4, UploadShifts DEF Flash!EraseAddr, Upload!EraseAddr, Upload!WorksAlone
<1>5. CASE Flash!EraseRelease
  BY <1>5 DEF Flash!EraseRelease, Upload!EraseRelease, Upload!WorksAlone
<1>6. CASE Flash!WriteCmd
  BY <1>6, UploadShifts DEF Flash!WriteCmd, Upload!WriteCmd, Flash!SendOpcode, Upload!SendOpcode,
     Flash!PAGE_PROGRAM, Upload!PAGE_PROGRAM, Upload!WorksAlone
<1>7. CASE Flash!WriteAddr
  BY <1>7, UploadShifts DEF Flash!WriteAddr, Upload!WriteAddr, Upload!WorksAlone
<1>8. CASE Flash!WriteData
  BY <1>8, UploadShifts DEF Flash!WriteData, Upload!WriteData, Upload!WorksAlone
<1>9. CASE Flash!WriteNextFlush
  <2>1. UpFlush /\ ~UpW.valid BY <1>9 DEF Flash!WriteNextFlush, PortW, UpW
  <2> QED BY <1>9, <2>1 DEF Flash!WriteNextFlush, Upload!WriteNextFlush, Upload!WorksAlone
<1>10. CASE Flash!WriteRelease
  BY <1>10 DEF Flash!WriteRelease, Upload!WriteRelease, Upload!WorksAlone
<1>11. CASE Flash!PollCmd
  BY <1>11, UploadShifts DEF Flash!PollCmd, Upload!PollCmd, Flash!READ_STATUS, Upload!READ_STATUS,
     Upload!WorksAlone
<1>12. CASE Flash!PollRead BY <1>12 DEF Flash!PollRead, Upload!PollRead, Upload!WorksAlone
<1>13. CASE Flash!PollCapture
  BY <1>13 DEF Flash!PollCapture, Upload!PollCapture, Upload!WorksAlone
<1>14. CASE Flash!PollRelease
  BY <1>14 DEF Flash!PollRelease, Upload!PollRelease, Upload!WorksAlone
<1> QED BY <1>1, <1>2, <1>3, <1>4, <1>5, <1>6, <1>7, <1>8, <1>9, <1>10, <1>11, <1>12, <1>13, <1>14
        DEF Flash!WorksAlone

-----------------------------------------------------------------------------
(* The handler's part of a step is a writer's step, or none. *)

LEMMA ShownRange ==
  ASSUME SingleBank, PlaceInv
  PROVE  /\ Base \in Nat /\ Len(image) \in Nat /\ Shown \in 0 .. Len(image)
         /\ image \in Seq(Octet)
         /\ image # <<>> => Base + Len(image) < AddrSpace
         /\ fifo # <<>> => Shown > 0 /\ PortW = UpW
<1>1. /\ PlaceTypes /\ FifoPlaced /\ Len(fifo) \in Nat /\ acked \in Nat /\ image \in Seq(Octet)
      /\ Len(image) \in Nat /\ acked <= Len(image) /\ fifo \in Seq(Octet)
  BY DEF PlaceInv, PlaceTypes
<1>2. Base = Areas[1] /\ Base \in Nat
  BY <1>1, DfuAssumption DEF Base, PlaceTypes, SingleBank
<1>3. image # <<>> => Base + Len(image) < AddrSpace
  BY <1>1, <1>2 DEF PlaceTypes, SingleBank
<1>4. CASE fifo = <<>> BY <1>1, <1>2, <1>3, <1>4 DEF Shown
<1>5. CASE fifo # <<>>
  <2>1. Len(fifo) > 0 /\ Head(fifo) = fifo[1] /\ 1 \in 1 .. Len(fifo) BY <1>1, <1>5
  <2>2. /\ Len(fifo) <= acked /\ addr = Base + acked - Len(fifo)
        /\ fifo[1] = image[acked - Len(fifo) + 1]
    BY <1>1, <1>5, <2>1 DEF FifoPlaced
  <2>3. Shown = acked - Len(fifo) + 1 /\ Shown \in 1 .. Len(image)
    BY <1>1, <1>5, <2>1, <2>2 DEF Shown
  <2>4. addr = Base + Shown - 1 BY <1>1, <1>2, <2>2, <2>3
  <2>5. PortW = UpW BY <1>5, <2>1, <2>2, <2>3, <2>4 DEF PortW, UpW, PlaceOf
  <2> QED BY <1>1, <1>2, <1>3, <2>3, <2>5
<1> QED BY <1>4, <1>5

LEMMA PlacesNumbered ==
  ASSUME SingleBank, PlaceInv, NEW n \in 1 .. Len(image)
  PROVE  /\ Base + n - 1 \in 0 .. AddrSpace - 1
         /\ PlaceOf(n) \in Flash!Addr /\ Number(PlaceOf(n)) = Base + n - 1
<1>1. Base \in Nat /\ Len(image) \in Nat /\ Base + Len(image) < AddrSpace
  <2>1. image # <<>> BY ShownRange
  <2> QED BY <2>1, ShownRange
<1>2. Base + n - 1 \in 0 .. AddrSpace - 1 BY <1>1, DfuAssumption
<1> QED BY <1>2, NumberAddressed DEF PlaceOf

\* The next octet of the image on the port.
LEMMA Advance ==
  ASSUME SingleBank, PlaceInv, NEW last \in Flash!Addr, Shown > 0 => last = PlaceOf(Shown),
         UNCHANGED <<image, area_sel>>, Shown' = Shown + 1, Shown < Len(image), fifo' # <<>>
  PROVE  \E a \in Upload!Addr : \E d \in Octets(a) : Upload!Put(last, a, d)
<1> DEFINE m == Shown + 1
           a == PlaceOf(m)
           d == image[m]
<1>1. /\ Base \in Nat /\ Len(image) \in Nat /\ Shown \in Nat /\ m \in 1 .. Len(image)
      /\ image \in Seq(Octet)
  BY ShownRange
<1>2. a \in Flash!Addr /\ Number(a) = Base + m - 1 BY <1>1, PlacesNumbered
<1>3. Base' = Base BY DEF Base
<1>4. d \in Octet BY <1>1
<1> HIDE DEF a, d
<1>5. UpW' = [valid |-> TRUE, addr |-> a, data |-> d]
  <2>1. Shown' = m /\ Shown' # 0 /\ (fifo' # <<>>) = TRUE BY <1>1
  <2>2. PlaceOf(Shown)' = a /\ image'[Shown'] = d BY <1>3, <2>1 DEF PlaceOf, a, d
  <2> QED BY <2>1, <2>2 DEF UpW
<1>6. UpSent' = UpSent \cup {a}
  <2>1. UpSent' = {x \in Flash!Addr : Number(x) \in Base .. Base + m - 1}
    BY <1>3 DEF UpSent
  <2>2. \A x \in Flash!Addr : Number(x) \in Nat BY AddressNumbered
  <2>3. \A x \in Flash!Addr : Number(x) = Base + m - 1 => x = a
    <3> SUFFICES ASSUME NEW x \in Flash!Addr, Number(x) = Base + m - 1 PROVE x = a OBVIOUS
    <3>1. FlashAddr(Number(x)) = x /\ FlashAddr(Number(a)) = a BY <1>2, AddressNumbered
    <3> QED BY <1>2, <3>1
  <2>4. \A x \in Flash!Addr :
          Number(x) \in Base .. Base + m - 1 <=> Number(x) \in Base .. Base + Shown - 1 \/ x = a
    BY <1>1, <1>2, <2>2, <2>3
  <2> QED BY <1>2, <2>1, <2>4 DEF UpSent
<1>7. a \notin UpSent BY <1>1, <1>2 DEF UpSent
<1>8. UpImage' = [UpImage EXCEPT ![a] = d]
  <2>1. UpImage' = [x \in Flash!Addr |-> IF x \in UpSent' THEN image[Number(x) - Base + 1]
                                         ELSE Flash!Erased]
    BY <1>3 DEF UpImage
  <2>2. image[Number(a) - Base + 1] = d
    <3>1. Number(a) - Base + 1 = m BY <1>1, <1>2
    <3> QED BY <3>1 DEF d
  <2> QED BY <1>2, <1>6, <2>1, <2>2 DEF UpImage
<1>9. Upload!MayFollow(last, a)
  <2>1. CASE Shown = 0
    <3>1. UpSent = {} BY <1>1, <2>1, AddressNumbered DEF UpSent
    <3> QED BY <3>1 DEF Upload!MayFollow
  <2>2. CASE Shown > 0
    <3>1. Shown \in 1 .. Len(image) BY <1>1, <2>2
    <3>2. Number(last) = Base + Shown - 1 BY <2>2, <3>1, PlacesNumbered
    <3>3. Number(a) = Number(last) + 1 BY <1>1, <1>2, <3>2
    <3>4. \A s \in UpSent : Number(s) <= Number(last) BY <1>1, <3>2 DEF UpSent
    <3> QED BY <1>2, <3>3, <3>4, CountedFollows
  <2> QED BY <1>1, <2>1, <2>2
<1>10. Upload!Put(last, a, d) BY <1>5, <1>6, <1>7, <1>8, <1>9 DEF Upload!Put
<1> QED BY <1>2, <1>4, <1>10 DEF Octets, Upload!Addr, Flash!Addr

\* A step that leaves the device and the writer's view alone.
LEMMA UploadSame ==
  ASSUME UNCHANGED <<flash, UpFlush, Shown, image, area_sel>>, fifo' # <<>> <=> fifo # <<>>
  PROVE  UNCHANGED Upload!core
<1>1. Base' = Base BY DEF Base
<1>2. UpW' = UpW /\ UpSent' = UpSent /\ UpImage' = UpImage
  BY <1>1 DEF UpW, PlaceOf, UpSent, UpImage
<1> QED
  BY <1>2 DEF flash, flash_fsm, Upload!core, Upload!device, Upload!fsm, Upload!regs, Upload!port

\* Until the first request of a download is decoded nothing is on the port.
LEMMA FreshRests ==
  ASSUME SingleBank, PlaceInv, Upload!StoreInv, Sending, ~Downloading
  PROVE  Shown = 0 /\ fifo = <<>> /\ state = "IDLE"
<1>1. Shown = 0 /\ fifo = <<>> BY DEF PlaceInv, BlocksInOrder, Shown
<1>2. UpSent = {}
  <2>1. Base \in Nat BY ShownRange
  <2> QED BY <1>1, <2>1, AddressNumbered DEF UpSent
<1>3. Upload!Accepted = {} BY <1>2 DEF Upload!Accepted
<1> QED BY <1>1, <1>3 DEF Upload!StoreInv, Upload!LatchHolds

\* What a download that begins finds in the flash.
LEMMA UploadBegins ==
  ASSUME SingleBank, PlaceInv, PlaceInv', Upload!ProtocolInv, Upload!StoreInv, StartDownload
  PROVE  Upload!ProtocolInv' /\ Upload!StoreInv'
<1> USE DEF StartDownload, ReceiveSetup, Finished
<1>1. /\ state = "IDLE" /\ fifo = <<>> /\ fifo' = <<>> /\ acked' = 0 /\ UNCHANGED flash
  BY Zenon
<1>2. /\ Upload!DeviceTypeOK /\ Upload!FsmTypeOK /\ ~block_valid /\ qi = <<>> /\ frame = <<>>
      /\ buf = Upload!EmptyBuf /\ ~wip
  BY <1>1 DEF Upload!ProtocolInv, Upload!TypeOK, Upload!FrameShape, Upload!NotBusy, Upload!OneReply,
     Upload!AtBoundary, Upload!PollStates, Upload!StoreInv, Upload!Closes, Upload!BufHolds,
     Upload!Addressed
<1>3. Shown' = 0 BY <1>1 DEF Shown
<1>4. UpSent' = {} /\ UpImage' = [a \in Flash!Addr |-> Flash!Erased]
  <2>1. Base' \in Nat
    <3>1. area_sel' = 0 BY DEF PlaceInv, PlaceTypes
    <3> QED BY <3>1, DfuAssumption DEF Base, SingleBank
  <2>2. UpSent' = {} BY <1>3, <2>1, AddressNumbered DEF UpSent
  <2> QED BY <2>2 DEF UpImage
<1>5. UpW' = [valid |-> FALSE, addr |-> FlashAddr(0), data |-> Flash!Erased]
  BY <1>1, <1>3 DEF UpW
<1>6. FlashAddr(0) \in Flash!Addr BY NumberAddressed, DfuAssumption
<1>7. UNCHANGED <<mem, wel, wip, frame, buf, col, state, addr_latch, data_latch, current_block,
                  block_valid, current_page, addr_count, wren_target, poll_return, has_next,
                  status, qi>>
  BY <1>1 DEF flash, flash_fsm
<1> HIDE DEF StartDownload, ReceiveSetup, Finished
<1>8. Upload!TypeOK'
  <2>1. Upload!DeviceTypeOK' /\ Upload!FsmTypeOK'
    BY <1>2, <1>7 DEF Upload!DeviceTypeOK, Upload!FsmTypeOK
  <2>2. UpW' \in [valid : BOOLEAN, addr : Upload!Addr, data : Byte] /\ UpFlush' \in BOOLEAN
    BY <1>5, <1>6, Given
       DEF Upload!Addr, Flash!Addr, Upload!Erased, Flash!Erased, UpFlush
  <2>3. UpImage' \in [Upload!Addr -> Byte] /\ UpSent' \subseteq Upload!Addr
    BY <1>4, Given DEF Upload!Addr, Flash!Addr, Upload!Erased, Flash!Erased
  <2> QED BY <2>1, <2>2, <2>3 DEF Upload!TypeOK
<1>9. Upload!ProtocolInv'
  BY <1>1, <1>2, <1>7, <1>8
     DEF Upload!ProtocolInv, Upload!FrameShape, Upload!NotBusy, Upload!LatchSet, Upload!OneReply,
         Upload!AtBoundary, Upload!Addressed, Upload!Enabled, Upload!PollStates
<1>10. state' = "IDLE" /\ ~block_valid' /\ buf' = Upload!EmptyBuf /\ ~UpW'.valid
  BY <1>1, <1>2, <1>5, <1>7
<1>11. Upload!Accepted' = {} BY <1>4 DEF Upload!Accepted
<1>12. ~Upload!LatchLive' /\ ~Upload!EraseDue'
  BY <1>10 DEF Upload!LatchLive, Upload!EraseDue, Upload!Polling
<1>13. Upload!PortHolds'
  BY <1>4, <1>10 DEF Upload!PortHolds, Flash!Erased, Upload!Erased, Flash!Addr, Upload!Addr
<1>14. Upload!Closes' BY <1>10, <1>11 DEF Upload!Closes
<1>15. Upload!LatchHolds' BY <1>10, <1>12 DEF Upload!LatchHolds
<1>16. Upload!FrameAddressed' /\ Upload!PageHolds'
  BY <1>10 DEF Upload!FrameAddressed, Upload!PageHolds, Upload!Addressed
<1>17. Upload!BufHolds' BY <1>10 DEF Upload!BufHolds, Upload!InOpen, Upload!Addressed
<1>18. Upload!MemHolds' BY <1>11 DEF Upload!MemHolds, Upload!Touched
<1> QED BY <1>9, <1>13, <1>14, <1>15, <1>16, <1>17, <1>18 DEF Upload!StoreInv

\* Requests and packets that bring no octet into the FIFO.
LEMMA QuietView ==
  ASSUME LastLatched, UNCHANGED <<flash, fifo, acked, image, area_sel, flushing>>,
         (Sending' /\ ~Downloading') <=> (Sending /\ ~Downloading)
  PROVE  UNCHANGED Upload!core /\ LastLatched'
<1>1. Shown' = Shown /\ Base' = Base /\ UpFlush' = UpFlush /\ addr_latch' = addr_latch
  BY DEF Shown, Base, UpFlush, flash, flash_fsm
<1>2. UNCHANGED Upload!core BY <1>1, UploadSame
<1> QED BY <1>1, <1>2 DEF LastLatched, PlaceOf

LEMMA HostView ==
  ASSUME SingleBank, PlaceInv, LastLatched,
         NextBlock \/ SendPacket \/ PacketBad \/ Acknowledged \/ (\E s \in Others : Chatter(s))
  PROVE  UNCHANGED Upload!core /\ LastLatched'
<1> USE DEF ReceiveSetup
<1>1. CASE NextBlock
  <2>1. /\ UNCHANGED <<flash, fifo, acked, image, area_sel, flushing, dfu_state>>
        /\ stage = "none" /\ InDownload
    BY <1>1 DEF NextBlock
  <2>2. Downloading
    BY <2>1 DEF InDownload, Downloading, PlaceInv, PlaceTypes, BlocksInOrder, Sending
  <2> QED BY <2>1, <2>2, QuietView DEF Downloading
<1>2. CASE SendPacket
  <2>1. /\ UNCHANGED <<flash, fifo, acked, image, area_sel, flushing, dfu_state>>
        /\ stage = "data" /\ stage' = "packet"
    BY <1>2 DEF SendPacket, ReceiveData
  <2> QED BY <2>1, QuietView DEF Downloading, Sending
<1>3. CASE PacketBad
  <2>1. /\ UNCHANGED <<flash, fifo, acked, image, area_sel, flushing, dfu_state>>
        /\ stage = "packet" /\ stage' = "data"
    BY <1>3 DEF PacketBad, DiscardPacket
  <2> QED BY <2>1, QuietView DEF Downloading, Sending
<1>4. CASE Acknowledged
  <2>1. /\ UNCHANGED <<flash, fifo, acked, image, area_sel, flushing, dfu_state>>
        /\ stage = "status" /\ stage' = "none"
    BY <1>4 DEF Acknowledged, StatusStage
  <2> QED BY <2>1, QuietView DEF Downloading, Sending
<1>5. ASSUME NEW s \in Others, Chatter(s) PROVE UNCHANGED Upload!core /\ LastLatched'
  <2>1. /\ UNCHANGED <<flash, fifo, acked, image, area_sel, flushing, dfu_state>>
        /\ stage = "none" /\ stage' \in {"status", "none"}
    BY <1>5 DEF Chatter
  <2> QED BY <2>1, QuietView DEF Downloading, Sending
<1> QED BY <1>1, <1>2, <1>3, <1>4, <1>5

\* A packet that ended well may bring the first octet to the port.
LEMMA GoodView ==
  ASSUME SingleBank, PlaceInv, Upload!ProtocolInv, LastLatched, FlushMeant, PacketGood
  PROVE  [Upload!Next]_(Upload!core) /\ LastLatched'
<1>1. /\ stage = "packet" /\ dfu_fsm = "DFU_DNLOAD" /\ stage' \in {"data", "status"}
      /\ fifo' = fifo \o fill /\ acked' = acked + PacketLen
      /\ UNCHANGED <<flash, image, area_sel, flushing, dfu_state>>
  BY DEF PacketGood, CommitPacket, PacketLen
<1>2. /\ PlaceTypes /\ ahead \in Nat /\ ahead > 0 /\ Len(fill) = PacketLen
      /\ acked \in Nat /\ acked + ahead <= Len(image) /\ Len(image) \in Nat
  BY <1>1 DEF PlaceInv, PlaceTypes, StagesMatch, Sending, PacketNext
<1>3. PacketLen \in 1 .. ahead BY <1>2, DownloadAssumption DEF PacketLen
<1>4. fifo \in Seq(Octet) /\ fill \in Seq(Octet) /\ Len(fifo) \in Nat BY <1>2 DEF PlaceTypes
<1>5. fifo' \in Seq(Octet) /\ Len(fifo') = Len(fifo) + PacketLen
  BY <1>1, <1>2, <1>4, ConcatProperties, Zenon
<1>6. fifo' # <<>> BY <1>3, <1>4, <1>5
<1>7. Downloading /\ UpFlush = FALSE /\ UpFlush' = FALSE
  <2>1. Downloading BY <1>1 DEF PlaceInv, BlocksInOrder, Sending
  <2> QED BY <1>1, <2>1 DEF FlushMeant, UpFlush
<1>8. LastLatched' BY <1>6 DEF LastLatched
<1>9. CASE fifo = <<>>
  <2>1. Shown = acked /\ Len(fifo) = 0 BY <1>9 DEF Shown
  <2>2. Shown' = Shown + 1
    <3>1. Shown' = acked' - Len(fifo') + 1 BY <1>6 DEF Shown
    <3> QED BY <1>1, <1>2, <1>3, <1>5, <2>1, <3>1
  <2>3. addr_latch \in Flash!Addr
    BY DEF Upload!ProtocolInv, Upload!TypeOK, Upload!FsmTypeOK, Upload!Addr, Flash!Addr
  <2>4. Shown < Len(image) BY <1>2, <2>1
  <2>5. Shown > 0 => addr_latch = PlaceOf(Shown) BY <1>9 DEF LastLatched
  <2>6. \E a \in Upload!Addr : \E d \in Octets(a) : Upload!Put(addr_latch, a, d)
    BY <1>1, <1>6, <2>2, <2>3, <2>4, <2>5, Advance
  <2>7. UNCHANGED <<Upload!device, Upload!fsm, UpFlush>> /\ ~UpW.valid /\ ~UpFlush
    BY <1>1, <1>7, <1>9
       DEF flash, flash_fsm, Upload!device, Upload!fsm, Upload!regs, UpW
  <2>8. \E a \in Upload!Addr : \E d \in Octets(a) : Upload!Offer(a, d)
    BY <2>6, <2>7 DEF Upload!Offer
  <2> QED BY <1>8, <2>8 DEF Upload!Next, Upload!WriterStep
<1>10. CASE fifo # <<>>
  <2>1. Shown = acked - Len(fifo) + 1 /\ Shown' = acked' - Len(fifo') + 1
    BY <1>6, <1>10 DEF Shown
  <2>2. Shown' = Shown BY <1>1, <1>2, <1>3, <1>4, <1>5, <2>1
  <2> QED BY <1>1, <1>6, <1>7, <1>8, <1>10, <2>2, UploadSame
<1> QED BY <1>9, <1>10

LEMMA HandlerView ==
  ASSUME SingleBank, PlaceInv, LastLatched, FlushMeant, HandlerStep
  PROVE  [Upload!Next]_(Upload!core) /\ LastLatched'
<1>1. UNCHANGED <<flash, fifo, acked, image, stage>>
  BY DEF HandlerStep, Dispatch, DispatchDnload, host_vars
<1>2. Shown' = Shown /\ addr_latch' = addr_latch BY <1>1 DEF Shown, flash, flash_fsm
<1>3. CASE Dispatch
  <2>1. UNCHANGED <<flushing, dfu_state>> BY <1>3 DEF Dispatch
  <2>2. area_sel' = area_sel
    BY <1>3, OneSetting DEF Dispatch, PlaceInv, PlaceTypes
  <2> QED BY <1>1, <2>1, <2>2, QuietView DEF Sending, Downloading
<1>4. CASE DispatchDnload
  <2>1. /\ dfu_fsm = "DISPATCH" /\ setup.request = "DFU_DNLOAD" /\ area_sel' = area_sel
        /\ dfu_state' = IF setup.length > 0 THEN "dfuDNLOAD_IDLE" ELSE "dfuIDLE"
        /\ flushing' = (setup.length = 0 \/ (flushing /\ dfu_state # "dfuIDLE"))
    BY <1>4 DEF DispatchDnload, Decodes, NextFlushing
  <2>2. PlaceTypes /\ stage \in {"data", "status"}
    BY <2>1 DEF PlaceInv, PlaceTypes, StagesMatch, Requests
  <2>3. LastLatched'
    <3>1. Base' = Base BY <2>1 DEF Base
    <3> QED BY <1>1, <1>2, <3>1 DEF LastLatched, PlaceOf
  <2>4. CASE stage = "data"
    <3>1. setup.length > 0 /\ setup.length # 0 /\ Sending
      BY <2>4 DEF PlaceInv, StagesMatch, Sending
    <3>2. Downloading' BY <2>1, <3>1 DEF Downloading
    <3>3. UpFlush' = FALSE /\ UpFlush = FALSE
      <4>1. ~flushing'
        BY <2>1, <2>2, <3>1 DEF FlushMeant, Downloading, PlaceTypes
      <4> QED BY <3>1, <4>1 DEF UpFlush, FlushMeant
    <3> QED BY <1>1, <1>2, <2>1, <2>3, <3>3, UploadSame
  <2>5. CASE stage = "status"
    <3>1. setup.length = 0 /\ ~Sending /\ ~Sending'
      BY <1>1, <2>1, <2>5 DEF PlaceInv, BlocksInOrder, Sending
    <3>2. UpFlush' = TRUE BY <2>1, <3>1 DEF UpFlush
    <3>3. CASE UpFlush
      <4>1. UpFlush' = UpFlush BY <3>2, <3>3 DEF UpFlush, FlushMeant
      <4> QED BY <1>1, <1>2, <2>1, <2>3, <4>1, UploadSame
    <3>4. CASE ~UpFlush
      <4>1. Base' = Base BY <2>1 DEF Base
      <4>2. UpW' = UpW /\ UpSent' = UpSent /\ UpImage' = UpImage
        BY <1>1, <1>2, <4>1 DEF UpW, PlaceOf, UpSent, UpImage
      <4>3. UNCHANGED <<Upload!device, Upload!fsm>>
        BY <1>1 DEF flash, flash_fsm, Upload!device, Upload!fsm, Upload!regs
      <4>4. Upload!RaiseFlush BY <3>2, <3>4, <4>2, <4>3 DEF Upload!RaiseFlush
      <4> QED BY <2>3, <4>4 DEF Upload!Next, Upload!WriterStep
    <3> QED BY <3>3, <3>4
  <2> QED BY <2>2, <2>4, <2>5
<1> QED BY <1>3, <1>4 DEF HandlerStep

\* The port's register once its octet has been taken.
LEMMA Lowered ==
  ASSUME NEW u \in [valid : BOOLEAN, addr : Flash!Addr, data : Octet],
         NEW v \in [valid : BOOLEAN, addr : Flash!Addr, data : Octet],
         ~v.valid, v.addr = u.addr, v.data = u.data
  PROVE  v = [u EXCEPT !.valid = FALSE]
OBVIOUS

\* An octet that is taken is the port's, and the one behind it takes its place.
LEMMA StoreView ==
  ASSUME SingleBank, PlaceInv, LastLatched, Store, UNCHANGED host_vars
  PROVE  Upload!TakeByte /\ LastLatched'
<1>1. /\ fifo # <<>> /\ fifo' = Tail(fifo) /\ Flash!TakesByte
      /\ UNCHANGED <<flushing, dfu_state, area_sel, stage, image, acked>>
  BY DEF Store, Deliver, host_vars
<1>2. /\ fifo \in Seq(Octet) /\ Len(fifo) \in Nat \ {0} /\ fifo' \in Seq(Octet)
      /\ Len(fifo') = Len(fifo) - 1 /\ acked \in Nat /\ Len(fifo) <= acked
      /\ acked <= Len(image) /\ Len(image) \in Nat
  BY <1>1 DEF PlaceInv, PlaceTypes, FifoPlaced
<1>3. /\ Shown = acked - Len(fifo) + 1 /\ Shown > 0 /\ Shown \in 1 .. Len(image)
      /\ PortW = UpW /\ UpW.addr = PlaceOf(Shown) /\ UpW.valid
  <2>1. Shown = acked - Len(fifo) + 1 BY <1>1 DEF Shown
  <2>2. Shown \in 0 .. Len(image) /\ Shown > 0 /\ PortW = UpW BY <1>1, ShownRange
  <2>3. Shown \in 1 .. Len(image) /\ Shown # 0 BY <1>2, <2>2
  <2>4. UpW.addr = PlaceOf(Shown) /\ UpW.valid
    <3>1. (fifo # <<>>) = TRUE BY <1>1
    <3> QED BY <2>3, <3>1 DEF UpW
  <2> QED BY <2>1, <2>2, <2>3, <2>4
<1>4. Upload!TakesByte /\ addr_latch' = PlaceOf(Shown) BY <1>1, <1>3, UploadTakes
<1>5. UpFlush' = UpFlush /\ Base' = Base BY <1>1 DEF UpFlush, Sending, Downloading, Base
<1>6. CASE fifo' = <<>>
  <2>1. Shown' = Shown
    <3>1. Len(fifo') = 0 BY <1>6
    <3>2. Shown = acked
      <4>1. Shown = acked - Len(fifo) + 1 BY <1>3
      <4>2. Len(fifo) = 1 BY <1>2, <3>1
      <4>3. acked - Len(fifo) + 1 = acked BY <1>2, <4>2
      <4> QED BY <4>1, <4>3, Zenon
    <3>3. Shown' = acked' BY <1>6 DEF Shown
    <3> QED BY <1>1, <3>2, <3>3
  <2>2. UpSent' = UpSent /\ UpImage' = UpImage BY <1>1, <1>5, <2>1 DEF UpSent, UpImage
  <2>3. UpW' = [UpW EXCEPT !.valid = FALSE]
    <3>1. (fifo' # <<>>) = FALSE BY <1>6
    <3>2. PlaceOf(Shown)' = PlaceOf(Shown) BY <1>5, <2>1 DEF PlaceOf
    <3>3. Shown # 0 BY <1>3
    <3>4. image'[Shown'] = image[Shown] /\ Shown' # 0 BY <1>1, <2>1, <3>3, Zenon
    <3> DEFINE p == PlaceOf(Shown)
               d == image[Shown]
    <3>5. UpW' = [valid |-> FALSE, addr |-> p, data |-> d] BY <3>1, <3>2, <3>4 DEF UpW
    <3>6. UpW = [valid |-> TRUE, addr |-> p, data |-> d]
      <4>1. (fifo # <<>>) = TRUE BY <1>1
      <4> QED BY <3>3, <4>1 DEF UpW
    <3>7. p \in Flash!Addr /\ d \in Octet
      <4>1. image \in Seq(Octet) BY <1>1, ShownRange
      <4> QED BY <1>3, <4>1, PlacesNumbered
    <3> HIDE DEF p, d
    <3>8. /\ UpW \in [valid : BOOLEAN, addr : Flash!Addr, data : Octet]
          /\ UpW' \in [valid : BOOLEAN, addr : Flash!Addr, data : Octet]
          /\ ~UpW'.valid /\ UpW'.addr = UpW.addr /\ UpW'.data = UpW.data
      BY ONLY <3>5, <3>6, <3>7
    <3> HIDE DEF UpW
    <3> QED BY <3>8, Lowered
  <2>4. LastLatched' BY <1>4, <1>5, <2>1 DEF LastLatched, PlaceOf
  <2> QED BY <1>4, <1>5, <2>2, <2>3, <2>4 DEF Upload!TakeByte
<1>7. CASE fifo' # <<>>
  <2>1. Len(fifo') # 0
    <3>1. Len(fifo') \in Nat \ {0} BY <1>2, <1>7, EmptySeq
    <3> QED BY <3>1
  <2>2. Shown' = Shown + 1 /\ Shown < Len(image)
    <3>1. Shown' = acked' - Len(fifo') + 1 BY <1>7 DEF Shown
    <3> QED BY <1>1, <1>2, <1>3, <2>1, <3>1
  <2>3. PlaceOf(Shown) \in Flash!Addr BY <1>3, PlacesNumbered
  <2>4. \E a \in Upload!Addr : \E d \in Octets(a) : Upload!Put(UpW.addr, a, d)
    BY <1>1, <1>3, <1>7, <2>2, <2>3, Advance
  <2>5. LastLatched' BY <1>7 DEF LastLatched
  <2> QED BY <1>4, <1>5, <2>4, <2>5 DEF Upload!TakeByte
<1> QED BY <1>6, <1>7

LEMMA FlashView ==
  ASSUME SingleBank, PlaceInv, Upload!StoreInv, LastLatched, FlushMeant, FlashStep
  PROVE  [Upload!Next]_(Upload!core) /\ LastLatched'
<1>1. CASE Store
  BY <1>1, StoreView DEF FlashStep, Upload!Next, Upload!FsmStep
<1>2. CASE Flash!WorksAlone /\ UNCHANGED dfu
  <2>1. UNCHANGED <<fifo, acked, image, area_sel, flushing, dfu_state, stage>>
    BY <1>2 DEF FlashStep, dfu, host_vars
  <2>2. state = "WRITE_NEXT" => flushing = UpFlush
    <3>1. CASE Sending /\ ~Downloading BY <3>1, FreshRests
    <3>2. CASE ~(Sending /\ ~Downloading) BY <3>2 DEF UpFlush, FlushMeant
    <3> QED BY <3>1, <3>2
  <2>3. Upload!WorksAlone /\ addr_latch' = addr_latch BY <1>2, <2>2, UploadWorks
  <2>4. Base' = Base /\ Shown' = Shown /\ UpFlush' = UpFlush
    BY <2>1 DEF Base, Shown, UpFlush, Sending, Downloading
  <2>5. UpW' = UpW /\ UpSent' = UpSent /\ UpImage' = UpImage
    BY <2>1, <2>4 DEF UpW, PlaceOf, UpSent, UpImage
  <2>6. LastLatched' BY <2>1, <2>3, <2>4 DEF LastLatched, PlaceOf
  <2> QED BY <2>3, <2>4, <2>5, <2>6 DEF Upload!Next, Upload!FsmStep, Upload!port
<1> QED BY <1>1, <1>2 DEF FlashStep

\* What a step does to the writer's view, and so to the array.
LEMMA ViewStep ==
  ASSUME SingleBank, PlaceInv, StoredInv, [Next]_vars
  PROVE  Upload!ProtocolInv' /\ Upload!StoreInv' /\ LastLatched'
<1> USE UploadStores DEF StoredInv
<1>1. CASE StartDownload
  <2>1. PlaceInv' BY <1>1, StartStep
  <2>2. Shown' = 0 BY <1>1 DEF StartDownload, ReceiveSetup, Finished, Shown
  <2> QED BY <1>1, <2>1, <2>2, UploadBegins DEF LastLatched
<1>2. CASE NextBlock \/ SendPacket \/ PacketBad \/ Acknowledged \/ \E s \in Others : Chatter(s)
  <2>1. UNCHANGED Upload!core /\ LastLatched' BY <1>2, HostView
  <2> QED BY <2>1
<1>3. CASE PacketGood
  <2>1. [Upload!Next]_(Upload!core) /\ LastLatched' BY <1>3, GoodView
  <2> QED BY <2>1
<1>4. CASE HandlerStep
  <2>1. [Upload!Next]_(Upload!core) /\ LastLatched' BY <1>4, HandlerView
  <2> QED BY <2>1
<1>5. CASE FlashStep
  <2>1. [Upload!Next]_(Upload!core) /\ LastLatched' BY <1>5, FlashView
  <2> QED BY <2>1
<1>6. CASE DeviceStep
  <2>1. /\ UNCHANGED <<fifo, acked, image, area_sel, flushing, dfu_state, stage, flash_fsm>>
        /\ Flash!WriteEnds
    BY <1>6 DEF DeviceStep, dfu, host_vars
  <2>2. Base' = Base /\ Shown' = Shown /\ UpFlush' = UpFlush /\ addr_latch' = addr_latch
    BY <2>1 DEF Base, Shown, UpFlush, Sending, Downloading, flash_fsm
  <2>3. UpW' = UpW /\ UpSent' = UpSent /\ UpImage' = UpImage
    BY <2>1, <2>2 DEF UpW, PlaceOf, UpSent, UpImage
  <2>4. LastLatched' BY <2>1, <2>2 DEF LastLatched, PlaceOf
  <2>5. Upload!WriteEnds BY <2>1 DEF Flash!WriteEnds, Upload!WriteEnds
  <2>6. UNCHANGED <<Upload!fsm, Upload!port>>
    BY <2>1, <2>2, <2>3 DEF Upload!fsm, Upload!regs, Upload!port, flash_fsm
  <2>7. Upload!Next BY <2>5, <2>6 DEF Upload!Next, Upload!DeviceStep
  <2> QED BY <2>4, <2>7
<1>7. CASE Boot \/ UNCHANGED vars
  <2>1. UNCHANGED <<flash, fifo, acked, image, area_sel, flushing, stage, dfu_state>>
    BY <1>7 DEF Boot, vars, dfu, host_vars
  <2>2. UNCHANGED Upload!core /\ LastLatched' BY <2>1, QuietView DEF Sending, Downloading
  <2> QED BY <2>2
<1> QED BY <1>1, <1>2, <1>3, <1>4, <1>5, <1>6, <1>7 DEF Next, HostStep

-----------------------------------------------------------------------------
(* The flush. *)

LEMMA HostMeant ==
  ASSUME PlaceInv, FlushMeant,
         \/ StartDownload \/ NextBlock \/ SendPacket \/ PacketGood \/ PacketBad
         \/ Acknowledged \/ \E s \in Others : Chatter(s)
  PROVE  FlushMeant'
<1> USE DEF FlushMeant, Downloading, Sending
<1>1. CASE StartDownload
  <2>1. /\ image' \in Images /\ stage' = "data"
        /\ UNCHANGED <<flushing, pending, ended, dfu_state>>
    BY <1>1 DEF StartDownload, ReceiveSetup
  <2>2. image' # <<>> BY <2>1, DownloadAssumption
  <2> QED BY <2>1, <2>2
<1>2. CASE NextBlock
  <2>1. /\ stage = "none" /\ InDownload /\ (stage' = "status" => ended') /\ (ended => ended')
        /\ UNCHANGED <<flushing, pending, image, dfu_state>>
    BY <1>2 DEF NextBlock, ReceiveSetup
  <2>2. Downloading
    BY <2>1 DEF InDownload, PlaceInv, PlaceTypes, BlocksInOrder
  <2> QED BY <2>1, <2>2
<1>3. CASE SendPacket
  BY <1>3 DEF SendPacket, ReceiveData
<1>4. CASE PacketGood
  <2>1. /\ stage = "packet" /\ dfu_fsm = "DFU_DNLOAD" /\ dfu_fsm' = "DFU_DNLOAD"
        /\ UNCHANGED <<flushing, pending, image, ended, dfu_state>>
    BY <1>4 DEF PacketGood, CommitPacket
  <2>2. Downloading BY <2>1 DEF PlaceInv, BlocksInOrder
  <2> QED BY <2>1, <2>2
<1>5. CASE PacketBad BY <1>5 DEF PacketBad, DiscardPacket
<1>6. CASE Acknowledged BY <1>6 DEF Acknowledged, StatusStage
<1>7. ASSUME NEW s \in Others, Chatter(s) PROVE FlushMeant'
  <2>1. s.request # "DFU_DNLOAD" BY DEF Others, Request
  <2>2. /\ setup' = s /\ stage = "none" /\ stage' \in {"status", "none"}
        /\ UNCHANGED <<flushing, pending, image, ended, dfu_state>>
    BY <1>7 DEF Chatter, ReceiveSetup
  <2> QED BY <2>1, <2>2
<1> QED BY <1>1, <1>2, <1>3, <1>4, <1>5, <1>6, <1>7

LEMMA HandlerMeant ==
  ASSUME PlaceInv, FlushMeant, HandlerStep
  PROVE  FlushMeant'
<1>1. pending' = (pending \/ flushing) /\ UNCHANGED <<stage, image, ended, acked>>
  BY DEF HandlerStep, Tick, host_vars
<1>2. CASE Dispatch
  <2>1. dfu_fsm' # "DISPATCH" /\ UNCHANGED <<flushing, dfu_state>>
    BY <1>2 DEF Dispatch, Decodes, Requests
  <2> QED BY <1>1, <2>1 DEF FlushMeant, Downloading, Sending
<1>3. CASE DispatchDnload
  <2>1. /\ dfu_fsm = "DISPATCH" /\ setup.request = "DFU_DNLOAD" /\ dfu_fsm' = "DFU_DNLOAD"
        /\ dfu_state' = IF setup.length > 0 THEN "dfuDNLOAD_IDLE" ELSE "dfuIDLE"
        /\ flushing' = (setup.length = 0 \/ (flushing /\ dfu_state # "dfuIDLE"))
    BY <1>3 DEF DispatchDnload, Decodes, NextFlushing
  <2>2. PlaceTypes /\ stage \in {"data", "status"}
    BY <2>1 DEF PlaceInv, PlaceTypes, StagesMatch, Requests
  <2>3. CASE stage = "data"
    <3>1. setup.length > 0 /\ setup.length # 0 /\ ahead > 0
      BY <2>3 DEF PlaceInv, StagesMatch, Sending
    <3>2. image # <<>> BY <2>2, <3>1 DEF PlaceTypes
    <3>3. ~flushing' BY <2>1, <2>2, <3>1 DEF FlushMeant, Downloading, PlaceTypes
    <3> QED BY <1>1, <2>1, <2>3, <3>1, <3>2, <3>3 DEF FlushMeant, Downloading, Sending
  <2>4. CASE stage = "status"
    <3>1. setup.length = 0 /\ Downloading
      BY <2>1, <2>4 DEF PlaceInv, BlocksInOrder
    <3>2. dfu_state' = "dfuIDLE" BY <2>1, <3>1
    <3>3. flushing' = TRUE BY <2>1, <3>1, Zenon
    <3>4. ended /\ image # <<>> BY <2>1, <2>4, <3>1 DEF FlushMeant
    <3> QED BY <1>1, <2>1, <2>4, <3>2, <3>3, <3>4 DEF FlushMeant, Downloading, Sending
  <2> QED BY <2>2, <2>3, <2>4
<1> QED BY <1>2, <1>3 DEF HandlerStep

LEMMA MeantStep ==
  ASSUME PlaceInv, FlushMeant, [Next]_vars
  PROVE  FlushMeant'
<1>1. CASE FlashStep
  <2>1. /\ pending' = (pending \/ flushing)
        /\ UNCHANGED <<stage, image, ended, flushing, dfu_state, dfu_fsm, setup>>
    BY <1>1 DEF FlashStep, Store, Deliver, Tick, dfu, host_vars
  <2> QED BY <2>1 DEF FlushMeant, Downloading, Sending
<1>2. CASE DeviceStep \/ Boot \/ UNCHANGED vars
  <2>1. UNCHANGED <<pending, stage, image, ended, flushing, dfu_state, dfu_fsm, setup>>
    BY <1>2 DEF DeviceStep, Boot, vars, dfu, host_vars
  <2> QED BY <2>1 DEF FlushMeant, Downloading, Sending
<1> QED BY <1>1, <1>2, HostMeant, HandlerMeant DEF Next, HostStep

-----------------------------------------------------------------------------
(* The reboot. *)

LEMMA BootStores ==
  ASSUME SingleBank, PlaceInv, Upload!ProtocolInv, Upload!StoreInv, FlushMeant, Boot
  PROVE  FlashedAtBoot'
<1>1. /\ pending /\ fifo = <<>> /\ stage = "none" /\ ~InDownload
      /\ state = "IDLE" \/ (state = "WRITE_NEXT" /\ ~flushing)
      /\ UNCHANGED <<mem, wip, image, area_sel, ended>>
  BY DEF Boot, Quiet, flash, dfu, host_vars
<1>2. image # <<>> /\ ended /\ ~Downloading /\ ~Sending /\ flushing
  BY <1>1 DEF FlushMeant, InDownload, Downloading, Sending
<1>3. Shown = Len(image) /\ Len(image) \in Nat
  BY <1>1 DEF InDownload, Shown, PlaceInv, PlaceTypes
<1>4. Upload!Flushed BY <1>1, <1>2 DEF Upload!Flushed, UpFlush, UpW
<1>5. /\ ~wip
      /\ \A a \in Flash!Addr : (\E s \in UpSent : s.blk = a.blk) => mem[a] = UpImage[a]
  BY <1>4, UploadFlushes
<1>6. ASSUME NEW n \in 0 .. AddrSpace - 1, NEW k \in 0 .. AddrSpace - 1,
             Covers(k), k \div BlockSize = n \div BlockSize
      PROVE  mem[FlashAddr(n)] = IF Covers(n) THEN image[n - Base + 1] ELSE Flash!Erased
  <2> DEFINE a == FlashAddr(n)
             s == FlashAddr(k)
  <2>1. /\ a \in Flash!Addr /\ Number(a) = n /\ s \in Flash!Addr /\ Number(s) = k
    BY NumberAddressed
  <2>2. s.blk = a.blk BY <1>6 DEF FlashAddr
  <2>3. (a \in UpSent <=> Covers(n)) /\ (s \in UpSent <=> Covers(k))
    BY <1>3, <2>1 DEF UpSent, Covers
  <2> HIDE DEF a, s
  <2>4. mem[a] = UpImage[a] BY <1>5, <1>6, <2>1, <2>2, <2>3
  <2>5. UpImage[a] = IF Covers(n) THEN image[n - Base + 1] ELSE Flash!Erased
    BY <2>1, <2>3 DEF UpImage
  <2> QED BY <2>4, <2>5 DEF a
<1>7. Base' = Base BY <1>1 DEF Base
<1>8. \A n : Covers(n)' <=> Covers(n) BY <1>1, <1>7 DEF Covers
<1> QED BY <1>1, <1>2, <1>5, <1>6, <1>7, <1>8 DEF FlashedAtBoot

LEMMA FlashedStep ==
  ASSUME SingleBank, PlaceInv, StoredInv, [Next]_vars
  PROVE  FlashedAtBoot'
<1>1. CASE Boot BY <1>1, BootStores DEF StoredInv
<1>2. CASE UNCHANGED vars
  <2>1. UNCHANGED <<booted, ended, wip, mem, image, area_sel>>
    BY <1>2 DEF vars, dfu, flash, host_vars
  <2>2. Base' = Base BY <2>1 DEF Base
  <2>3. \A n : Covers(n)' <=> Covers(n) BY <2>1, <2>2 DEF Covers
  <2> QED BY <2>1, <2>2, <2>3 DEF StoredInv, FlashedAtBoot
<1>3. CASE Next /\ ~Boot
  <2>1. ~booted /\ booted' = booted
    BY <1>3 DEF Next, HostStep, StartDownload, NextBlock, SendPacket, PacketGood, PacketBad,
                Acknowledged, Chatter, HandlerStep, FlashStep, DeviceStep
  <2> QED BY <2>1 DEF FlashedAtBoot
<1> QED BY <1>1, <1>2, <1>3

LEMMA StoredStep ==
  ASSUME SingleBank, PlaceInv, StoredInv, [Next]_vars
  PROVE  StoredInv'
BY ViewStep, MeantStep, FlashedStep DEF StoredInv

LEMMA StoredInit == ASSUME SingleBank, Init PROVE StoredInv
<1> DEFINE zero == [blk |-> 0, pg |-> 0, off |-> 0]
<1>1. /\ mem \in Contents /\ wel = FALSE /\ wip = FALSE /\ frame = <<>> /\ col = 0
      /\ buf = [o \in 0 .. PageSize - 1 |-> Flash!Erased] /\ state = "IDLE"
      /\ addr_latch = zero /\ data_latch = 0 /\ current_block = 0 /\ block_valid = FALSE
      /\ current_page = <<0, 0>> /\ addr_count = 0 /\ wren_target = "ERASE"
      /\ poll_return = "WREN_ERASE" /\ has_next = FALSE /\ status = FALSE /\ qi = <<>>
  BY DEF Init, Flash!DeviceInit, Flash!FsmInit, Flash!EmptyBuf, Flash!AddrZero
<1>2. /\ fifo = <<>> /\ acked = 0 /\ flushing = FALSE /\ pending = FALSE /\ booted = FALSE
      /\ stage = "none" /\ image = <<>> /\ dfu_state = "dfuIDLE" /\ area_sel = 0
  BY DEF Init, DfuInit
<1>3. Shown = 0 /\ UpFlush = FALSE BY <1>2 DEF Shown, UpFlush
<1>4. UpSent = {} /\ UpImage = [a \in Flash!Addr |-> Flash!Erased]
  <2>1. Base \in Nat BY <1>2, DfuAssumption DEF Base, SingleBank
  <2>2. UpSent = {} BY <1>3, <2>1, AddressNumbered DEF UpSent
  <2> QED BY <2>2 DEF UpImage
<1>5. Upload!TypeOK
  <2>1. /\ 0 \in 0 .. Blocks - 1 /\ 0 \in 0 .. Pages - 1 /\ 0 \in 0 .. PageSize - 1
        /\ 0 \in Byte /\ Flash!Erased \in Byte
    BY Given DEF Flash!Erased, Upload!Erased
  <2>2. UpW \in [valid : BOOLEAN, addr : Upload!Addr, data : Byte]
    <3>1. UpW = [valid |-> FALSE, addr |-> FlashAddr(0), data |-> Flash!Erased]
      BY <1>2, <1>3 DEF UpW
    <3>2. FlashAddr(0) \in Upload!Addr
      BY NumberAddressed, DfuAssumption DEF Upload!Addr, Flash!Addr
    <3> QED BY <2>1, <3>1, <3>2
  <2>3. UpImage \in [Upload!Addr -> Byte] /\ UpSent \subseteq Upload!Addr
    BY <1>4, <2>1 DEF Upload!Addr, Flash!Addr
  <2>4. Upload!DeviceTypeOK
    <3>1. mem \in [Upload!Addr -> Byte] BY <1>1, Given
    <3>2. buf \in [0 .. PageSize - 1 -> Byte] BY <1>1, <2>1
    <3>3. frame \in Seq(Byte) /\ Len(frame) <= 4 BY <1>1
    <3> QED BY <1>1, <2>1, <3>1, <3>2, <3>3 DEF Upload!DeviceTypeOK
  <2>5. Upload!FsmTypeOK
    <3>1. addr_latch \in Upload!Addr BY <1>1, <2>1 DEF Upload!Addr
    <3>2. state \in Upload!States BY <1>1 DEF Upload!States
    <3>3. qi \in Seq(BOOLEAN) BY <1>1
    <3>4. current_page \in (0 .. Blocks - 1) \X (0 .. Pages - 1) BY <1>1, <2>1
    <3>5. data_latch \in Byte /\ current_block \in 0 .. Blocks - 1 /\ addr_count \in 0 .. 2
      BY <1>1, <2>1
    <3>6. block_valid \in BOOLEAN /\ has_next \in BOOLEAN /\ status \in BOOLEAN BY <1>1
    <3>7. /\ wren_target \in {"ERASE", "WRITE"}
          /\ poll_return \in {"WREN_ERASE", "WREN_WRITE", "IDLE"}
      BY <1>1
    <3> QED
      BY ONLY <3>1, <3>2, <3>3, <3>4, <3>5, <3>6, <3>7 DEF Upload!FsmTypeOK
  <2> QED BY <1>3, <2>2, <2>3, <2>4, <2>5 DEF Upload!TypeOK
<1>6. Upload!ProtocolInv
  BY <1>1, <1>5
     DEF Upload!ProtocolInv, Upload!FrameShape, Upload!NotBusy, Upload!LatchSet, Upload!OneReply,
         Upload!AtBoundary, Upload!Addressed, Upload!Enabled, Upload!PollStates
<1>7. state = "IDLE" /\ ~block_valid /\ ~UpW.valid /\ buf = Upload!EmptyBuf
  BY <1>1, <1>2 DEF UpW, Upload!EmptyBuf, Upload!Erased, Flash!Erased
<1>8. Upload!Accepted = {} BY <1>4 DEF Upload!Accepted
<1>9. ~Upload!LatchLive /\ ~Upload!EraseDue
  BY <1>7 DEF Upload!LatchLive, Upload!EraseDue, Upload!Polling
<1>10. Upload!PortHolds
  BY <1>4, <1>7 DEF Upload!PortHolds, Flash!Erased, Upload!Erased, Flash!Addr, Upload!Addr
<1>11. Upload!Closes BY <1>7, <1>8 DEF Upload!Closes
<1>12. Upload!LatchHolds BY <1>7, <1>9 DEF Upload!LatchHolds
<1>13. Upload!FrameAddressed /\ Upload!PageHolds
  BY <1>7 DEF Upload!FrameAddressed, Upload!PageHolds, Upload!Addressed
<1>14. Upload!BufHolds BY <1>7 DEF Upload!BufHolds, Upload!InOpen, Upload!Addressed
<1>15. Upload!MemHolds BY <1>8 DEF Upload!MemHolds, Upload!Touched
<1>16. Upload!StoreInv BY <1>10, <1>11, <1>12, <1>13, <1>14, <1>15 DEF Upload!StoreInv
<1>17. LastLatched /\ FlashedAtBoot BY <1>2, <1>3 DEF LastLatched, FlashedAtBoot
<1>18. FlushMeant BY <1>2 DEF FlushMeant, Downloading, Sending
<1> QED BY <1>6, <1>16, <1>17, <1>18 DEF StoredInv

\* The device reboots into what has been downloaded: every block the image touches holds the
\* image and nothing else, for every geometry, image, FIFO depth, packet and transfer size, and
\* however the handler, the FIFO, the flash FSM and the device's writes interleave.
THEOREM DownloadFlashed == ASSUME SingleBank PROVE Spec => []FlashedAtBoot
<1>1. Init => PlaceInv /\ StoredInv BY InitHolds, StoredInit
<1>2. PlaceInv /\ StoredInv /\ [Next]_vars => PlaceInv' /\ StoredInv'
  BY PlaceStep, StoredStep
<1>3. StoredInv => FlashedAtBoot BY DEF StoredInv
<1> QED BY <1>1, <1>2, <1>3, PTL DEF Spec

=============================================================================
