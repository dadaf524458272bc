----------------------------- MODULE MscUpload ------------------------------
(***************************************************************************)
(* The Mass Storage datapath of backends/uf2_msc.py end to end: a host     *)
(* that writes a UF2 file, SCSIHandler, UF2Decoder, the QspiFlash backing  *)
(* on its device, and the warm boot that the backing's `arm` calls for.    *)
(*                                                                         *)
(* The parts are wired as Uf2MscBackend.build wires them: payload bytes    *)
(* and the flash port are one handshake, `done` is the port's flush, the   *)
(* command dispatch clears the decoder.                                    *)
(***************************************************************************)
EXTENDS SCSIHandler, UF2Decoder

CONSTANTS
  Blocks, Pages, PageSize, Byte, BitAnd(_, _), Contents,  \* the flash
  Files,      \* UF2 files: sequences of sectors, in the order they are written
  Strays,     \* sectors of the file system itself
  MaxExtra,   \* bound: commands that are not part of the file
  MaxResets   \* bound: USB bus resets

VARIABLES
  mem, wel, wip, frame, buf, col,
  state, addr_latch, data_latch, current_block, block_valid, current_page,
  addr_count, wren_target, poll_return, has_next, status, qi,
  pending, booted,      \* Warmboot
  host,                 \* "idle", "data_out", "status", "failed"
  file, written,        \* the file, and how many of its sectors have been sent
  data, chunk,          \* what the command still has to send; its file sectors
  extra, resets         \* counters for the two bounds

host_vars == <<host, file, written, data, chunk, extra, resets>>

BlockSize == Pages * PageSize

FlashAddr(n) ==
  [blk |-> n \div BlockSize, pg |-> (n \div PageSize) % Pages, off |-> n % PageSize]

\* The write port: valid only while the decoder passes a payload byte on.
PortW ==
  [valid |-> Emitting /\ Forwarded,
   addr  |-> FlashAddr(target_addr),
   data  |-> IF rx = <<>> THEN 0 ELSE Head(rx)]

Flash == INSTANCE QspiFlash WITH w <- PortW, flush <- done

flash_fsm == <<state, addr_latch, data_latch, current_block, block_valid, current_page,
               addr_count, wren_target, poll_return, has_next, status, qi>>
flash     == <<mem, wel, wip, frame, buf, col, flash_fsm>>
vars  == <<scsi, uf2, flash, pending, booted, host_vars>>

ASSUME UploadAssumption ==
  /\ AddrSpace = Blocks * BlockSize
  /\ base_addr % BlockSize = 0
  /\ \A f \in Files : f \in Seq([1 .. SectorLen -> Word])
  /\ MaxExtra \in Nat /\ MaxResets \in Nat

ASSUME FlashAssumption ==
  /\ Flash!GeometryAssumption /\ Flash!ByteAssumption /\ Flash!AndAssumption
  /\ Contents \subseteq [Flash!Addr -> Byte]

Init ==
  /\ ScsiInit /\ UF2Init
  /\ Flash!DeviceInit(Contents) /\ Flash!FsmInit
  /\ pending = FALSE /\ booted = FALSE
  /\ host = "idle" /\ file \in Files /\ written = 0
  /\ data = <<>> /\ chunk = 0
  /\ extra = 0 /\ resets = 0

-----------------------------------------------------------------------------
(* The host: one command at a time. *)

Issue(op, length, lba) ==
  /\ host = "idle" /\ rx = <<>>
  /\ rx' = <<CBW_SIGNATURE, 0, length, op, lba>>
  /\ UNCHANGED <<scsi_state, scsi_regs, ghost, in_ep, uf2, flash, pending, booted,
                 file, written, resets>>

\* The next n sectors of the file, as one stream of tokens.
Stream(n) ==
  [k \in 1 .. n * SectorLen |->
     file[written + 1 + (k - 1) \div SectorLen][1 + ((k - 1) % SectorLen)]]

WriteFile(n) ==
  /\ written + n <= Len(file)
  /\ Issue(OP_WRITE_10, n * SectorLen, 0)
  /\ data' = Stream(n) /\ chunk' = n
  /\ host' = "data_out"
  /\ UNCHANGED extra

WriteStray(s, lba) ==
  /\ extra < MaxExtra
  /\ Issue(OP_WRITE_10, SectorLen, lba)
  /\ data' = s /\ chunk' = 0
  /\ host' = "data_out"
  /\ extra' = extra + 1

TestUnitReady ==
  /\ extra < MaxExtra
  /\ Issue(OP_TEST_UNIT_READY, 0, 0)
  /\ host' = "status"
  /\ extra' = extra + 1
  /\ UNCHANGED <<data, chunk>>

\* A packet at a time; the endpoint's buffer has room for two.
SendPacket ==
  /\ host = "data_out" /\ Len(rx) <= MaxPacket
  /\ LET n == IF Len(data) < MaxPacket THEN Len(data) ELSE MaxPacket
     IN /\ rx' = rx \o SubSeq(data, 1, n)
        /\ data' = SubSeq(data, n + 1, Len(data))
  /\ IF data' = <<>>
       THEN host' = "status" /\ written' = written + chunk
       ELSE UNCHANGED <<host, written>>
  /\ UNCHANGED <<scsi_state, scsi_regs, ghost, in_ep, uf2, flash, pending, booted,
                 file, chunk, extra, resets>>

\* A failed status ends the copy.
TakeStatus ==
  /\ host = "status" /\ packets # <<>>
  /\ packets' = Tail(packets)
  /\ host' = IF Head(packets)[1][4] THEN "failed" ELSE "idle"
  /\ UNCHANGED <<scsi_state, scsi_regs, ghost, rx, fill, uf2, flash, pending, booted,
                 file, written, data, chunk, extra, resets>>

HostStep == SendPacket \/ TakeStatus

Start ==
  \/ \E n \in {1, Len(file)} : WriteFile(n)
  \/ \E s \in Strays, lba \in {0, BlockCount} : WriteStray(s, lba)
  \/ TestUnitReady

-----------------------------------------------------------------------------
(* The gateware. Warmboot latches `arm` on every clock. *)

\* Bug: the request is not latched.
TickLevel == pending' = done

Tick == pending' = (pending \/ done)

\* Scheduling assumption: the FSM gets through the octets it can send before
\* the next sector or command reaches the decoder, if the device is not busy.
\* An octet is some tens of clocks; a sector's padding alone is more.
Settled ==
  \/ wip
  \/ state = "IDLE"
  \/ state = "WRITE_NEXT" /\ ~PortW.valid /\ ~done

\* A byte of write data that stays in the decoder, or that a failed command drops.
DecodeByte ==
  /\ Forwarded
  /\ uf2_state = "HEADER" /\ byte_count = 0 => Settled
  /\ LET t == Head(rx) IN Header(t) \/ Pad(t) \/ Final(t) \/ Discard(t)
  /\ ReceiveWriteData
  /\ UNCHANGED flash

StoreByte ==
  /\ Forwarded
  /\ Data(Head(rx))
  /\ ReceiveWriteData
  /\ Flash!TakesByte

DropByte == ReceiveWriteData /\ ~Forwarded /\ UNCHANGED <<uf2, flash>>

DispatchAndClear == Settled /\ Dispatch /\ Clear /\ UNCHANGED flash

Gateware ==
  /\ \/ ScsiAlone /\ UNCHANGED <<uf2, flash>>
     \/ SendCswPrep(error) /\ UNCHANGED <<uf2, flash>>
     \/ DispatchAndClear
     \/ DecodeByte \/ StoreByte \/ DropByte
     \/ DataEnd /\ UNCHANGED <<scsi, flash>>
     \/ Flash!WorksAlone /\ UNCHANGED <<scsi, uf2>>
  /\ Tick
  /\ UNCHANGED <<booted, host_vars>>

DeviceStep == Flash!WriteEnds /\ UNCHANGED <<scsi, uf2, flash_fsm, pending, booted, host_vars>>

\* Bug: a write to the flash does not count as activity.
QuietUsbOnly ==
  /\ rx = <<>>
  /\ scsi_state \in {"RECEIVE_CBW", "HALT", "RECEIVE_WRITE_DATA"}

\* No activity for the whole idle window: nothing the gateware could still do.
\* A poll toggles the bus, so a busy device is activity.
Quiet ==
  /\ rx = <<>>
  /\ scsi_state \in {"RECEIVE_CBW", "HALT", "RECEIVE_WRITE_DATA"}
  /\ state = "IDLE" \/ (state = "WRITE_NEXT" /\ ~done)

Boot ==
  /\ pending /\ Quiet
  /\ booted' = TRUE
  /\ UNCHANGED <<scsi, uf2, flash, pending, host_vars>>

-----------------------------------------------------------------------------
(* A bus reset: SCSIHandler, QspiFlash and Warmboot are reset, the decoder is
   cleared, the endpoints are emptied. The host starts the copy again. *)

\* Scheduling assumption: what is in the endpoint is decoded, up to a byte that
\* waits for the flash, in less time than a bus reset takes to be detected.
Drained == rx = <<>> \/ (PortW.valid /\ state \notin {"IDLE", "WRITE_NEXT"})

\* Bug: the decoder is not cleared.
BusResetKeepsDone ==
  /\ resets < MaxResets /\ Drained
  /\ resets' = resets + 1
  /\ ResetScsi
  /\ rx' = <<>> /\ fill' = <<>> /\ packets' = <<>>
  /\ Flash!ResetFsm
  /\ pending' = FALSE
  /\ host' = "idle" /\ written' = 0 /\ data' = <<>> /\ chunk' = 0
  /\ UNCHANGED <<uf2, booted, file, extra>>

BusReset ==
  /\ resets < MaxResets /\ Drained
  /\ resets' = resets + 1
  /\ ResetScsi
  /\ rx' = <<>> /\ fill' = <<>> /\ packets' = <<>>
  /\ Flash!ResetFsm
  /\ Clear
  /\ pending' = FALSE
  /\ host' = "idle" /\ written' = 0 /\ data' = <<>> /\ chunk' = 0
  /\ UNCHANGED <<booted, file, extra>>

-----------------------------------------------------------------------------
Next == ~booted /\ (Gateware \/ DeviceStep \/ Boot \/ HostStep \/ Start \/ BusReset)

\* Clocks run, internal writes end, and a host sees a command through.
Fairness ==
  /\ WF_vars(~booted /\ Gateware)
  /\ WF_vars(~booted /\ DeviceStep)
  /\ WF_vars(~booted /\ Boot)
  /\ WF_vars(~booted /\ HostStep)

Spec == Init /\ [][Next]_vars /\ Fairness

-----------------------------------------------------------------------------

\* The image a file describes: block k's payload bytes at its addresses.
Holds(f, k, n, b) ==
  LET at == f[k][4] + base_addr
  IN n \in at .. at + f[k][5] - 1 /\ b = f[k][HeaderLen + 1 + n - at]

ImageBlocks(f) ==
  {n \div BlockSize : n \in {m \in 0 .. AddrSpace - 1 : \E k \in DOMAIN f, b \in Byte : Holds(f, k, m, b)}}

IsImage(f, n, b) ==
  IF \E k \in DOMAIN f, c \in Byte : Holds(f, k, n, c)
    THEN \E k \in DOMAIN f : Holds(f, k, n, b)
    ELSE b = Flash!Erased

\* When the device reboots, every flash block the file touches holds the file's
\* image and nothing else, and no program or erase is still running: the
\* status, the flush and the reboot are never ahead of the data. (A bus reset
\* leaves the decoder out of step with the sectors: see UF2Transfer's AbortSpec.)
FlashedAtBoot ==
  booted /\ resets = 0 =>
    /\ ~wip
    /\ \A n \in 0 .. AddrSpace - 1 :
         n \div BlockSize \in ImageBlocks(file) => IsImage(file, n, mem[FlashAddr(n)])

\* A file whose every sector has been taken with a good status makes the device
\* reboot, whatever commands come after it.
Reboots ==
  written = Len(file) /\ host = "idle" /\ resets = 0 ~> booted \/ resets > 0

\* The device reboots only for a file that has been written to its last block,
\* and that block ended well. A bus reset takes a reboot back: the file has to be
\* written again (uf2_msc.py's reason for clearing `done` there).
BootsAfterUpload ==
  booted => written = Len(file) /\ file[Len(file)][SectorLen] = MAGIC_END

\* The flash below the slot, where the bootloader itself lives, is not written,
\* not even by an upload that a bus reset cuts short.
LoaderUntouched ==
  [][\A n \in 0 .. base_addr - 1 : mem'[FlashAddr(n)] = mem[FlashAddr(n)]]_vars

=============================================================================
