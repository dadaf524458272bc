# A verification project for the TinyFPGA bootloader gateware

The repository is a USB bootloader written in Amaranth HDL for iCE40 and ECP5
boards. A host writes a new FPGA image over USB (a UF2 file on a Mass Storage
disk, a DFU download, or raw SPI through a serial port), the gateware puts it
into the SPI flash (or, on one board, into a PSRAM on the same bus), and then
the FPGA reloads itself from it. The modules here model that gateware as state
machines, at the level of octets and handshakes, and of clock cycles where
properties depend on them.

Source paths below are relative to the repository root; a path that starts
with `blocks/` or `backends/` is under `src/gateware/`.

## 1. Inventory

| Part | State | Operations | Talks to |
|---|---|---|---|
| Reload trigger: `blocks/boot/warmboot.py`, `reconfigure.py` | pending latch, idle counter, PHY hold | arm, count, fire; cancelled by a bus reset | armed by the backend or by the boot FSM |
| `QspiFlash`: `blocks/qspi/flash.py` | FSM, latched byte, current block and page, status | take a byte, erase, program, poll, close on flush | flash port in, QSPI controller out |
| `UF2Decoder`: `blocks/storage/uf2.py` | FSM, byte count, header fields, done, error | consume a byte; clear | SCSI write data in, flash port out |
| `SCSIHandler` + `GhostFAT`: `blocks/storage/scsi.py`, `ghostfat.py` | FSM, command block, counters, status | command, data in or out, status | bulk endpoints, decoder |
| `Uf2MscBackend`: `backends/uf2_msc.py` | wiring only | resets, status, reload request | all of the above |
| `DFUHandler`, `DfuBackend`: `blocks/usb/dfu.py`, `backends/dfu.py` | FIFO, DFU state, address, flush latch | DNLOAD, GETSTATUS, SET_INTERFACE | control endpoint, flash port |
| Dual bank: `blocks/qspi/ram.py`, `blocks/boot/dual_bank.py`, `boot_header.py`, `dual_bank_writer.py` | bank, tCEM counter, header-done flag, three FSMs | route to FLASH or PSRAM, ensure the header, burst, arm | flash port, QSPI bus, a flip-flop outside the FPGA |
| Arbiters, `CompositeBackend`: `blocks/qspi/arbiter.py`, `backends/composite.py` | grant, idle count | grant, hold, release | two writers on a port, two participants on the bus |
| `SpiBridge`, serial backend: `blocks/qspi/spi_bridge.py`, `backends/serial_bridge.py` | command header, byte counts | raw SPI over CDC | bulk endpoints, QSPI bus |
| `VendorSpiHandler`: `blocks/usb/vendor_spi.py` | staging buffers, two FSMs | EXEC, RESULT | control endpoint, QSPI bus through the mux of `top.py` |
| Boot FSM: `top.py`, `flash_wake.py`, `blocks/serial/`, `staysource/` | selected client, client FSMs | wake, read the serial number, decide, connect or reboot | QSPI bus, reload trigger |
| Serial number: `blocks/usb/serial_handler.py`, `json_key_parser.py`, `hex_encoder.py` | buffer, positions | scan, encode, send a descriptor | control endpoint |
| QSPI controller: `blocks/qspi/controller.py`, `iostream.py` | divisor timer, pipeline, skid buffer, octet registers | octet to pin frames and back | the pins |

All of it runs in one clock domain, so the concurrency is that of FSMs
stepping together and stalling each other through valid/ready pairs; what is
asynchronous is the host (any command at any time, or none), the flash (an
erase takes as long as it takes) and the USB bus reset, which strikes in any
state and reaches some of the FSMs and not others. That last asymmetry is
where many of the hazards in `PROJECT.json` come from:

| On a bus reset | |
|---|---|
| reset completely | `SCSIHandler`, `QspiFlash`, the reload trigger, the endpoints |
| partly cleared | `UF2Decoder` (done and error), `DualBankWriter` (header_done) |
| untouched | `DFUHandler` and its FIFO, `DfuBackend`'s flush latch, `QspiRam`, `BootHeader`, the QSPI controller, the device |

What makes each part correct, in a line:

* flash: after a flushed upload the touched blocks hold the image and nothing
  else; the device is never given a command it will ignore;
* decoder: exactly the payloads of main-flash blocks come out, at their
  addresses; done and error describe the sectors since the last clear;
* handler: each byte and each status the host reads belongs to its command,
  and every command is answered;
* DFU: every octet of a download is written once, in order and to its place;
* dual bank: every octet goes to the chip it is meant for, the PSRAM is never
  selected longer than it may be, and no reload into the PSRAM happens without
  the boot header in the flash;
* bus: a chip-select frame is one participant's, and what a host reads back is
  what its own operation read;
* boot: each client's command is a frame of its own, and the device goes to
  the application exactly when there is one and nothing asks it to stay;
* reload: never before the flash is complete, never without a complete upload,
  never for activity before the decision, always in the end.

## 2. Modules

    SpiFlash ─┬─ QspiFlash ─┬─ FlashUpload ─── FlashUploadStore (refines ImageStore)
              │             │    FlashStoreProofs
              │             ├─ DfuUpload  (= DFUHandler + QspiFlash + warm boot)
              │             │    DfuUploadProofs
              │             ├─ MscUpload  (= SCSIHandler + UF2Decoder + QspiFlash + warm boot)
              │             │    MscUploadProofs
              │             ├─ QspiBus    (= QspiFlash + SpiBridge + VendorSpi + arbiters)
              │             │    QspiBusProofs
              ├─ QspiRam ───┴─ DualBankWriter (= QspiFlash + QspiRam + BootHeader + routing)
              └─ BootHeader      DualBankProofs
    UF2Decoder ─── UF2Transfer ─── UF2TransferProofs
    SCSIHandler ── ScsiTransport ─ ScsiTransportProofs
    QspiController ── BootClients ── BootSequence (= BootClients + SerialNumber + top.py)
    BootSequence, Reconfigure ── BootProofs

An `MC` module holds the instances for TLC of each module a run names;
`Reconfigure` needs none. Models that are part of more than one composition
leave out of their variables what their driver owns (the port of `QspiFlash`,
the endpoints of the bridges): their actions read it, and whoever composes them
says how it changes.

### Flash

**SpiFlash** is the device as `src/tests/sim/cocotb_tests/spi_flash_model.py`
executes it, an octet at a time: `ShiftIn` with chip select low,
`ChipSelectRise` executes the frame, `WriteEnds` is the end of the internal
erase or program. Programming is a bitwise AND, so that a byte programmed into
a cell that was not erased shows. Unlike the simulation's model, the time an
erase takes is arbitrary. The numbers of blocks, pages and bytes are constants.

**QspiFlash** has one action for each FSM state of `flash.py`; a state that
sends is taken when the controller accepts its octet. `ResetFsm` is the
ResetInserter of `create_backing`: it does not touch the device and does not
release chip select. An octet cut in two by the reset is taken as sent or as
not begun; in the gateware the bits of the next octet complete it.

**FlashUpload** puts a writer on the port. Its contract, `MayFollow`, is what
the code relies on without saying so: within a page, bytes come in address
order without gaps, and a block is not come back to. The next byte may be on the
port in the cycle after one is taken, and the flush may rise while a byte still
waits; `Flushed` is a flush the FSM has come to the end of. What a writer does
(`Put`, `Finish`) is kept apart from the bounds of the instance (`Count`), so
that a module with another writer can use the theorems. **ImageStore** is the
promise, without opcodes or polls: accept bytes, erase a block once, overwrite
a page at a time. **FlashUploadStore** gives the mapping: the latched byte and
the open page buffer are what has been accepted and not stored.

### From the host to the flash

**UF2Decoder** has one action for each FSM state of `uf2.py`. The decoder acts
on the last byte of each four-byte header word and of the end magic, so a word
is one token, and a payload or padding byte is one token: a 512-byte sector is
8 + Room + 1 tokens, and the byte counts in the code become positions in it.
**UF2Transfer** feeds it sectors and states what the format says of each
(`Payload`, `BadEnd`, `Ends`). `AbortSpec` adds a bus reset in mid-sector.

**SCSIHandler** has one action for each FSM state of `scsi.py`; a command block
is its five fields that the handler reads, a data byte is a token naming the
answer or sector and the position in it, the status is one token. The IN
endpoint (LUNA's, external) collects a packet and hands it over when it is full
or its last byte is in. **ScsiTransport** adds the host of the Bulk-Only
Transport, bus resets and Mass Storage resets.

**MscUpload** wires the three as `Uf2MscBackend.build` does: the payload byte,
the decoder's output and the flash port are one handshake (`StoreByte`), `done`
is the port's flush, the dispatch of a command clears the decoder. The reload
trigger is its pending latch and the firing condition `Quiet`.

**DFUHandler** has the handler's FSM, its FIFO and address counter, and
DfuBackend's flush latch. The one-cycle strobes between them (`new_request`,
`manifest`, `download_start`) are one step with the decoding of a request, since
they follow each other long before a data packet can. DISPATCH has no exit for
a request it does not know, and the model keeps it there too. **DfuUpload** adds
the host (blocks, polls, damaged packets, requests to others), the flash FSM on
the port, and the reload. `ResetSpec` adds the bus reset, which reaches neither
the handler nor its FIFO nor the latch.

**Reconfigure** is cycle-accurate; its inputs are unconstrained.

### Two banks

**QspiRam** is the PSRAM writer with DualBank's counter, and with it what is
outside the FPGA: the flip-flop that takes the bank over on every rising edge of
chip select, and a PSRAM that knows its own mode (SPI or QPI) and reads a frame
in it. Fourteen of its states only send an octet, pulse or release chip select;
they are rows of tables. Time is counted, an octet taking `OctetCycles`, and
`open_for` is how long the PSRAM has really been selected, against which the
code's own counter is judged. **BootHeader** reads the header of the slot back,
erases its sector and programs it when it differs. **DualBankWriter** has the
three behind one port and one bus, the header FSM, the routing, and the bus
reset's `clear`. The history variable `unchecked` tells whether an upload has put
bytes on the FLASH since BootHeader last saw the header there.

### One bus

**SpiBridge** is the serial bridge: a command octet, two lengths, octets out,
octets back; the endpoints are buffers of one octet. **VendorSpi** is the EP0
sequencer and the SPI sequencer with the staging buffer between them, and the
packets of RESULT. **QspiBus** puts both on the bus with a flash FSM and its two
writers: `Arbiter` between the writers, `HoldArbiter` cycle by cycle between the
flash and the serial bridge, and the mux of `top.py`, which lets the vendor
bridge in before both. `owners` records who has sent an octet in the frame that
is open on the wire.

### Boot

**QspiController** is `controller.py` and `iostream.py` a clock cycle at a time,
per bit: the divisor, the pipeline of pending samples, the skid buffer, the
octet assembled from them. **BootClients** has the five clients of the boot
sequence (FlashWake, FlashUID, SecurityPage, NoValidApp, WriteEnable), each FSM
state by state. **SerialNumber** is the hex encoder, the scanner for the JSON
key, the buffer and the string descriptor. **BootSequence** connects them as the
FSM of `top.py` does, for each of the boards the repository builds, and has the
flash at the pins, which answers each bit with one labelled by the frame and the
place it was read at. `Bootable`, `SerialOfPage` and `SerialOfFlash` are
reference definitions: what the device should do and say, read off the contents
of the flash without any FSM.

## 3. Runs

| Run | Expect | Bounds | Shows |
|---|---|---|---|
| `flash_store` | pass, 587 000 states | 2 blocks × 2 pages × 2 bytes, 2 uploads of up to 3 bytes | the flash holds the image; refinement of ImageStore; no command wasted; a flush ends |
| `flash_bus_reset` | violation | 1 upload, 1 reset | an open frame survives the reset |
| `reconfigure` | pass, 350 states | idle window 4, PHY reset 3 | the reload waits for quiet, and comes |
| `uf2_sectors` | pass, 44 000 states | room for 4 payload bytes; every sector kind in any order, no bound on their number | payload delivered, status right |
| `uf2_abort` | violation | resets in mid-sector | the decoder keeps its place |
| `scsi_commands` | pass, 170 000 states | packets of 2, sectors of 4, 2 blocks, 14 commands, no bound on their number | every answer is the command's own |
| `msc_upload` | pass, 400 000 states | two-block files in one or two erase blocks, 1 stray command, 1 bus reset | from the host's write to the reboot |
| `msc_lost_flush` | violation | the same, last byte first of its page | a flush withdrawn before it is seen |
| `dfu_upload` | pass, 12 000 states | FIFO of 4, blocks of 2, packets of 1, images of 3 and 6 over two erase blocks, 2 downloads | every octet at its place, from the FIFO to the reboot |
| `dual_bank` | pass, 563 000 states | 2 blocks × 2 pages × 2 bytes, header of 2, 2 uploads of up to 3 bytes, 1 bus reset; threshold 6, tCEM 9 octet times | every octet to its chip, tCEM kept, header before the PSRAM's reload |
| `qspi_bus` | pass, 53 000 states | flash of 1 page of 2, hold of 2 cycles, 4 operations of 11 kinds | a frame has one owner; each operation gets its own octets and ends |
| `boot_sequence` | pass, 120 000 states | 5 boards, divisor 4, latency 4, octets of 2 bits, probes and pages of 4 and 10 octets | the frames, the replies, the decision and the serial number |

Why these bounds are enough.

*Flash.* Three bytes over two-byte pages and two blocks give every pair of
consecutive bytes the code distinguishes: same page, next page, another page of
the block, another block; the second upload makes what is left from the first
one visible.

*Decoder and handler.* Four payload bytes give a payload that is empty, partial
and one short of the room. Packets of two bytes and sectors of four give answers
that end inside a packet, at its end, and in a following sector. One reset is
enough for `msc_upload`, since after it the host starts over and every register
the reset reaches is at its initial value.

*DFU.* A FIFO of two transfers, each of two packets, is what the gateware has,
but for the scale; three octets end inside a page, six fill pages and cross a
block.

*Dual bank.* The threshold is the least for which the opening of a burst (five
octets) is below it, so a burst is cut after every few bytes, with the next one
waiting or not, in sequence or not, or with the flush up. tCEM leaves no slack
over the threshold, one octet and the close. The flash is one whose slot holds
the header, half of it, or old firmware to be erased; the PSRAM is found in
either mode. The two uploads are both to the FLASH, or the last is to the PSRAM:
behind one to the PSRAM the model has no other, the reload being armed by then.
The bank changes before the first upload and between the two, also there and
back with nothing sent.

*Bus.* A read of three octets over packets of two, a write with a read, an empty
transaction, a stray octet, and an upload by each of the writers; four operations
give every pair in both orders with one before and one after. The host pauses
between any two octets for as long as it likes, so the hold time of two cycles
runs out in some behaviours and not in others.

*Boot.* Divisor and latency are the ones of `top.py`, since the margins depend
on them; what is scaled is the data. The slot has the sync word after a false
start, over the end of the probe, and after the poison word; the page has a
broken key before the key, a value without its end, and no key. Every board of
the repository differs in one of the fields of `MCBoards`. The lengths a host
asks for end before, inside and after the descriptor and at a packet's end.

A `violation` run is a disagreement between the code and what the repository
says of it; `findings` in `PROJECT.json` quotes the sentence. Five more
configurations, which no run names, show disagreements of the same kind. TLC
finds each in a few seconds; what they show is also in the hazards:

| Configuration | Invariant | What happens | What the repository says |
|---|---|---|---|
| `MCUF2TransferFull.cfg` | `SectorDelivered` | PAD ends behind byte 507 only, which a payload of the whole room has passed: the end magic and all of the next sector but its end magic are taken for padding, and that sector's payload is lost | `test_bootloader.py:206`: `assert len(payload) <= 476` |
| `MCScsiTransportPadded.cfg` | `DataAnswersCommand` | INQUIRY for 5 of 3 bytes: zeros and the status share a packet | `test_bootloader.py:467-468` |
| `MCDfuUploadReset.cfg` | `ResetCancelsReload` | the flush latch arms the reload again after the bus reset | `top.py:289`: "A bus reset cancels a pending reload" |
| `MCQspiBusShared.cfg` | `OneOwner` | two functions at a time: the grant or the mux changes hands inside a frame | `top.py:376-378`: "the two are never busy at once"; `composite.py:107`: "the grant should survive gaps" |
| `MCDualBankStale.cfg` | `HeaderEnsured` | header_done outlives the header, which an upload to the flash overwrites | `dual_bank_writer.py:59`: "Before the first RAM byte, ensure the FLASH slot holds the boot header" |

(`test_bootloader.py` is `src/tests/sim/cocotb_tests/test_bootloader.py`.)

Two configurations go with the theorems on several functions at once (section 5)
and pass: `MCQspiBusGrant.cfg`, the action property `GrantHeld` under
`SharedSpec`, and `MCQspiBusKept.cfg`, `OneOwner` when no frame is taken from its
owner.

The passing runs state their properties for the inputs that keep clear of these:
`uf2_sectors` for payloads short of the whole room, `scsi_commands` for answers
that fill whole packets or are cut by their length and that ask for at least a
byte, `msc_upload` for files whose last byte does not open a page, its
`FlashedAtBoot` and `Reboots` for behaviours without a bus reset, `dfu_upload`
likewise, `qspi_bus` for a host that uses one function at a time, and
`dual_bank` its `HeaderAtBoot` unless an upload has put bytes on the FLASH since
BootHeader last looked (`unchecked`), which the writer may do at any time. UF2 files written by the usual tools have
256-byte payloads, which satisfy the first and the third.

## 4. Fairness and timing assumptions

* The FSMs and the device are weakly fair: the clock does not stop, and an
  internal erase or program ends. The code has no timeout on it either.
* A host that has begun a command sees it through (`WF_vars(HostStep)`,
  `HostGoesOn`, `HostReads`); that it issues one, or that it resets the bus, is
  never assumed.
* Every run but `reconfigure`, `uf2_sectors`, `scsi_commands` and
  `boot_sequence` switches deadlock checking off: the writer or the host may
  stop after its last upload, and nothing follows the reboot.
* `MscUpload` abstracts clock counts by two scheduling assumptions.
  `Settled`: the flash FSM sends the octets it can send before the next sector
  or command reaches the decoder, unless the device is busy. An octet takes
  some tens of clocks; the padding of a usual sector is 220 bytes, and a
  command block 31, at one byte in several clocks. `Drained`: what the
  endpoint holds is decoded, up to a byte that waits for the flash, in less
  time than the 2.5 µs a bus reset takes to be detected.
* `DfuUpload`'s host starts a second download once the first one is written
  (`Finished`); nothing in the code makes it wait, and one that did not would
  find its base address in use for what is left in the FIFO. In a download it
  does not pause for a whole idle window. A damaged packet gets across in the
  end (`SF_vars` on `PacketGood`), and polls do not keep the next block away for
  ever (`SF_vars` on `NextBlock`).
* `DualBankWriter` has the bank changed between uploads only, not under
  BootHeader, whose frame the routing would cut off; and a bus reset (`Clear`)
  not while the PSRAM writer is in a burst. With `Clear` anywhere `RamBoots`
  does not hold: `ensuring` holds the port, QspiRam never becomes idle, and the
  header FSM waits for it. This is one of the hazards without a property.
* `QspiBus` has no bus reset. Its host ends an operation when it has what it
  waits for, and takes longer to begin the next than the bridge needs for the
  octets it holds.
* `BootSequence` is cycle-accurate and the device at the pins is as fast as the
  clock. `FlashUID` is done, and `sel` moves on, before its release of chip
  select has been accepted; that the next client does not run on in the same
  frame rests on the number of cycles `divisor` and `latency` give, and the
  margin is one cycle. `FramesMeant` is what would fail.
* `Reconfigure`'s clock runs while a register has something to take in; that an
  input ever changes is not assumed.
* `Quiet` stands for a whole idle window: none of the terms of `activity` can
  become true without the host. The window (600 000 cycles by default) is
  longer than any internal step other than the device's own, and while the
  device is busy the poll keeps the bus, and so `activity`, toggling.

## 5. What is proved

TLAPS checks the following for every value of the constants the named
assumptions allow. In each module one step lemma per action carries an inductive
invariant, and a property that is not inductive is read off it.

*FlashStoreProofs*, from the assumptions on the geometry, on octets and on
the bitwise AND (`BitAnd(255, x) = x` and closure), and on the writer:

* `TypeCorrect`: `Spec => []TypeOK`.
* `ProtocolCorrect`: `Spec => []ProtocolInv`. `CommandReady` is not inductive:
  it speaks of frames and says nothing of how they come about. `ProtocolInv`
  adds, in every FSM state, what the open frame holds (`FrameShape`), that
  outside a poll the device is known to be idle (`NotBusy`), that the write
  enable latch is set from WREN to the end of the frame (`LatchSet`), and that
  the status octet on its way back, if it says idle, still says the truth
  (`OneReply`).
* `CommandsReady`: `Spec => []CommandReady`, from these.
* for the modules that put a writer in front of it: a writer that counts up from
  an address keeps the contract (`SequentialFollows`), by what quotients and
  remainders make of a number that is cut into block, page and offset
  (`CellOfNumber`, `NumberOfCell`).

Its second half is about what is in the array, from the same assumptions.
`FlushedImage` speaks of the state after a flush alone; `StoreInv` says at every
moment where each accepted byte is, in the latch, in the page buffer of the open
program or in the array (`LatchHolds`, `BufHolds`, `MemHolds`), which address
the open frame carries (`FrameAddressed`), and that a block or page a byte waits
to open holds no other byte of the upload, which is what the writer's contract is
for. From `BytesKept` (`Spec => []StoreInv`) follow `ImageFlushed`,
`ErasedBeforeProgram` and `OthersUntouched`: the flash holds the image and
nothing else, no program lands on a cell that was not erased, and no other block
changes. The same module has `StoreImplemented`, `Spec => ImplementsStore`: by
`StoreInv` the refinement mapping can be read off the places of the bytes
(`Mapped`). The step lemmas say that every step but four keeps these places
(`Same`), and so stutters; taking a byte accepts it, the end of an erase frame is
`EraseBlock`, the end of a program frame `StorePage`, the next upload `NewUpload`.

*UF2TransferProofs*, for sectors whose payload leaves room for padding
(`ShortPayloads`, the hypothesis the full sector breaks): `SectorsDelivered` and
`StatusesReported`, by an invariant (`DecoderInv`) that says where in the sector
each FSM state is, what the header registers hold by then and how much of the
payload has come out. The addresses wrap, so it rests on lemmas about remainders.

*DfuUploadProofs*, for one alternate setting and images that end before the
flash does (`SingleBank`): `OctetsPlaced`, `Spec => []DownloadPlaced`. `PlaceInv`
follows a control transfer through its stages: a transfer is begun only with room
in the FIFO for the largest one, a packet that is not acknowledged yet is the
next one whoever has to send it again, and what is in the FIFO is what the
address counter still has to count. `DownloadFlashed` is `Spec => []FlashedAtBoot`.
The handler, its FIFO and the flush latch are seen as one writer on the port of
*FlashStoreProofs*, which is instantiated with the number of octets that have
been on the port (`Shown`), the place of the last of them and a flush that counts
as withdrawn once the next download has begun; each step of the composition is a
step of `FlashUpload` or leaves it alone. `StoredInv` adds to the invariants of
that module that the flash FSM's latch has the last octet's place when the FIFO
runs dry, and that a flush or a pending reload means a download that was ended
(`FlushMeant`). The assumptions are those on the geometry, the octets and the
bitwise AND.

*MscUploadProofs*, at first up to the first bus reset, for files whose blocks leave
padding, come in the order of their addresses and have the block numbered last at
the end, and for stray sectors that are no blocks (`PlainUploads`). A gap between
two blocks has to change the page, since only the first byte of a page's run takes
its address to the device, and the image's last byte may not be alone in its page
(`LongTail`), which leaves out just the case of `msc_lost_flush`. `UploadFlashed` is
`Spec => []FlashedAtBoot`; `UploadBoots` and `UploadInStep` have the condition
`resets = 0` in them. The inductive invariant has three parts. `TransportInv`
follows a command through the host, the endpoint and the handler, and says what is
left of its data. `StreamInv` takes the file as one stream: the tokens to come are
the next ones of the file, and the decoder's state, counters and registers are
those of the tokens it has had of the sector. `StoredInv` sees handler and decoder
as one writer on the port of *FlashStoreProofs* (the bytes taken so far are the
image's first ones, each at its address); it adds that the flash FSM's latch has the
last byte's address once the decoder is past it (`LastLatched`), that a flush or a
latched request means a whole file (`FlushMeant`), and that the flash FSM is still
in WRITE_DATA with the last byte when the flush comes, and is through with it before
a later command takes the flush back (`FlushSeen`).

`LoaderKept` is `Spec => LoaderUntouched` with bus resets in every state: decoder and
endpoint keep their place in a sector that was cut off, and the flash FSM leaves the
frame it was sending open. It is about other inputs than the theorems above:
`SlotUploads` asks neither order nor padding of a file, only that a block's addresses
stay in the 24 bits, that a sector is whole packets with the header in the first, and
that the first magic word is nowhere but at a sector's start, since a decoder out of
step would take it for a header wherever it finds it. The inductive invariant
`LoaderInv` has two halves. `PlaceInv` says what is still to come: the rest of the
command's data are those of the file or the stray sector (`Carried`), a header
once begun is all in the endpoint (`HeaderComes`), and the payload to come has its
place in the slot (`PayloadPlaced`). `FlashInv` says that the flash FSM's latch is in
the slot, and what is in the open frame. The last part is a matter of counting. A frame
cut off after its opcode takes the write enable of the next upload for the first octet
of its address; if a reset hits the FSM in WREN_RELEASE, the frame stays open for
another. Three write enables make the address 0x060606, and the erase is carried
out when the fourth attempt ends the frame. So the theorem has the hypothesis
`ShortOfAddress`: fewer than three bus resets, or block 6 is in the slot, as it is on
the iCE40 boards (slot at 0x40000) and is not on the ECP5 boards (0x200000). TLC
found that sequence when the invariant was checked with three resets.

`UploadBootsAlways` is `Spec => []BootsAfterUpload` with bus resets in every state. A
reset puts the host back to the file's first sector and leaves the decoder where it
is. If that is between two sectors, all is as after the power came up (`InStep`:
`StreamInv` and `FlushMeant`). If not, the place the decoder takes the next token for
and the place it has in its sector (`Place`) are apart, and since both move on by one
with each token, round the same sector length, they stay apart until the next reset
(`OutOfStep`): `done` is never raised there, because the end magic is looked for
where another word comes. `RebootInv` adds to the two cases `PlaceInv` and that the
decoder's state and registers are those of its place in some sector, not necessarily
one of the file (`Coherent`). The last argument needs `EndsApart`, that the end magic
is nowhere but at the end of a sector. Nothing in the UF2 format keeps a payload from
holding that word, and then the property is false. TLC finds it with one reset: an
upload is cut off between two packets of its last block, whose header has been read;
the first packet of the next upload has the magic where the decoder expects the last
word; the device reboots with nothing written since the reset. `UploadBoots`, up to
the first reset, has no such hypothesis. The files and the stray sector of
`msc_upload` satisfy all three: `PlainUploads`, `SlotUploads` and `EndsApart`.

*ScsiTransportProofs*, for commands whose answers fit (`AnswersFit`: packets of
more than one byte, ROM answers inside the ROM's length or of whole packets,
reads of whole sectors, writes of at least a byte, no data phase with an opcode
the handler does not know): `DataAnswered` and `StatusAnswered`, the two
invariants of `scsi_commands`. `ScsiInv` (`AnswersFollow`) says for each state of
the handler how much of the answer the host has, what the endpoint's packet and
buffer still hold of it, and what the counters leave to come, so that nothing of
an aborted command is left where the next one's answer goes.

*DualBankProofs*: `BurstsBounded`, for any threshold, octet time and tCEM that
satisfy `TcemAssumption`, by the relation between the code's counter and the time
really passed in each state (`BurstInv`); `FramesToTheirBank`, by who may be at
work when (`BusInv`). `CommandsReady`, `HeaderKnownAtBoot` and `BankReadyAtBoot`
are about the whole composition, with uploads, banks and resets in any order
the writers' contract allows. `HeaderAtBoot` has its one exception in its
statement, not in `Spec`: an upload to the FLASH behind a stale header_done. It
follows from `KnownInv`, by which header_done, or a PSRAM writer at work, means
the header as long as `unchecked` is FALSE. `WriterInv` puts together who has the port and
the bus (`BusInv`, `PortInv`), the order in which a host goes through an upload
(`OrderInv`, `RestInv`), what is known of the header (`HeaderInv`, `KnownInv`) and
where the bytes of an upload to the PSRAM are (`RamInv`). For an upload to the
FLASH it takes the invariants of *FlashStoreProofs* as they are: that module is
instantiated with the port of the dual-bank writer (`FlashInv`), each step of the
composition while FLASH has the bus is a step of `FlashUpload` or leaves it alone,
and BootHeader's own frames come only when no upload is open.

*QspiBusProofs*: two theorems are about `SharedSpec`, where the host uses as many
functions at once as it likes and the grant is what keeps them apart.
`GrantHeldInFrames`: HoldArbiter takes the grant from a participant with an open
frame only in a pause, in which the flash FSM waits in WRITE_NEXT for the next
byte or the serial bridge for its host; it does so there (arbiter.py:73-78), so
this is a limit to the harm and not its absence. `FramesInv` says in which
states a participant may have a frame open. `OwnersApart`: `OneOwner`
as long as that does not happen (`GivenUp`) and the vendor bridge does not become
active in somebody's frame (`BrokenInto`); there is no third way. `KeptInv`: whoever
has the open frame has the grant, or is the vendor bridge and active.
Both exceptions are needed: with either left out of `KeptSpec`, TLC finds
`OneOwner` violated.

The others are for a host that uses one function at a time. `OwnerInv` ties each
participant to its function: the others rest, and one that rests has closed its
frame. `OneOwner` then holds without the grant (`OwnersInTurn`). `AnswersToOwner`,
`Spec => []AnswersOwn`, for bridge commands as long as their lengths say and
vendor requests that ask for no more than the staging buffer holds
(`CommandsFit`). `AnswersInv` follows a read octet from the bus to the host by the
place it has in the frame, and gives in each state of the bridge what is left of
the command, on the endpoint or with the host. `UploadKept`, `Spec => []UploadWhole`,
also takes bridge commands that do not write to the flash themselves
(`CommandsHarmless`) and the assumptions on the geometry, the octets and the image
(`FlashAssumption`). While an upload is on, its writer seen through the Arbiter is
the writer of *FlashStoreProofs* (`Going`: the octets that have been on the port
are counted, each at the address of its number). Without an upload `FlashApart`
says what the bridges leave behind: a frame they have open begins with no writing
opcode, which follows from what is still to come of the command in each state of
the bridge (`OpcodeHarmless`), the device rests between frames, and the flash FSM
starts the next upload with no block open, so that its first byte erases.

*BootProofs* is about both ends of a session. Its first part is about
`BootSequence`, for any octet width, divider, lengths and settling time, any
contents of the flash and any set of boards. `BootAssumption` has the types, the
flash awake by the time FlashWake gives it, and two words of the same length.
`LatencyAssumption` says what the values in `top.py` satisfy and the code does not
check: a bit is sampled in the middle of its time and must be back after the
octet it ends has been accepted, but before the next bit is sampled. For the
divisor of `top.py`, 4, that is a latency of exactly 4, the one its buffers have.
The argument is by one inductive invariant, `BootInv` (`BootCorrect`):

* the five clients and the FSM of `top.py`, state by state, are one program for
  the controller: how many frames are over, how many octets of the frame at hand
  have been put and got (`Over`, `PutCount`, `GetCount`). Every cycle keeps the
  place in it or takes one octet of it (`ProgramStep`);
* the pins, the frames and the flash follow the program (`PinInv`, `FrameInv`,
  `DeviceInv`): the flash is selected once the bank is, and awake once FlashWake
  has waited;
* at most one bit is on its way back, in the pipeline or the skid buffer, and it
  is the next one (`PipeInv`, `OctetInv`); how far it has come when the octet is
  accepted, or the release is offered, is `BackInv`, in which the margin of
  one cycle that `FlashUID` leaves shows as an equation.

`FramesAsMeant` (`Spec => []FramesMeant`) and `RepliesOfOwn` (`Spec =>
[]RepliesOwn`) follow from it. `DecisionIsRight`, `Spec => []DecisionRight`, needs
`DecideInv` besides: NoValidApp's window is the last octets of the slot that were
taken, and it has found a word exactly if the octets up to there hold it
(`WindowInv`); the status octet is the flash's (`StatusInv`); the button has been
through its synchroniser before the decision (`ButtonInv`).

`DescriptorRead` is the way from the flash to the host: `Spec => [](ShortEnd =>
DescriptorOfFlash)`. `ShortEnd` leaves out the descriptor that fills its last packet,
which is a hazard of this code (31 characters and packets of 64). The other
hypotheses are `TextAssumption`, that the key is quoted and has no quote inside, as in
`json_key_parser.py`, and `SerialAssumption`, that the identifiers have the length
`FlashUID` reads, fit the buffer `serial/source.py` makes for them, and that the host
asks for at least an octet. On top of `BootInv`, by which each octet of the identifier
or the page comes once and in order:

* `SerialInv` says where the scanner and the encoder are after each of them. While
  the scanner looks for the key, `match_pos` is the length of the longest beginning of
  the key that the octets so far end with (`SearchStep`): only the first character of
  the key, and the last, is a quote, so an octet that does not go on with a match can
  at most begin a new one. Afterwards the colon and the two quotes are the first of
  their kind behind what came before (`Place`, a least element: `LeastOf` is the
  well-foundedness of Nat in the library), and the buffer has what lies between, up to
  its length. The encoder has two digits for each octet forwarded (`UidTextStep`).
  `SerialOfFlash` is defined with neither of them.
* `DescriptorInv` says of a request that what the host has had, and then the packet
  being sent, are the first octets of the descriptor, that the handler's position
  is their number, and that every packet before the last is full.

The second part is about `Reconfigure`, from `IdleCycles > 0` alone:
`CountersCorrect` is the inductive invariant that ties each counter to the history
it stands for, and `TypeCorrect`, `WarmbootWaits`, `PullWaits` and `DecisionStands`
follow from it.

Only model-checked: `Reboots` of `msc_upload`; `Boots` of `boot_sequence`;
`CommandAnswered` of `scsi_commands`; `Answered` and `Reboots` of `dfu_upload`;
`RamBoots` of `dual_bank`; `OpsComplete` of `qspi_bus`. These are the liveness
properties, and they stay with TLC: the prover does not reason about ENABLED.
(`FlashedAtBoot` of `msc_upload` says nothing once there was a bus reset.)

## 6. What is not modelled

For good: pins and their half-cycles, clock domains, PLLs and resets of the
platforms, USB descriptors and board definitions, the status LED, the contents of
the GhostFAT image and of the SCSI ROM answers, the bitstream parser of the host
tools. Of `program_security_page.py` there are the transfers it makes, as the
host of the vendor bridge.

Within the modelled parts:

* a bus reset that cuts an octet in two, and bus resets in `QspiBus`;
* reads of a part of a sector, the direction flag of a command block, data
  phases of commands the handler does not know;
* control transfers the host abandons, and the control transfers around the
  Mass Storage class requests; the baud-rate requests of the serial backend;
* a DFU download that changes its area while the FIFO drains: `DfuUpload` has one
  area, `DualBankWriter` a writer that selects a bank between uploads;
* a serial number as long as the string descriptor can hold (31 characters): the
  instance has numbers of up to four;
* UF2 blocks out of order and images that wrap near the top of the 24-bit space.
  `LoaderUntouched` is about files that stay inside the slot. The decoder sets no
  limit to an address.

## 7. Plan

What is left, the most useful first.

1. Bus resets in `QspiBus` and `DualBankWriter` anywhere: an abstract
   specification of what a host may rely on after one, and which of the FSMs
   would have to be under the reset for it to hold.
2. Control transfers given up in each stage, for `DFUHandler` and `VendorSpi`,
   with LUNA's request multiplexer as the external part.
3. `DfuUpload` over `DualBankWriter` instead of `QspiFlash`: SET_INTERFACE, both
   areas, and the reload from either bank.
4. UF2 files in other orders and with repeated blocks, as an operating system
   that caches its writes may send them.

Twelve runs is the size this project keeps to: new modules share a run with
the module they compose with, and a violation run gives way to a passing one
that says more; what it showed stays in the hazards.
