------------------------------- MODULE SdCard -------------------------------
(***************************************************************************)
(* The SD card on its SPI bus: the block driver mmc_spi.c, and the two     *)
(* calls of FatFs into it (disk_read and disk_write).  One thread at a     *)
(* time uses the card: main when it mounts the file system, then the       *)
(* shell.  A step ends where the card answers, or does not; between the    *)
(* two the thread sleeps in spiReceive or chThdSleep and others run.       *)
(***************************************************************************)
EXTENDS Naturals

CONSTANT MaxSectors  \* largest count of a disk_read or disk_write

ASSUME SectorsAssumption == MaxSectors \in Nat \ {0}

VARIABLES
  mmc,    \* MMCD1.state
  locks,  \* how often the user has SPID2's mutex in its list
  spi,    \* SPID2.state
  cs,     \* TRUE while the card is selected
  dpc,    \* where the user is in the driver
  left,   \* sectors disk_read or disk_write has still to transfer
  res     \* what the last call of the disk layer or mmcConnect returned

card == <<mmc, locks, spi, cs, dpc, left, res>>

CardTypeOK ==
  /\ mmc \in {"ACTIVE", "CONNECTING", "READY", "READING", "WRITING", "DISCONNECTING"}
  /\ locks \in {0, 1}
  /\ spi \in {"STOP", "READY"}
  /\ cs \in BOOLEAN
  /\ dpc \in {"out", "connect", "disconnect", "read", "blockin", "write", "blockout"}
  /\ left \in 0 .. MaxSectors
  /\ res \in {"OK", "ERROR", "NOTRDY"}

\* mmcObjectInit and mmcStart.
CardInit ==
  /\ mmc = "ACTIVE"
  /\ locks = 0
  /\ spi = "STOP"
  /\ cs = FALSE
  /\ dpc = "out"
  /\ left = 0
  /\ res = "OK"

spiAcquireBus == locks' = locks + 1
spiReleaseBus == locks' = locks - 1
Return(r) == dpc' = "out" /\ res' = r

-----------------------------------------------------------------------------
(* mmcConnect and mmcDisconnect *)

\* Nothing is sent yet; the bus is kept over all the retries that follow.
Connect ==
  /\ dpc = "out"
  /\ mmc \in {"ACTIVE", "READY"}
  /\ spiAcquireBus
  /\ mmc' = "CONNECTING"
  /\ spi' = "READY"
  /\ dpc' = "connect"
  /\ UNCHANGED <<cs, left, res>>

\* The card is in its data mode, of known capacity.
Connected ==
  /\ dpc = "connect"
  /\ mmc' = "READY"
  /\ spiReleaseBus
  /\ Return("OK")
  /\ UNCHANGED <<spi, cs, left>>

\* goto failed, from any command: spiStop also deselects a card that read_CxD
\* left selected.
ConnectFailed ==
  /\ dpc = "connect"
  /\ spi' = "STOP"
  /\ cs' = FALSE
  /\ mmc' = "ACTIVE"
  /\ spiReleaseBus
  /\ Return("ERROR")
  /\ UNCHANGED left

Disconnect ==
  /\ dpc = "out"
  /\ mmc = "READY"
  /\ mmc' = "DISCONNECTING"
  /\ spiAcquireBus
  /\ spi' = "READY"
  /\ cs' = TRUE
  /\ dpc' = "disconnect"
  /\ UNCHANGED <<left, res>>

\* sync has seen the card idle.
Disconnected ==
  /\ dpc = "disconnect"
  /\ cs' = FALSE
  /\ spi' = "STOP"
  /\ mmc' = "ACTIVE"
  /\ spiReleaseBus
  /\ Return("OK")
  /\ UNCHANGED left

-----------------------------------------------------------------------------
(* disk_read and disk_write: start, one step per block, stop *)

\* mmcStartSequentialRead and mmcStartSequentialWrite, up to the header.
Start(n, state, label) ==
  /\ dpc = "out"
  /\ mmc' = state
  /\ spiAcquireBus
  /\ spi' = "READY"
  /\ cs' = TRUE
  /\ dpc' = label
  /\ left' = n
  /\ UNCHANGED res

\* The guard of both calls: blkGetDriverState(&MMCD1) != BLK_READY.
Guarded(start) ==
  IF mmc = "READY" THEN start
  ELSE dpc = "out" /\ res' = "NOTRDY" /\ UNCHANGED <<mmc, locks, spi, cs, dpc, left>>

disk_read(n) == Guarded(Start(n, "READING", "read"))
disk_write(n) == Guarded(Start(n, "WRITING", "write"))

\* recvr1 is zero.
Accepted ==
  /\ dpc \in {"read", "write"}
  /\ dpc' = IF dpc = "read" THEN "blockin" ELSE "blockout"
  /\ UNCHANGED <<mmc, locks, spi, cs, left, res>>

RefusedKeepsBus ==
  /\ dpc \in {"read", "write"}
  /\ spi' = "STOP"
  /\ cs' = FALSE
  /\ mmc' = "READY"
  /\ UNCHANGED locks
  /\ Return("ERROR")
  /\ UNCHANGED left

\* recvr1 is not: the start fails and the disk layer returns.
Refused ==
  /\ dpc \in {"read", "write"}
  /\ spi' = "STOP"
  /\ cs' = FALSE
  /\ mmc' = "READY"
  /\ spiReleaseBus
  /\ Return("ERROR")
  /\ UNCHANGED left

\* The test of mmcp->state in the calls of a transfer.
InState == mmc = IF dpc = "blockin" THEN "READING" ELSE "WRITING"

\* mmcSequentialRead or mmcSequentialWrite transfers a block.
Block ==
  /\ dpc \in {"blockin", "blockout"}
  /\ left > 0
  /\ InState
  /\ left' = left - 1
  /\ UNCHANGED <<mmc, locks, spi, cs, dpc, res>>

\* The data token does not come, or the block is refused: the disk layer
\* returns without a stop, so that everything must be given back here.
BlockFailed ==
  /\ dpc \in {"blockin", "blockout"}
  /\ left > 0
  /\ IF InState
     THEN cs' = FALSE /\ spi' = "STOP" /\ mmc' = "READY" /\ spiReleaseBus
     ELSE /\ UNCHANGED <<mmc, spi, cs>>
          /\ IF dpc = "blockout" THEN spiReleaseBus ELSE UNCHANGED locks
  /\ Return("ERROR")
  /\ UNCHANGED left

StopKeepsState ==
  /\ dpc \in {"blockin", "blockout"}
  /\ left = 0
  /\ cs' = FALSE
  /\ spiReleaseBus
  /\ Return("OK")
  /\ UNCHANGED <<mmc, spi, left>>

\* mmcStopSequentialRead and mmcStopSequentialWrite.
Stop ==
  /\ dpc \in {"blockin", "blockout"}
  /\ left = 0
  /\ spiReleaseBus
  /\ IF InState
     THEN cs' = FALSE /\ mmc' = "READY" /\ Return("OK")
     ELSE UNCHANGED <<mmc, cs>> /\ Return("ERROR")
  /\ UNCHANGED <<spi, left>>

\* What the driver does after the call of its user.
DriverStep == \/ Connected \/ ConnectFailed \/ Disconnected
              \/ Accepted \/ Refused \/ Block \/ BlockFailed \/ Stop

CardNext == \/ Connect \/ Disconnect \/ DriverStep
            \/ \E n \in 1 .. MaxSectors : disk_read(n) \/ disk_write(n)

CardSpec == CardInit /\ [][CardNext]_card

-----------------------------------------------------------------------------
(* Properties *)

\* Whatever failed and wherever, the mutex of the bus is held, once, exactly
\* while the driver is in a transient state: a call never returns with the bus
\* locked, and never unlocks it twice, which would release another mutex of
\* the thread.  Blocks are exchanged with a selected card on a running bus, in the
\* state of their direction, and no card stays selected on a bus that is free.
BusHeld ==
  /\ locks = IF mmc \in {"CONNECTING", "READING", "WRITING", "DISCONNECTING"} THEN 1 ELSE 0
  /\ dpc = "out" <=> locks = 0
  /\ dpc \in {"read", "write", "blockin", "blockout"} => cs /\ spi = "READY"
  /\ dpc \in {"read", "blockin"} <=> mmc = "READING"
  /\ dpc \in {"write", "blockout"} <=> mmc = "WRITING"
  /\ locks = 0 => ~cs

\* A card that was connected stays usable after any sequence of failures: only
\* mmcDisconnect and a failed mmcConnect take it away.
StaysReady ==
  [][(mmc \in {"READY", "READING", "WRITING"}) => mmc' # "ACTIVE" /\ res' # "NOTRDY"]_card
=============================================================================
