---------------------------- MODULE SdCardProofs ----------------------------
(***************************************************************************)
(* Theorems about the SD card driver, for any number of sectors: what a    *)
(* failing card leaves behind.                                             *)
(***************************************************************************)
EXTENDS SdCard, TLAPS

\* The inductive invariant: the bus is held and the card selected as the state
\* of the driver says, and that state is the one of the call that runs.
CardInv ==
  /\ CardTypeOK
  /\ BusHeld
  /\ dpc = "connect" <=> mmc = "CONNECTING"
  /\ dpc = "connect" => ~cs
  /\ dpc = "disconnect" <=> mmc = "DISCONNECTING"
  /\ (res = "NOTRDY" /\ dpc # "connect") => mmc = "ACTIVE"

LEMMA CardInitInv == CardInit => CardInv
<1> SUFFICES ASSUME CardInit PROVE CardInv
  OBVIOUS
<1> USE DEF CardInit
<1>1. CardTypeOK
  <2> 0 \in 0 .. MaxSectors
    BY SectorsAssumption
  <2> QED
    BY DEF CardTypeOK
<1>2. BusHeld
  BY DEF BusHeld
<1> QED
  BY <1>1, <1>2 DEF CardInv

\* Every step of the driver and of its user keeps the invariant.
LEMMA CardStep == CardInv /\ [CardNext]_card => CardInv'
<1> SUFFICES ASSUME CardInv, [CardNext]_card PROVE CardInv'
  OBVIOUS
<1> USE SectorsAssumption DEF CardInv, CardTypeOK, BusHeld,
        spiAcquireBus, spiReleaseBus, Return
<1>1. CASE Connect
  BY <1>1 DEF Connect
<1>2. CASE Disconnect
  BY <1>2 DEF Disconnect
<1>3. CASE Connected
  BY <1>3 DEF Connected
<1>4. CASE ConnectFailed
  <2>1. mmc' \in {"ACTIVE", "READY"} /\ cs' = FALSE /\ locks' = 0 /\ dpc' = "out"
    BY <1>4 DEF ConnectFailed
  <2>2. spi' \in {"STOP", "READY"} /\ res' \in {"OK", "ERROR"} /\ left' = left
    BY <1>4 DEF ConnectFailed
  <2> QED
    BY <2>1, <2>2
<1>5. CASE Disconnected
  <2>1. mmc' \in {"ACTIVE", "READY"} /\ cs' = FALSE /\ locks' = 0 /\ dpc' = "out"
    BY <1>5 DEF Disconnected
  <2>2. spi' \in {"STOP", "READY"} /\ res' \in {"OK", "ERROR"} /\ left' = left
    BY <1>5 DEF Disconnected
  <2> QED
    BY <2>1, <2>2
<1>6. CASE Accepted
  BY <1>6 DEF Accepted
<1>7. CASE Refused
  <2>1. mmc' \in {"ACTIVE", "READY"} /\ cs' = FALSE /\ locks' = 0 /\ dpc' = "out"
    BY <1>7 DEF Refused
  <2>2. spi' \in {"STOP", "READY"} /\ res' \in {"OK", "ERROR"} /\ left' = left
    BY <1>7 DEF Refused
  <2> QED
    BY <2>1, <2>2
<1>8. CASE Block
  BY <1>8 DEF Block
<1>9. CASE BlockFailed
  <2>1. mmc' = "READY" /\ cs' = FALSE /\ locks' = 0 /\ dpc' = "out"
    BY <1>9 DEF BlockFailed, InState
  <2>2. spi' \in {"STOP", "READY"} /\ res' \in {"OK", "ERROR"} /\ left' = left
    BY <1>9 DEF BlockFailed, InState
  <2> QED
    BY <2>1, <2>2
<1>10. CASE Stop
  <2>1. mmc' = "READY" /\ cs' = FALSE /\ locks' = 0 /\ dpc' = "out"
    BY <1>10 DEF Stop, InState
  <2>2. spi' \in {"STOP", "READY"} /\ res' \in {"OK", "ERROR"} /\ left' = left
    BY <1>10 DEF Stop, InState
  <2> QED
    BY <2>1, <2>2
<1>11. ASSUME NEW n \in 1 .. MaxSectors, disk_read(n) \/ disk_write(n)
       PROVE CardInv'
  <2> n \in 0 .. MaxSectors
    OBVIOUS
  <2>1. CASE mmc = "READY" /\ Start(n, "READING", "read")
    BY <2>1, locks = 0 DEF Start
  <2>2. CASE mmc = "READY" /\ Start(n, "WRITING", "write")
    BY <2>2, locks = 0 DEF Start
  <2>3. CASE mmc # "READY"
    BY <1>11, <2>3 DEF disk_read, disk_write, Guarded
  <2> QED
    BY <1>11, <2>1, <2>2, <2>3 DEF disk_read, disk_write, Guarded
<1>12. CASE UNCHANGED card
  BY <1>12 DEF card
<1> QED
  BY <1>1, <1>2, <1>3, <1>4, <1>5, <1>6, <1>7, <1>8, <1>9, <1>10, <1>11,
     <1>12 DEF CardNext, DriverStep

LEMMA CardAlways == CardSpec => []CardInv
  BY CardInitInv, CardStep, PTL DEF CardSpec

\* The driver keeps its types.
THEOREM CardTypeCorrect == CardSpec => []CardTypeOK
  BY CardAlways, PTL DEF CardInv

\* Whatever fails, the bus is held exactly in the transient states: no call
\* returns with it, and none gives back a mutex it does not have.  Blocks are
\* exchanged with a selected card, and a free bus has no selected card.
THEOREM BusHeldHolds == CardSpec => []BusHeld
  BY CardAlways, PTL DEF CardInv

\* No failure of a transfer takes a connected card away from the file system.
THEOREM StaysReadyHolds == CardSpec => StaysReady
<1>1. CardInv /\ [CardNext]_card
        => [(mmc \in {"READY", "READING", "WRITING"}) => mmc' # "ACTIVE" /\ res' # "NOTRDY"]_card
  <2> SUFFICES ASSUME CardInv, CardNext, mmc \in {"READY", "READING", "WRITING"}
               PROVE mmc' # "ACTIVE" /\ res' # "NOTRDY"
    OBVIOUS
  <2> USE DEF CardInv, CardTypeOK, BusHeld, Return
  <2>1. CASE Connect \/ Disconnect
    BY <2>1 DEF Connect, Disconnect
  <2>2. CASE Connected \/ ConnectFailed \/ Disconnected
    BY <2>2 DEF Connected, ConnectFailed, Disconnected
  <2>3. CASE Accepted \/ Refused \/ Block
    BY <2>3 DEF Accepted, Refused, Block
  <2>4. CASE BlockFailed \/ Stop
    BY <2>4 DEF BlockFailed, Stop, InState
  <2>5. ASSUME NEW n \in 1 .. MaxSectors, disk_read(n) \/ disk_write(n)
        PROVE mmc' # "ACTIVE" /\ res' # "NOTRDY"
    BY <2>5 DEF disk_read, disk_write, Guarded, Start
  <2> QED
    BY <2>1, <2>2, <2>3, <2>4, <2>5 DEF CardNext, DriverStep
<1> QED
  BY <1>1, CardAlways, PTL DEF CardSpec, StaysReady
=============================================================================
