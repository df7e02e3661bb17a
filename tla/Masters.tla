------------------------------- MODULE Masters -------------------------------
(* The two masters side by side: each has its own registers, lock and       *)
(* semaphore, so that a behaviour is one of either.                         *)
EXTENDS SpiMaster, I2cMaster

MastersInit ==
  /\ kind \in {"spi", "i2c"}
  /\ MasterInit /\ slave_locked = NULL

MastersNext ==
  \/ SpiStep
  \/ (I2cStep \/ MasterStep) /\ UNCHANGED slave_locked

MastersSpec == MastersInit /\ [][MastersNext]_spiVars

-----------------------------------------------------------------------------
(* Properties *)

\* Whatever a transfer was and however it ended, its bus is as the driver
\* believes it to be: the slave select of the SPI master follows slave_locked,
\* and the I2C bus has seen STOP.
BusReleased == SpiReleased /\ I2cReleased

\* A transfer answers with what went over its own wire.
OwnBytes == SpiOwnBytes /\ I2cOwnBytes
=============================================================================
