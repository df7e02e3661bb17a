----------------------------- MODULE MCDrivers ------------------------------
(***************************************************************************)
(* The drivers and the documents of requests and replies, one at a time,   *)
(* since they share no state: the SPI master with two slaves; the I2C      *)
(* master; the serial flash with two threads, a boot sector and two        *)
(* sectors of the disk; the client file system with three workers, whose   *)
(* closes may fail; documents of two elements whose names and contents are *)
(* prefixes of one another or look like ends.  What the other parts hold   *)
(* stays as it was at the start.                                           *)
(***************************************************************************)
EXTENDS Masters, EpcsFatfs, ClientFs, Bson, TLC

VARIABLE part  \* the part that moves

Keys     == {<<97>>, <<97, 98>>}
Texts    == {<<>>, <<98>>}
Numbers  == {-2}
Binaries == {<<>>, <<0, 7>>}
\* An ObjectId, a regular expression, and code with scope, both empty.
ForeignElements ==
  {[type |-> 7, bytes |-> [i \in 1..12 |-> i]],
   [type |-> 11, bytes |-> <<98, 0, 0>>],
   [type |-> 15, bytes |-> <<14, 0, 0, 0, 1, 0, 0, 0, 0, 5, 0, 0, 0, 0>>]}
Remains == <<2, 0, 0, 0>>

Init ==
  /\ part \in {"spi", "i2c", "flash", "files", "bson"}
  /\ kind = IF part = "i2c" THEN "i2c" ELSE "spi"
  /\ MastersInit
  /\ DiskInit
  /\ FsInit
  /\ BsonInit

Transfers ==
  /\ part \in {"spi", "i2c"}
  /\ MastersNext
  /\ UNCHANGED <<part, diskVars, fsVars, bsonVars>>

Disk == part = "flash" /\ DiskNext /\ UNCHANGED <<part, spiVars, fsVars, bsonVars>>
Files == part = "files" /\ FsNext /\ UNCHANGED <<part, spiVars, diskVars, bsonVars>>
Documents == part = "bson" /\ BsonNext /\ UNCHANGED <<part, spiVars, diskVars, fsVars>>

Next == Transfers \/ Disk \/ Files \/ Documents

Spec == Init /\ [][Next]_<<part, spiVars, diskVars, fsVars, bsonVars>>

Symmetry ==
  Permutations(Thread) \cup Permutations(Data) \cup Permutations(Worker) \cup Permutations(Fd)
=============================================================================
