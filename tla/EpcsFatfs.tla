------------------------------ MODULE EpcsFatfs -----------------------------
(***************************************************************************)
(* The sectors of the serial flash: the disk of FatFs (disk_read and       *)
(* disk_write) and the raw access of the programmer, which share the chip  *)
(* under the lock epcs_fatfs_lock.  A raw write erases each sector and     *)
(* programs its pages, taking the lock anew for each of these steps and    *)
(* polling the chip to its end before giving it back.                      *)
(*                                                                         *)
(* A command is one transfer of the SPI master, or two that MERGE joins.   *)
(* It cannot fail: the flash is the only slave of its master.  A page      *)
(* holds a value, nothing ("erased") or a mixture ("junk").  The callers   *)
(* do not use a sector that another one is writing, and the lock is a      *)
(* mutex of POSIX, which module TthMutex is not.                           *)
(***************************************************************************)
EXTENDS Integers

CONSTANTS
  Thread,
  Data,      \* what a sector may be written with
  Sectors,   \* how many sectors the chip has
  Pages,     \* how many pages a sector has
  Start,     \* epcs_start_sector: the sectors below hold the boot image
  End,       \* epcs_end_sector
  MaxCount,  \* the longest request, in sectors
  NONE

ASSUME FlashAssumption ==
  /\ NONE \notin Thread /\ NONE \notin Data
  /\ {"erased", "junk"} \cap Data = {}
  /\ Sectors \in Nat /\ Pages \in Nat \ {0} /\ MaxCount \in Nat \ {0}
  /\ Start \in Nat /\ End \in Start+1..Sectors
  /\ NONE \notin [s : 0..Sectors-1, page : 0..Pages-1]
  /\ NONE \notin [s : 0..Sectors-1, page : -1..Pages-1, data : Data \cup {NONE}]

Sector == 0..Sectors-1
Page   == 0..Pages-1
Value  == Data \cup {"erased", "junk"}

VARIABLES
  mem,     \* the pages of the chip
  wel,     \* its write enable latch
  busy,    \* the erase (page -1) or program it is working on, or NONE
  merged,  \* the page of a program command whose data is to follow, or NONE
  lock,    \* the thread that has epcs_fatfs_lock, or NONE
  access,  \* the call each thread is in
  last     \* what the callers have written to each sector; NONE: being written

diskVars == <<mem, wel, busy, merged, lock, access, last>>
chip == <<mem, wel, busy, merged>>

NoCall == [at |-> "out", disk |-> FALSE, s |-> 0, left |-> 0, page |-> -1, data |-> NONE]
Reading == {"readlock", "read", "readunlock"}

At(t, p) == access[t].at = p
Goto(t, p) == access' = [access EXCEPT ![t].at = p]

\* Every sector of thread t's call that is still to be read or written.
Using(t) == IF access[t].at = "out" THEN {} ELSE access[t].s .. access[t].s + access[t].left - 1

-----------------------------------------------------------------------------
(* The chip.  A busy chip ignores every command but the one for its status; *)
(* what arrives between the two transfers of a program command is taken    *)
(* for its data.                                                           *)

Program(s, p, d) == busy' = [s |-> s, page |-> p, data |-> d]

\* A command other than the data of a merged one: "accepted" is its effect.
Command(accepted) ==
  \/ merged # NONE /\ Program(merged.s, merged.page, "junk") /\ merged' = NONE /\ UNCHANGED <<mem, wel>>
  \/ merged = NONE /\ busy # NONE /\ UNCHANGED chip
  \/ merged = NONE /\ busy = NONE /\ accepted

Burnt(old, d) == IF old = "erased" THEN d ELSE "junk"

\* The pages of a sector after an erase or a program.
Worked(pages, c) ==
  IF c.page = -1 THEN [p \in Page |-> "erased"]
  ELSE [pages EXCEPT ![c.page] = Burnt(pages[c.page], c.data)]

\* The chip finishes what it was doing.
ChipDone ==
  /\ busy # NONE
  /\ mem' = [mem EXCEPT ![busy.s] = Worked(@, busy)]
  /\ busy' = NONE /\ wel' = FALSE
  /\ UNCHANGED <<merged, lock, access, last>>

\* What a read of sector s returns.
Contents(s) ==
  IF merged = NONE /\ busy = NONE /\ \A p \in Page : mem[s][p] = mem[s][0] THEN mem[s][0] ELSE "junk"

-----------------------------------------------------------------------------
(* Calls *)

Begin(t, at, disk, s, n, d) ==
  /\ At(t, "out")
  /\ \A u \in Thread : Using(u) \cap s..s+n-1 # {} => {at, access[u].at} \subseteq Reading
  /\ access' = [access EXCEPT ![t] = [at |-> at, disk |-> disk, s |-> s, left |-> n, page |-> -1, data |-> d]]

\* epcs_fatfs_raw_read and epcs_fatfs_raw_write, called by the programmer.
RawRead(t, s, n) ==
  /\ s + n <= Sectors
  /\ Begin(t, "readlock", FALSE, s, n, NONE)
  /\ UNCHANGED <<chip, lock, last>>

RawWrite(t, s, n, d) ==
  /\ s + n <= Sectors
  /\ Begin(t, "lock", FALSE, s, n, d)
  /\ last' = [q \in Sector |-> IF q \in s..s+n-1 THEN NONE ELSE last[q]]
  /\ UNCHANGED <<chip, lock>>

\* The range check of EPCS_disk_read and EPCS_disk_write.
Inside(s, n) == s + n <= End

\* RES_PARERR changes nothing.
disk_read(t, sector, n) ==
  LET s == sector + Start
  IN  /\ Inside(s, n)
      /\ Begin(t, "readlock", TRUE, s, n, NONE)
      /\ UNCHANGED <<chip, lock, last>>

disk_write(t, sector, n, d) ==
  LET s == sector + Start
  IN  /\ Inside(s, n)
      /\ Begin(t, "lock", TRUE, s, n, d)
      /\ last' = [q \in Sector |-> IF q \in s..s+n-1 THEN NONE ELSE last[q]]
      /\ UNCHANGED <<chip, lock>>

ReadLock(t) ==
  /\ At(t, "readlock") /\ lock = NONE
  /\ lock' = t
  /\ Goto(t, "read")
  /\ UNCHANGED <<chip, last>>

\* One command reads all the sectors.
Read(t) ==
  /\ At(t, "read")
  /\ access' = [access EXCEPT ![t] =
       [@ EXCEPT !.at = "readunlock", !.data = [s \in Using(t) |-> Contents(s)]]]
  /\ Command(UNCHANGED chip)
  /\ UNCHANGED <<lock, last>>

ReadUnlock(t) ==
  /\ At(t, "readunlock")
  /\ lock' = NONE
  /\ access' = [access EXCEPT ![t] = NoCall]
  /\ UNCHANGED <<chip, last>>

Lock(t) ==
  /\ At(t, "lock") /\ lock = NONE
  /\ lock' = t
  /\ Goto(t, "wren")
  /\ UNCHANGED <<chip, last>>

\* A faulty variant: the latch is set for the erase only.
WriteEnableOnce(t) ==
  /\ At(t, "wren")
  /\ Goto(t, IF access[t].page = -1 THEN "erase" ELSE "prog")
  /\ Command(wel' = (access[t].page = -1) /\ UNCHANGED <<mem, busy, merged>>)
  /\ UNCHANGED <<lock, last>>

WriteEnable(t) ==
  /\ At(t, "wren")
  /\ Goto(t, IF access[t].page = -1 THEN "erase" ELSE "prog")
  /\ Command(wel' = TRUE /\ UNCHANGED <<mem, busy, merged>>)
  /\ UNCHANGED <<lock, last>>

Erase(t) ==
  /\ At(t, "erase")
  /\ Goto(t, "poll")
  /\ Command(/\ IF wel THEN Program(access[t].s, -1, NONE) ELSE UNCHANGED busy
             /\ UNCHANGED <<mem, wel, merged>>)
  /\ UNCHANGED <<lock, last>>

\* The command and the address, with MERGE; then the data.
ProgramHeader(t) ==
  /\ At(t, "prog")
  /\ Goto(t, "data")
  /\ Command(/\ IF wel THEN merged' = [s |-> access[t].s, page |-> access[t].page] ELSE UNCHANGED merged
             /\ UNCHANGED <<mem, wel, busy>>)
  /\ UNCHANGED <<lock, last>>

ProgramData(t) ==
  /\ At(t, "data")
  /\ Goto(t, "poll")
  /\ IF merged = [s |-> access[t].s, page |-> access[t].page]
     THEN Program(access[t].s, access[t].page, access[t].data) /\ merged' = NONE /\ UNCHANGED <<mem, wel>>
     ELSE UNCHANGED chip
  /\ UNCHANGED <<lock, last>>

\* The loop around RDSR ends when WIP is off.
Poll(t) ==
  /\ At(t, "poll") /\ busy = NONE
  /\ Goto(t, "unlock")
  /\ UNCHANGED <<chip, lock, last>>

\* The next page, the next sector or the end; a sector is written when its
\* last page is.
Unlock(t) ==
  /\ At(t, "unlock")
  /\ lock' = NONE
  /\ LET c == access[t]
         full == c.page = Pages - 1
         next == IF ~full THEN [c EXCEPT !.at = "lock", !.page = @ + 1]
                 ELSE IF c.left > 1 THEN [c EXCEPT !.at = "lock", !.page = -1, !.s = @ + 1, !.left = @ - 1]
                 ELSE NoCall
     IN  /\ access' = [access EXCEPT ![t] = next]
         /\ last' = IF full THEN [last EXCEPT ![c.s] = c.data] ELSE last
  /\ UNCHANGED chip

DiskInit ==
  /\ \E d \in Data : /\ mem = [s \in Sector |-> [p \in Page |-> d]]
                     /\ last = [s \in Sector |-> d]
  /\ wel = FALSE /\ busy = NONE /\ merged = NONE
  /\ lock = NONE
  /\ access = [t \in Thread |-> NoCall]

Call(t) ==
  \E s \in 0..Sectors, n \in 1..MaxCount :
    \/ RawRead(t, s, n) \/ disk_read(t, s, n)
    \/ \E d \in Data : RawWrite(t, s, n, d) \/ disk_write(t, s, n, d)

Step(t) ==
  \/ ReadLock(t) \/ Read(t) \/ ReadUnlock(t)
  \/ Lock(t) \/ WriteEnable(t) \/ Erase(t) \/ ProgramHeader(t) \/ ProgramData(t)
  \/ Poll(t) \/ Unlock(t)

DiskNext == ChipDone \/ \E t \in Thread : Call(t) \/ Step(t)

DiskSpec == DiskInit /\ [][DiskNext]_diskVars

-----------------------------------------------------------------------------
(* Properties *)

\* A sector that nobody is writing holds what was written to it last: no page
\* is programmed twice or before its erase, no command is lost in a busy chip
\* and none gets into another thread's program command.
SectorsHold == \A s \in Sector : last[s] # NONE => \A p \in Page : mem[s][p] = last[s]

\* A read returns what its sectors hold, although other sectors are being
\* erased and programmed in the meantime.
ReadsLast ==
  \A t \in Thread : At(t, "readunlock") => \A s \in DOMAIN access[t].data : access[t].data[s] = last[s]

\* Sectors keep what was written to them, and reads return it.
FlashKeeps == SectorsHold /\ ReadsLast
=============================================================================
