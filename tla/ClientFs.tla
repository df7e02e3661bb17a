------------------------------ MODULE ClientFs ------------------------------
(***************************************************************************)
(* The client file system: the fs.* methods by which the host opens files  *)
(* on the board.  The client knows its files as indices of vfd_list, whose *)
(* entries are descriptors of the HAL; the running program opens and       *)
(* closes descriptors of the same pool.  fs.cleanup closes everything, and *)
(* cancels the fs.open calls that other workers of the RPC server are in.  *)
(*                                                                         *)
(* Several workers serve the client's requests at once, and nothing keeps  *)
(* two requests for one file, or one and a cleanup, apart.  Parameters     *)
(* that are refused, paths and memory change nothing here.                 *)
(***************************************************************************)
EXTENDS Integers, FiniteSets

CONSTANTS
  Vfd,     \* the indices of vfd_list, 0 to PERIDOT_CLIENT_FS_MAX_FDS - 1
  Fd,      \* the descriptors of the HAL
  Worker,  \* the worker threads of the RPC server
  CloseResult,  \* what the close function of the file system may answer
  NOBODY

FREE     == "VFD_FREE"
ALLOC    == "VFD_ALLOC"
CANCELED == "VFD_CANCELED"

ASSUME FsAssumption ==
  /\ Vfd # {} /\ IsFiniteSet(Vfd) /\ Vfd = 0..Cardinality(Vfd) - 1
  /\ CloseResult \subseteq BOOLEAN /\ TRUE \in CloseResult
  /\ NOBODY \notin Worker /\ NOBODY \notin Fd /\ NOBODY \notin {"client", "program"}
  /\ Fd \cap {FREE, ALLOC, CANCELED} = {}

VARIABLES
  vfd_list,
  sem_lock,  \* the worker that has it, or NOBODY
  user,      \* who has opened each descriptor: "client", "program" or NOBODY
  job,       \* what each worker does
  spoilt     \* an entry was overwritten that did not hold what its writer took it to
             \* hold, or names a descriptor again that close has given back (history)

fsVars == <<vfd_list, sem_lock, user, job, spoilt>>

\* at: where the worker is; vfd and fd: its local variables.
NoJob == [at |-> "out", vfd |-> 0, fd |-> NOBODY]
FsPlaces == {"out", "alloc", "opening", "publish", "undo", "got", "closing", "closed", "failed",
           "using", "cleanup", "clean", "free", "close"}

FsAt(w, p) == job[w].at = p
FsGoto(w, p) == job' = [job EXCEPT ![w].at = p]
Hold(w, p, v, f) == job' = [job EXCEPT ![w] = [at |-> p, vfd |-> v, fd |-> f]]
Return(w) == job' = [job EXCEPT ![w] = NoJob]

\* The entry of the call's file no longer names the descriptor it was looked up for.
Stale(w) == vfd_list[job[w].vfd] # job[w].fd

-----------------------------------------------------------------------------
(* The pool of descriptors *)

\* open() and close() of the HAL for someone else.
ProgramOpens(f) ==
  /\ user[f] = NOBODY
  /\ user' = [user EXCEPT ![f] = "program"]
  /\ UNCHANGED <<vfd_list, sem_lock, job, spoilt>>

ProgramCloses(f) ==
  /\ user[f] = "program"
  /\ user' = [user EXCEPT ![f] = NOBODY]
  /\ UNCHANGED <<vfd_list, sem_lock, job, spoilt>>

\* alt_release_fd: the descriptor is free, whoever had it.
Release(f) == user' = [user EXCEPT ![f] = NOBODY]

-----------------------------------------------------------------------------
(* fs.open *)

OpenCall(w) ==
  /\ FsAt(w, "out")
  /\ FsGoto(w, "alloc")
  /\ UNCHANGED <<vfd_list, sem_lock, user, spoilt>>

\* alloc_vfd, or EMFILE.  Only this step takes a free entry, under sem_lock.
AllocVfd(w) ==
  /\ FsAt(w, "alloc") /\ sem_lock = NOBODY
  /\ \/ /\ \A v \in Vfd : vfd_list[v] # FREE
        /\ Return(w) /\ UNCHANGED vfd_list
     \/ \E v \in Vfd :
          /\ vfd_list[v] = FREE /\ \A u \in 0..v-1 : vfd_list[u] # FREE
          /\ vfd_list' = [vfd_list EXCEPT ![v] = ALLOC]
          /\ Hold(w, "opening", v, NOBODY)
  /\ UNCHANGED <<sem_lock, user, spoilt>>

OpenFile(w) ==
  /\ FsAt(w, "opening")
  /\ \/ \E f \in Fd :
          /\ user[f] = NOBODY
          /\ user' = [user EXCEPT ![f] = "client"]
          /\ Hold(w, "publish", job[w].vfd, f)
          /\ UNCHANGED vfd_list
     \/ /\ vfd_list' = [vfd_list EXCEPT ![job[w].vfd] = FREE]
        /\ Return(w)
        /\ UNCHANGED user
  /\ UNCHANGED <<sem_lock, spoilt>>

\* A faulty variant: the entry is not looked at again.
PublishAlways(w) ==
  /\ FsAt(w, "publish")
  /\ vfd_list' = [vfd_list EXCEPT ![job[w].vfd] = job[w].fd]
  /\ Return(w)
  /\ UNCHANGED <<sem_lock, user, spoilt>>

\* With the interrupts disabled: the descriptor is entered, unless a cleanup
\* has come in between.
Publish(w) ==
  /\ FsAt(w, "publish")
  /\ LET v == job[w].vfd
     IN  IF vfd_list[v] = ALLOC
         THEN vfd_list' = [vfd_list EXCEPT ![v] = job[w].fd] /\ Return(w)
         ELSE vfd_list' = [vfd_list EXCEPT ![v] = FREE] /\ FsGoto(w, "undo")
  /\ UNCHANGED <<sem_lock, user, spoilt>>

\* The descriptor of a cancelled open is closed; EBADF.
UndoOpen(w) ==
  /\ FsAt(w, "undo")
  /\ Release(job[w].fd)
  /\ Return(w)
  /\ UNCHANGED <<vfd_list, sem_lock, spoilt>>

-----------------------------------------------------------------------------
(* The methods on an open file *)

\* The client sends a request for file v, and get_fd looks the file up, or EBADF.
GetFd(w, v, p) ==
  /\ FsAt(w, "out") /\ vfd_list[v] \in Fd
  /\ Hold(w, p, v, vfd_list[v])
  /\ UNCHANGED <<vfd_list, sem_lock, user, spoilt>>

\* read, hash, write, lseek and ioctl end with a call on the descriptor.
UseFile(w) ==
  /\ FsAt(w, "using")
  /\ Return(w)
  /\ UNCHANGED <<vfd_list, sem_lock, user, spoilt>>

\* A faulty variant: the entry is free before the descriptor is.
MarkFree(w) ==
  /\ FsAt(w, "got")
  /\ vfd_list' = [vfd_list EXCEPT ![job[w].vfd] = FREE]
  /\ FsGoto(w, "closing")
  /\ spoilt' = (spoilt \/ Stale(w))
  /\ UNCHANGED <<sem_lock, user>>

\* fs.close reserves the entry while it closes the file, without looking at
\* it again ...
MarkClosing(w) ==
  /\ FsAt(w, "got")
  /\ vfd_list' = [vfd_list EXCEPT ![job[w].vfd] = ALLOC]
  /\ FsGoto(w, "closing")
  /\ spoilt' = (spoilt \/ Stale(w))
  /\ UNCHANGED <<sem_lock, user>>

\* ... closes it: alt_close gives the descriptor back to the pool whatever
\* the close function of the device answers ...
CloseFile(w) ==
  /\ FsAt(w, "closing")
  /\ Release(job[w].fd)
  /\ \E ok \in CloseResult : FsGoto(w, IF ok THEN "closed" ELSE "failed")
  /\ UNCHANGED <<vfd_list, sem_lock, spoilt>>

\* ... and frees the entry, or puts the descriptor back when close failed.
EndClose(w) ==
  /\ job[w].at \in {"closed", "failed"}
  /\ vfd_list' = [vfd_list EXCEPT ![job[w].vfd] = IF FsAt(w, "failed") THEN job[w].fd ELSE FREE]
  /\ spoilt' = (spoilt \/ FsAt(w, "failed"))
  /\ Return(w)
  /\ UNCHANGED <<sem_lock, user>>

-----------------------------------------------------------------------------
(* fs.cleanup *)

CleanupCall(w) ==
  /\ FsAt(w, "out")
  /\ FsGoto(w, "cleanup")
  /\ UNCHANGED <<vfd_list, sem_lock, user, spoilt>>

CleanupLock(w) ==
  /\ FsAt(w, "cleanup") /\ sem_lock = NOBODY
  /\ sem_lock' = w
  /\ Hold(w, "clean", 0, NOBODY)
  /\ UNCHANGED <<vfd_list, user, spoilt>>

\* Behind the last entry the lock is given back.
NextVfd(w) ==
  LET v == job[w].vfd
  IN  IF v + 1 \in Vfd THEN Hold(w, "clean", v + 1, NOBODY) /\ UNCHANGED sem_lock
      ELSE Return(w) /\ sem_lock' = NOBODY

\* One entry, with the interrupts disabled: an open is cancelled.
CleanVfd(w) ==
  /\ FsAt(w, "clean")
  /\ LET v == job[w].vfd
     IN  /\ vfd_list' = [vfd_list EXCEPT ![v] = IF @ = ALLOC THEN CANCELED ELSE @]
         /\ IF vfd_list[v] \in Fd THEN Hold(w, "free", v, vfd_list[v]) /\ UNCHANGED sem_lock
                                  ELSE NextVfd(w)
  /\ UNCHANGED <<user, spoilt>>

\* With the interrupts enabled again.
CleanFree(w) ==
  /\ FsAt(w, "free")
  /\ vfd_list' = [vfd_list EXCEPT ![job[w].vfd] = FREE]
  /\ spoilt' = (spoilt \/ Stale(w))
  /\ FsGoto(w, "close")
  /\ UNCHANGED <<sem_lock, user>>

\* The answer of close is not looked at.
CleanClose(w) ==
  /\ FsAt(w, "close")
  /\ Release(job[w].fd)
  /\ NextVfd(w)
  /\ UNCHANGED <<vfd_list, spoilt>>

-----------------------------------------------------------------------------

FsInit ==
  /\ vfd_list = [v \in Vfd |-> FREE]
  /\ sem_lock = NOBODY
  /\ user = [f \in Fd |-> NOBODY]
  /\ job = [w \in Worker |-> NoJob]
  /\ spoilt = FALSE

Open(w) == OpenCall(w) \/ AllocVfd(w) \/ OpenFile(w) \/ Publish(w) \/ UndoOpen(w)

FileCall(w) ==
  \/ \E v \in Vfd : GetFd(w, v, "using") \/ GetFd(w, v, "got")
  \/ UseFile(w) \/ MarkClosing(w) \/ CloseFile(w) \/ EndClose(w)

Cleanup(w) ==
  \/ CleanupCall(w) \/ CleanupLock(w)
  \/ CleanVfd(w) \/ CleanFree(w) \/ CleanClose(w)

FsNext ==
  \/ \E w \in Worker : Open(w) \/ FileCall(w) \/ Cleanup(w)
  \/ \E f \in Fd : ProgramOpens(f) \/ ProgramCloses(f)

FsSpec == FsInit /\ [][FsNext]_fsVars

-----------------------------------------------------------------------------
(* Properties *)

\* The types: an entry is one of the three marks or a descriptor.
FsTypeOK ==
  /\ vfd_list \in [Vfd -> Fd \cup {FREE, ALLOC, CANCELED}]
  /\ sem_lock \in Worker \cup {NOBODY}
  /\ user \in [Fd -> {"client", "program", NOBODY}]
  /\ job \in [Worker -> [at : FsPlaces, vfd : Vfd, fd : Fd \cup {NOBODY}]]
  /\ spoilt \in BOOLEAN

\* The workers that have descriptor f in hand, in no entry yet or any more.
Holders(f) == {w \in Worker : job[w].fd = f /\ job[w].at \in {"publish", "undo", "closing", "close"}}

\* A descriptor of the client is known in exactly one place, an entry or a
\* call that is going to enter or close it, and no such place names one that
\* the program or nobody has: nothing leaks, and the program keeps its files,
\* whatever opens, closes and cleanups overlap.  The two ways out of it are the
\* store into an entry that was looked up before another call took it, and the
\* descriptor put back after a failed close.
FdsAccounted ==
  \/ spoilt
  \/ \A f \in Fd :
       Cardinality({v \in Vfd : vfd_list[v] = f}) + Cardinality(Holders(f))
         = IF user[f] = "client" THEN 1 ELSE 0

\* When a cleanup returns, every file opened before it is closed, and every
\* open or close it met on its way no longer counts on its entry.
CleanupComplete ==
  [][sem_lock # NOBODY /\ sem_lock' = NOBODY =>
       spoilt' \/ \A v \in Vfd : vfd_list'[v] \in {FREE, CANCELED}]_fsVars

\* alt_close.c: "The file descriptor is then marked as free."  No entry of the
\* client goes on naming it.
EntriesOpen == \A v \in Vfd : vfd_list[v] \in Fd => user[vfd_list[v]] = "client"

\* alt_release_fd.c: "alt_release_fd() is called to free an allocated file
\* descriptor."  Nobody is about to close one that is free already.
ReleasesAllocated ==
  \A w \in Worker : job[w].at \in {"undo", "closing", "close"} => user[job[w].fd] # NOBODY
=============================================================================
