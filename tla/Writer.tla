------------------------------- MODULE Writer -------------------------------
(***************************************************************************)
(* One writer thread (writer.py, Writer.write_loop) with its rename timer   *)
(* chain (Writer._file_rename run by threading.Timer) and the packet       *)
(* threads that feed its queue: main._main gives the ports that share a    *)
(* temp directory the same writers.                                       *)
(*                                                                         *)
(* Both the write loop's batch and _file_rename run their file work while  *)
(* holding self._file_lock, so each locked section is one atomic step.     *)
(* The writer's queue.get is outside the lock, but it only removes items   *)
(* that the producer appends, so it is merged with the locked section that *)
(* follows it.                                                             *)
(*                                                                         *)
(* A record is <<producer, i>> with i in 1..NRec; <<>> is the zero-length  *)
(* sentinel that each producer's _do_stop puts.  The temp file and the renamed files are modelled by the *)
(* sets of record ids they hold; buffered writes count as in the file      *)
(* until a close fails to flush them.                                      *)
(***************************************************************************)
EXTENDS Naturals, Sequences, FiniteSets

CONSTANTS
  Producers,  \* the packet threads that put to this writer
  NRec,       \* records each packet thread puts before its sentinel
  FailKinds,  \* which OSErrors can happen: "open", "write", "close", "rename"
  MaxFail     \* how many OSErrors can happen in one behaviour

ASSUME FailKinds \subseteq {"open", "write", "close", "rename"}
ASSUME NRec \in Nat /\ MaxFail \in Nat

Sentinel == <<>>               \* bytearray(0)
Recs == Producers \X (1..NRec)

VARIABLES
  wq,       \* the writer's IterQueue
  nput,     \* nput[p]: records put so far by packet thread p
  stopput,  \* stopput[p]: packet thread p has put its sentinel
  wpc,      \* loop, cancel, final, exited, dead (uncaught exception)
  stuck,    \* write_loop's stuck flag
  cooled,   \* stuck_wait has passed since stuck_time
  fh,       \* self._temp_file: "none", "open", or "closed" (closed, not None)
  temp,     \* records in the file at _temp_file_name
  dest,     \* records in files renamed into dest_directory
  errlost,  \* records lost with a close that failed to flush them
  wrote,    \* history: records whose write() returned
  timer,    \* the live Timer of the chain: "none", "armed", "running"
  nfail     \* OSErrors so far

vars == <<wq, nput, stopput, wpc, stuck, cooled, fh, temp, dest, errlost,
          wrote, timer, nfail>>

\* An OSError of kind k can happen now.
CanFail(k) == k \in FailKinds /\ nfail < MaxFail

Init ==
  /\ wq = <<>>
  /\ nput = [p \in Producers |-> 0]
  /\ stopput = [p \in Producers |-> FALSE]
  /\ wpc = "loop"
  /\ stuck = FALSE
  /\ cooled = FALSE
  /\ fh = "none"
  /\ temp = {}
  /\ dest = {}
  /\ errlost = {}
  /\ wrote = {}
  /\ timer = "armed"       \* __init__ calls _file_rename(): no file, a Timer
  /\ nfail = 0

-----------------------------------------------------------------------------
(* _file_rename's locked section: close the temp file and rename it.  An   *)
(* OSError of either returns at once.  Its outcomes: the new fh, temp,     *)
(* dest and errlost, whether it returned early, and whether it failed.     *)
RenameDropsTemp(d, t) == d                 \* a rename that moves nothing
Renamed(d, t) == d \cup t

RenameOutcomes ==
  IF fh = "none" THEN {[fh |-> "none", temp |-> temp, dest |-> dest,
                        errlost |-> errlost, early |-> FALSE, failed |-> FALSE]}
  ELSE
       {[fh |-> "none", temp |-> {}, dest |-> Renamed(dest, temp),
         errlost |-> errlost, early |-> FALSE, failed |-> FALSE]}
    \cup (IF fh = "open" /\ CanFail("close")
          THEN {[fh |-> "closed", temp |-> {}, dest |-> dest,
                 errlost |-> errlost \cup temp, early |-> TRUE,
                 failed |-> TRUE]}
          ELSE {})
    \cup (IF CanFail("rename")
          THEN {[fh |-> "none", temp |-> temp, dest |-> dest,
                 errlost |-> errlost, early |-> TRUE, failed |-> TRUE]}
          ELSE {})

ApplyRename(o) ==
  /\ fh' = o.fh
  /\ temp' = o.temp
  /\ dest' = o.dest
  /\ errlost' = o.errlost
  /\ nfail' = IF o.failed THEN nfail + 1 ELSE nfail

(* Timer expiry: the Timer thread calls _file_rename().                    *)
TimerFire ==
  /\ timer = "armed"
  /\ timer' = "running"
  /\ UNCHANGED <<wq, nput, stopput, wpc, stuck, cooled, fh, temp, dest,
                 errlost, wrote, nfail>>

(* _file_rename(new_thread=True): the locked section, then a new Timer     *)
(* unless it returned early.                                               *)
TimerRename ==
  /\ timer = "running"
  /\ \E o \in RenameOutcomes :
       /\ ApplyRename(o)
       /\ timer' = IF o.early THEN "none" ELSE "armed"
  /\ UNCHANGED <<wq, nput, stopput, wpc, stuck, cooled, wrote>>

-----------------------------------------------------------------------------
(* A packet thread puts a list of records, then [bytearray(0)].           *)
PutRecord(p) ==
  /\ ~stopput[p] /\ nput[p] < NRec
  /\ wq' = Append(wq, <<p, nput[p] + 1>>)
  /\ nput' = [nput EXCEPT ![p] = @ + 1]
  /\ UNCHANGED <<stopput, wpc, stuck, cooled, fh, temp, dest, errlost, wrote,
                 timer, nfail>>

PutSentinel(p) ==
  /\ ~stopput[p]
  /\ wq' = Append(wq, Sentinel)
  /\ stopput' = [stopput EXCEPT ![p] = TRUE]
  /\ UNCHANGED <<nput, wpc, stuck, cooled, fh, temp, dest, errlost, wrote,
                 timer, nfail>>

(* time.time() - stuck_time passes stuck_wait.                             *)
Cooldown ==
  /\ stuck /\ ~cooled
  /\ cooled' = TRUE
  /\ UNCHANGED <<wq, nput, stopput, wpc, stuck, fh, temp, dest, errlost,
                 wrote, timer, nfail>>

(* The position of the first zero-length item of a batch, or Len + 1.      *)
FirstEmptyPastSentinel(b) == Len(b) + 1    \* no len(item) == 0 test
FirstEmpty(b) ==
  IF \E i \in DOMAIN b : b[i] = Sentinel
  THEN CHOOSE i \in DOMAIN b : b[i] = Sentinel /\ \A j \in 1..i - 1 : b[j] # Sentinel
  ELSE Len(b) + 1

PrefixButLast(b, n) == {b[i] : i \in 1..n - 1}   \* last item not written
Prefix(b, n) == {b[i] : i \in 1..n}

(* One pass of write_loop: get the whole queue; clear stuck after the      *)
(* cooldown; under the lock, open the temp file 'wb' if there is none (an  *)
(* OSError makes it stuck); then walk the batch: a zero-length item stops, *)
(* a stuck writer breaks at the first other item, a write OSError makes it *)
(* stuck and breaks.  A closed file object left by a failed close makes    *)
(* write raise ValueError, which nothing catches.                          *)
WriteBatch ==
  /\ wpc = "loop"
  /\ wq # <<>>
  /\ LET b == wq
         s == FirstEmpty(b)
         stuck0 == stuck /\ ~cooled
         opens == ~stuck0 /\ fh = "none"
     IN /\ wq' = <<>>
        /\ \E openfail \in (IF opens /\ CanFail("open") THEN BOOLEAN ELSE {FALSE}) :
           LET stuck1 == stuck0 \/ openfail
               fh1 == IF opens /\ ~openfail THEN "open" ELSE fh
               temp1 == IF opens /\ ~openfail THEN {} ELSE temp
           IN
           \/ /\ stuck1 \/ s = 1
              /\ wpc' = IF s = 1 THEN "cancel" ELSE "loop"
              /\ fh' = fh1 /\ temp' = temp1
              /\ stuck' = stuck1
              /\ cooled' = FALSE
              /\ nfail' = IF openfail THEN nfail + 1 ELSE nfail
              /\ UNCHANGED wrote
           \/ /\ ~stuck1 /\ s > 1 /\ fh1 = "closed"
              /\ wpc' = "dead"
              /\ stuck' = FALSE
              /\ cooled' = FALSE
              /\ UNCHANGED <<fh, temp, wrote, nfail>>
           \/ /\ ~stuck1 /\ s > 1 /\ fh1 = "open"
              /\ \E k \in 1..s :
                   /\ k < s => CanFail("write")
                   /\ wrote' = wrote \cup Prefix(b, k - 1)
                   /\ temp' = temp1 \cup Prefix(b, k - 1)
                   /\ fh' = fh1
                   /\ stuck' = (k < s)
                   /\ cooled' = FALSE
                   /\ nfail' = IF k < s THEN nfail + 1 ELSE nfail
                   /\ wpc' = IF k = s /\ s <= Len(b) THEN "cancel" ELSE "loop"
  /\ UNCHANGED <<nput, stopput, dest, errlost, timer>>

(* self._rename_thread.cancel(): stops an armed Timer; a Timer whose       *)
(* function is already running is not affected.                            *)
Cancel ==
  /\ wpc = "cancel"
  /\ timer' = IF timer = "armed" THEN "none" ELSE timer
  /\ wpc' = "final"
  /\ UNCHANGED <<wq, nput, stopput, stuck, cooled, fh, temp, dest, errlost,
                 wrote, nfail>>

(* self._file_rename(new_thread=False), then the thread returns.           *)
FinalRename ==
  /\ wpc = "final"
  /\ \E o \in RenameOutcomes : ApplyRename(o)
  /\ wpc' = "exited"
  /\ UNCHANGED <<wq, nput, stopput, stuck, cooled, wrote, timer>>

Next ==
  \/ \E p \in Producers : PutRecord(p) \/ PutSentinel(p)
  \/ Cooldown
  \/ WriteBatch \/ Cancel \/ FinalRename
  \/ TimerFire \/ TimerRename

(* The writer and Timer threads run while they can and time passes; the   *)
(* packet threads owe nothing.                                             *)
Fairness ==
  /\ WF_vars(WriteBatch) /\ WF_vars(Cancel) /\ WF_vars(FinalRename)
  /\ WF_vars(TimerFire) /\ WF_vars(TimerRename)
  /\ WF_vars(Cooldown)

Spec == Init /\ [][Next]_vars /\ Fairness

-----------------------------------------------------------------------------
TypeOK ==
  /\ wq \in Seq(Recs \cup {Sentinel})
  /\ nput \in [Producers -> 0..NRec] /\ stopput \in [Producers -> BOOLEAN]
  /\ wpc \in {"loop", "cancel", "final", "exited", "dead"}
  /\ stuck \in BOOLEAN /\ cooled \in BOOLEAN
  /\ fh \in {"none", "open", "closed"}
  /\ temp \subseteq Recs /\ dest \subseteq Recs /\ errlost \subseteq Recs
  /\ wrote \subseteq Recs
  /\ timer \in {"none", "armed", "running"}
  /\ nfail \in 0..MaxFail

(* A record whose write() returned is kept: it is in the temp file or in a *)
(* renamed file, unless a close that had to flush it failed (spec.md 4.4:  *)
(* the temp file is opened for append).  When os.rename fails,            *)
(* _file_rename has already set _temp_file to None (writer.py:148) and     *)
(* returns (156-158); the next write_loop pass opens the unrenamed file    *)
(* with mode 'wb' (237-238), which truncates it.                          *)
NoWrittenRecordLost == wrote \subseteq temp \cup dest \cup errlost

(* Every record a packet thread puts on the writer's queue is written     *)
(* (spec.md 4.4: the final rotation flushes the tail of the data; spec.md  *)
(* 6: SIGHUP stops gracefully).  main._main gives every port whose temp    *)
(* directory normalises to the same one the same writer, so it gets the   *)
(* zero-length item of each of their _do_stop calls; write_loop stops at   *)
(* the first one (writer.py:248-250) and returns, and a record the other   *)
(* port's packet thread puts behind it is never taken off the queue.       *)
Put(r) == r[2] <= nput[r[1]]
RecordsWritten == \A r \in Recs : Put(r) ~> r \in wrote

(* A written record reaches the destination directory, by a timer rename   *)
(* or by the final rename (unless a failed close lost it).                 *)
RecordsRotated == \A r \in Recs : r \in wrote ~> r \in dest \cup errlost

=============================================================================
