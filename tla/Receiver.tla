------------------------------ MODULE Receiver ------------------------------
(***************************************************************************)
(* The socket reader thread of one UDP port (sockets.py, Socket.read_loop).*)
(*                                                                         *)
(* The thread owns a pool of NBuf receive buffers.  It keeps two local     *)
(* lists, free_list (buffers to receive into) and read_list (filled        *)
(* buffers not yet handed on), and shares two IterQueues with the decoder  *)
(* thread: queue (Q1, filled buffers out) and free_queue (used buffers     *)
(* back).  Each loop pass does at most one list-management step, then one  *)
(* recvfrom_into whose blocking mode depends on the lists and on the       *)
(* unlocked hint free_len, which the decoder bumps in return_buffs.        *)
(*                                                                         *)
(* A buffer is its index in the pool; a datagram is a record with an id   *)
(* (its arrival order) and a kind; content[b] is the id of the datagram    *)
(* last received into buffer b.                                            *)
(***************************************************************************)
EXTENDS Naturals, Sequences, SequencesExt

CONSTANT NBuf     \* Socket(max_queue_size): pool size, also the Q1 bound

ASSUME NBuf \in Nat \ {0}

\* The pool: __init__ puts bytearray(_buff_size) for i in range(NBuf).
Buffers == 1..NBuf

VARIABLES
  net,               \* datagrams waiting in the kernel socket buffer
  free_list,         \* read_loop local: buffers to receive into, a list
  read_list,         \* read_loop local: <<[buf, dg], ...>> not yet queued
  read_list_reason,  \* ReadListReasons pending for the next pass
  free_list_reason,  \* FreeListReasons pending for the next pass
  rpc,               \* where read_loop is: manage, recv, wait_free, done
  free_len,          \* Socket._free_len, written by both threads unlocked
  queue,             \* Socket._queue (Q1) contents
  free_queue,        \* Socket._free_queue contents, in order
  content,           \* content[b]: id of the datagram last read into b
  stop               \* the _stop_event of the threads (hup_handler sets it)

rvars == <<net, free_list, read_list, read_list_reason, free_list_reason,
           rpc, free_len, queue, free_queue, content, stop>>

ReadReasons == {"none", "large_list", "timeout", "blocked_io"}
FreeReasons == {"none", "large_list", "blocked_io", "empty"}

\* Thresholds of read_loop: self._queue_size // 2 and // 16.
Half      == NBuf \div 2
Sixteenth == NBuf \div 16

-----------------------------------------------------------------------------
(* The reasons computed at the top of a loop pass (lines 393-398).        *)
PassReadReason ==
  IF Len(read_list) >= Half THEN "large_list" ELSE read_list_reason

PassFreeReason ==
  CASE free_list = <<>>  -> "empty"
    [] free_len >= Half  -> "large_list"
    [] OTHER             -> free_list_reason

(* The socket mode chosen before recvfrom_into (lines 413-431).           *)
Mode ==
  CASE free_len > Sixteenth           -> "non_blocking_free"
    [] Len(read_list) > Sixteenth     -> "non_blocking_read"
    [] read_list # <<>>               -> "timeout"
    [] OTHER                          -> "blocking"

(* IterQueue._put: the whole list is appended to the deque, in order.     *)
QueuePutReplace(q, l) == l         \* a put that replaces what the deque held
QueuePut(q, l) == q \o l

RInit ==
  /\ free_list = <<>>
  /\ read_list = <<>>
  /\ read_list_reason = "none"
  /\ free_list_reason = "none"
  /\ rpc = "manage"
  /\ free_len = NBuf              \* __init__: the whole pool is queued
  /\ free_queue = [i \in Buffers |-> i]
  /\ queue = <<>>

-----------------------------------------------------------------------------
(* A pass whose free reason is set: free_list_management.  A non-blocking *)
(* get takes the whole free queue; if the free list is still empty the    *)
(* thread blocks on the free queue (wait_free).  The free list has        *)
(* priority over the read list, which keeps its pending reason.           *)
FreeListManagement ==
  /\ rpc = "manage"
  /\ PassFreeReason # "none"
  /\ free_list_reason' = "none"
  /\ read_list_reason' = PassReadReason
  /\ \/ /\ free_queue # <<>>
        /\ free_list' = free_list \o free_queue
        /\ free_queue' = <<>>
        /\ free_len' = 0
        /\ rpc' = "recv"
     \/ /\ free_queue = <<>>
        /\ rpc' = IF free_list = <<>> THEN "wait_free" ELSE "recv"
        /\ UNCHANGED <<free_list, free_queue, free_len>>
  /\ UNCHANGED <<net, read_list, queue, content, stop>>

(* The blocking get of an exhausted free list (line 217).                 *)
WaitFree ==
  /\ rpc = "wait_free"
  /\ free_queue # <<>>
  /\ free_list' = free_queue
  /\ free_queue' = <<>>
  /\ free_len' = 0
  /\ rpc' = "recv"
  /\ UNCHANGED <<net, read_list, read_list_reason, free_list_reason, queue,
                 content, stop>>

(* A pass with only a read reason: read_list_management puts the whole    *)
(* read list on Q1 in one put.                                            *)
ReadListManagement ==
  /\ rpc = "manage"
  /\ PassFreeReason = "none"
  /\ PassReadReason # "none"
  /\ queue' = QueuePut(queue, read_list)
  /\ read_list' = <<>>
  /\ read_list_reason' = "none"
  /\ rpc' = "recv"
  /\ UNCHANGED <<net, free_list, free_list_reason, free_len, free_queue,
                 content, stop>>

NoManagement ==
  /\ rpc = "manage"
  /\ PassFreeReason = "none"
  /\ PassReadReason = "none"
  /\ rpc' = "recv"
  /\ UNCHANGED <<net, free_list, read_list, read_list_reason,
                 free_list_reason, free_len, queue, free_queue, content, stop>>

-----------------------------------------------------------------------------
(* recvfrom_into free_list[-1], which is then popped; the tuple goes on   *)
(* the read list.                                                         *)
(* A zero-length datagram while stop is set ends the loop: request_stop   *)
(* queues the read list, which ends with that zero-length tuple.          *)
Receive ==
  /\ rpc = "recv"
  /\ net # <<>>
  /\ LET b == Last(free_list)
         t == [buf |-> b, dg |-> Head(net)]
     IN /\ free_list' = Front(free_list)
        /\ content' = [content EXCEPT ![b] = Head(net).id]
        /\ net' = Tail(net)
        /\ \/ /\ Head(net).kind = "zero" /\ stop
              /\ queue' = QueuePut(queue, Append(read_list, t))
              /\ read_list' = <<>>
              /\ rpc' = "done"
           \/ /\ ~(Head(net).kind = "zero" /\ stop)
              /\ read_list' = Append(read_list, t)
              /\ rpc' = "manage"
              /\ UNCHANGED queue
  /\ UNCHANGED <<read_list_reason, free_list_reason, free_len, free_queue,
                 stop>>

(* BlockingIOError of a non-blocking recv: the "maybe" reasons.           *)
BlockedIO ==
  /\ rpc = "recv"
  /\ net = <<>>
  /\ \/ /\ Mode = "non_blocking_free"
        /\ free_list_reason' = "blocked_io"
        /\ UNCHANGED read_list_reason
     \/ /\ Mode = "non_blocking_read"
        /\ read_list_reason' = "blocked_io"
        /\ UNCHANGED free_list_reason
  /\ rpc' = "manage"
  /\ UNCHANGED <<net, free_list, read_list, free_len, queue, free_queue,
                 content, stop>>

(* socket.timeout of the 2-second recv.                                   *)
Timeout ==
  /\ rpc = "recv"
  /\ net = <<>>
  /\ Mode = "timeout"
  /\ read_list_reason' = "timeout"
  /\ rpc' = "manage"
  /\ UNCHANGED <<net, free_list, read_list, free_list_reason, free_len,
                 queue, free_queue, content, stop>>

RNext ==
  \/ FreeListManagement
  \/ WaitFree
  \/ ReadListManagement
  \/ NoManagement
  \/ Receive
  \/ BlockedIO
  \/ Timeout

=============================================================================
