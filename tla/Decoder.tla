------------------------------ MODULE Decoder -------------------------------
(***************************************************************************)
(* The packet processor thread of one port (packet.py, Packet._process_   *)
(* loop) with the per-datagram outcome of the converters it dispatches to *)
(* (cflowd.py, netflow_v5_to_cflowd and netflow_v10_to_cflowd).           *)
(*                                                                         *)
(* The thread takes whole batches from Q1, converts each datagram, keeps  *)
(* the outputs in one accumulator per format (cflowd_data_list,           *)
(* ipfix_data_list) and puts an accumulator on the writer's queue when it *)
(* is longer than DataListMax or older than _max_time_in_list.  After a   *)
(* batch it returns all its buffers to the receiver's free queue and then *)
(* bumps the unlocked hint free_len in a separate read-modify-write.      *)
(*                                                                         *)
(* A datagram's kind stands for what the converter does with it:          *)
(*   "v5", "v10"        well-formed, with flow records to convert          *)
(*   "v5_short"         version 5 shorter than its header or its count     *)
(*   "v10_tmpl"         version 10 with template sets only                 *)
(*   "v10_long"         version 10 declaring a length beyond the datagram  *)
(*   "v10_bad"          version 10 truncated header, set header or set     *)
(*   "short"            fewer than 2 bytes                                 *)
(*   "unknown"          a version other than 5 and 10                      *)
(*   "zero"             zero bytes (the stop datagram of hup_handler)      *)
(* An output is [dg |-> id, buf |-> b]: buf is NoBuf for a freshly built  *)
(* bytearray and the pool buffer itself when the converter returns it.    *)
(***************************************************************************)
EXTENDS Naturals, Sequences, FiniteSets

CONSTANTS
  Formats,      \* formats with a writer for this port: subset of AllFormats
  DataListMax,  \* Packet._data_list_max
  NoBuf         \* marks an output that does not alias a pool buffer

AllFormats == {"cflowd", "ipfix"}

ASSUME Formats \subseteq AllFormats /\ Formats # {}
ASSUME DataListMax \in Nat

VARIABLES
  queue,         \* Q1, shared with the receiver
  free_queue,    \* the receiver's free queue
  free_len,      \* Socket._free_len
  stop,          \* the threads' stop flag
  dpc,           \* get, item, return, incr, dead (exception), done
  items,         \* the batch taken from Q1
  idx,           \* index of the next item of the batch
  nret,          \* len(m_objs) of the return_buffs in progress
  tmp_free_len,  \* the value of _free_len read by return_buffs
  data_list,     \* data_list[f]: cflowd_data_list / ipfix_data_list
  aged,          \* aged[f]: data_list[f] is older than _max_time_in_list
  q2             \* q2[f]: the queue of the writer of format f

dvars == <<queue, free_queue, free_len, stop, dpc, items, idx, nret,
           tmp_free_len, data_list, aged, q2>>

Out(dg, b) == [dg |-> dg.id, buf |-> b]
StopItem   == [dg |-> 0, buf |-> NoBuf]      \* the bytearray(0) sentinel

(* netflow_v5_to_cflowd: (cflowd_data, ipfix_data) per format.  With     *)
(* cflowd off it checks nothing and returns ret[1][ipfix], the input pool *)
(* buffer itself.                                                         *)
V5Out(t) ==
  [f \in AllFormats |->
     CASE f = "cflowd" /\ "cflowd" \in Formats -> <<Out(t.dg, NoBuf)>>
       [] f = "ipfix" /\ "ipfix" \in Formats   -> <<Out(t.dg, t.buf)>>
       [] OTHER                                -> <<>>]

(* netflow_v10_to_cflowd: cflowd_buff, truncated to the records converted *)
(* from data sets, whether or not cflowd was asked for; ipfix_buff, a new *)
(* bytearray(buff_len), when ipfix is.  A declared length longer than the *)
(* datagram returns (None, None).                                         *)
V10Out(t) ==
  [f \in AllFormats |->
     CASE t.dg.kind = "v10_long"                   -> <<>>
       [] f = "cflowd" /\ t.dg.kind = "v10"        -> <<Out(t.dg, NoBuf)>>
       [] f = "ipfix" /\ "ipfix" \in Formats       -> <<Out(t.dg, NoBuf)>>
       [] OTHER                                    -> <<>>]

(* dispatch[version] of _process_loop; other versions are skipped.        *)
Converted(t) ==
  CASE t.dg.kind \in {"v5", "v5_short"}             -> V5Out(t)
    [] t.dg.kind \in {"v10", "v10_tmpl", "v10_long"} -> V10Out(t)
    [] OTHER                                        -> [f \in AllFormats |-> <<>>]

(* The converter raises ValueError (no handler: the thread dies).         *)
Raises(t) ==
  \/ t.dg.kind = "v10_bad"
  \/ t.dg.kind = "v5_short" /\ "cflowd" \in Formats

(* An accumulator the loop top puts on its writer's queue.                *)
FlushableSizeOnly(f) ==       \* a flush test that forgets the age
  data_list[f] # <<>> /\ Len(data_list[f]) > DataListMax
Flushable(f) ==
  data_list[f] # <<>> /\ (Len(data_list[f]) > DataListMax \/ aged[f])

(* The put of an accumulator whose format has no writer: self._cflowd_    *)
(* queue is None, so .put raises AttributeError and the thread dies.      *)
FlushFails == \E f \in AllFormats \ Formats : Flushable(f)

(* The loop top puts ipfix_data_list before cflowd_data_list, so a failed *)
(* ipfix put leaves a due cflowd list where it is.                        *)
Flushes(f) ==
  /\ f \in Formats
  /\ Flushable(f)
  /\ f = "cflowd" => ~FlushFails

(* What _do_stop puts on the queue of the writer of f: the accumulator,   *)
(* then a list holding one zero-length sentinel.                          *)
StopPutsNoFlush(f) == q2[f] \o <<StopItem>>     \* forgets the accumulator
StopPuts(f) == q2[f] \o data_list[f] \o <<StopItem>>

(* The buffers return_buffs puts back: m[2] of every tuple of the batch.  *)
ReturnedAllButLast(batch) == [i \in 1..Len(batch) - 1 |-> batch[i].buf]
ReturnedBufs(batch) == [i \in DOMAIN batch |-> batch[i].buf]

DInit ==
  /\ dpc = "get"
  /\ items = <<>>
  /\ idx = 1
  /\ nret = 0
  /\ tmp_free_len = 0
  /\ data_list = [f \in AllFormats |-> <<>>]
  /\ aged = [f \in AllFormats |-> FALSE]
  /\ q2 = [f \in Formats |-> <<>>]

-----------------------------------------------------------------------------
(* The loop top after the get: flush the accumulators that are due, then  *)
(* go on with the batch (an empty batch goes back to the get).            *)
TopOfLoop(batch) ==
  /\ q2' = [f \in Formats |->
              IF Flushes(f) THEN q2[f] \o data_list[f] ELSE q2[f]]
  /\ data_list' = [f \in AllFormats |->
                     IF Flushes(f) THEN <<>> ELSE data_list[f]]
  /\ aged' = [f \in AllFormats |-> aged[f] /\ ~Flushes(f)]
  /\ items' = batch
  /\ idx' = 1
  /\ dpc' = CASE FlushFails    -> "dead"
             [] batch = <<>>  -> "get"
             [] OTHER         -> "item"

(* queue.get: blocking when both accumulators are empty, otherwise with   *)
(* the timeout _max_time_in_list - age, which has not run out yet.        *)
GetItems ==
  /\ dpc = "get"
  /\ queue # <<>>
  /\ \A f \in AllFormats : ~aged[f]
  /\ queue' = <<>>
  /\ TopOfLoop(queue)
  /\ UNCHANGED <<free_queue, free_len, stop, nret, tmp_free_len>>

(* The oldest accumulator has aged: the get times out, or is skipped      *)
(* when the computed timeout is not positive; items = [].                 *)
GetTimeout ==
  /\ dpc = "get"
  /\ \E f \in AllFormats : aged[f]
  /\ TopOfLoop(<<>>)
  /\ UNCHANGED <<queue, free_queue, free_len, stop, nret, tmp_free_len>>

(* Time passes: an accumulator gets older than _max_time_in_list.         *)
Tick(f) ==
  /\ data_list[f] # <<>>
  /\ ~aged[f]
  /\ aged' = [aged EXCEPT ![f] = TRUE]
  /\ UNCHANGED <<queue, free_queue, free_len, stop, dpc, items, idx, nret,
                 tmp_free_len, data_list, q2>>

-----------------------------------------------------------------------------
(* One item of the batch: dispatch and append the outputs; an empty       *)
(* accumulator that gets an output restarts its age.                      *)
ConvertItem ==
  /\ dpc = "item"
  /\ idx <= Len(items)
  /\ LET t == items[idx] IN
     /\ ~(t.dg.kind = "zero" /\ stop)
     /\ \/ /\ Raises(t)
           /\ dpc' = "dead"
           /\ UNCHANGED <<idx, data_list, aged>>
        \/ /\ ~Raises(t)
           /\ data_list' = [f \in AllFormats |-> data_list[f] \o Converted(t)[f]]
           /\ aged' = [f \in AllFormats |->
                         IF data_list[f] = <<>> THEN FALSE ELSE aged[f]]
           /\ idx' = idx + 1
           /\ UNCHANGED dpc
  /\ UNCHANGED <<queue, free_queue, free_len, stop, items, nret,
                 tmp_free_len, q2>>

(* A zero-length item while stop is set: _do_stop puts the accumulators   *)
(* (ipfix first) and a zero-length sentinel on each writer queue; the     *)
(* batch's buffers are not returned.  A non-empty list of a format with   *)
(* no writer makes its put raise.                                         *)
DoStop ==
  /\ dpc = "item"
  /\ idx <= Len(items)
  /\ items[idx].dg.kind = "zero" /\ stop
  /\ \/ /\ \E f \in AllFormats \ Formats : data_list[f] # <<>>
        /\ q2' = [f \in Formats |->
                    IF f = "ipfix" THEN q2[f] \o data_list[f] ELSE q2[f]]
        /\ data_list' = [f \in AllFormats |->
                           IF f = "ipfix" /\ f \in Formats THEN <<>>
                           ELSE data_list[f]]
        /\ dpc' = "dead"
        /\ UNCHANGED aged
     \/ /\ \A f \in AllFormats \ Formats : data_list[f] = <<>>
        /\ q2' = [f \in Formats |-> StopPuts(f)]
        /\ data_list' = [f \in AllFormats |-> <<>>]
        /\ aged' = [f \in AllFormats |-> FALSE]
        /\ dpc' = "done"
  /\ UNCHANGED <<queue, free_queue, free_len, stop, items, idx, nret,
                 tmp_free_len>>

(* return_buffs, first half: put every buffer of the batch on the free    *)
(* queue, then load self._free_len for the +=.                            *)
ReturnBuffs ==
  /\ dpc = "item"
  /\ idx > Len(items)
  /\ free_queue' = free_queue \o ReturnedBufs(items)
  /\ nret' = Len(items)
  /\ tmp_free_len' = free_len
  /\ items' = <<>>
  /\ dpc' = "incr"
  /\ UNCHANGED <<queue, free_len, stop, idx, data_list, aged, q2>>

(* return_buffs, second half: store the incremented value.                *)
IncrFreeLen ==
  /\ dpc = "incr"
  /\ free_len' = tmp_free_len + nret
  /\ dpc' = "get"
  /\ UNCHANGED <<queue, free_queue, stop, items, idx, nret, tmp_free_len,
                 data_list, aged, q2>>

DNext ==
  \/ GetItems
  \/ GetTimeout
  \/ \E f \in AllFormats : Tick(f)
  \/ ConvertItem
  \/ DoStop
  \/ ReturnBuffs
  \/ IncrFreeLen

=============================================================================
