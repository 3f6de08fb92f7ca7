------------------------------ MODULE Pipeline ------------------------------
(***************************************************************************)
(* One configured port of ipfixd (main.py): the socket reader thread      *)
(* (Receiver), the packet processor thread (Decoder), the exporters that  *)
(* send datagrams, the SIGHUP shutdown (main.hup_handler), the SIGTERM    *)
(* fast stop (main.term_handler) and, for each                            *)
(* configured format, a writer thread reduced to the order in which it    *)
(* takes items off its queue (Writer.write_loop; see Writer.tla).         *)
(***************************************************************************)
EXTENDS Naturals, Sequences, FiniteSets, SequencesExt

CONSTANTS
  NBuf,                        \* Receiver
  Formats, DataListMax, NoBuf, \* Decoder
  Kinds,                       \* datagram kinds the exporters send
  MaxDgrams,                   \* datagrams the exporters send
  Signals                      \* the signals the operator may send: "hup", "term"

VARIABLES
  net, free_list, read_list, read_list_reason, free_list_reason, rpc,
  free_len, queue, free_queue, content,
  rstop,     \* the socket reader's stop event
  dstop,     \* the packet processor's stop event
  dpc, items, idx, nret, tmp_free_len, data_list, aged, q2,
  arrived,   \* history: every datagram sent to the port, in order
  zsent,     \* hup_handler has sent its zero-length datagram
  written,   \* written[f]: what the writer of f has taken, in order
  wdone,     \* wdone[f]: the writer of f took the zero-length sentinel
  sig        \* none; term (writer queues emptied); hup (hup_handler runs)

R == INSTANCE Receiver WITH stop <- rstop
D == INSTANCE Decoder WITH stop <- dstop

Buffers == R!Buffers

rvars == <<net, free_list, read_list, read_list_reason, free_list_reason,
           rpc, content>>
dvars == <<dpc, items, idx, nret, tmp_free_len, data_list, aged, q2>>
evars == <<arrived, zsent, written, wdone, sig>>
shared == <<free_len, queue, free_queue>>
vars  == <<rvars, shared, rstop, dstop, dvars, evars>>

Datagrams == [id : 1..MaxDgrams + 1, kind : Kinds \cup {"zero"}]
NoContent == 0

Init ==
  /\ R!RInit
  /\ D!DInit
  /\ net = <<>>
  /\ content = [b \in Buffers |-> NoContent]
  /\ rstop = FALSE
  /\ dstop = FALSE
  /\ arrived = <<>>
  /\ zsent = FALSE
  /\ written = [f \in Formats |-> <<>>]
  /\ wdone = [f \in Formats |-> FALSE]
  /\ sig = "none"

-----------------------------------------------------------------------------
(* A datagram reaches the socket's kernel buffer.                         *)
Put(k) ==
  LET d == [id |-> Len(arrived) + 1, kind |-> k] IN
  /\ net' = Append(net, d)
  /\ arrived' = Append(arrived, d)

(* An exporter sends a datagram of kind k.                                *)
Send(k) ==
  /\ Len(arrived) < MaxDgrams
  /\ Put(k)
  /\ UNCHANGED <<free_list, read_list, read_list_reason, free_list_reason,
                 rpc, content, shared, rstop, dstop, dvars, zsent, written,
                 wdone, sig>>

(* SIGHUP or SIGINT: the main thread runs hup_handler.                    *)
SigHup ==
  /\ sig = "none" /\ "hup" \in Signals
  /\ sig' = "hup"
  /\ UNCHANGED <<rvars, shared, rstop, dstop, dvars, arrived, zsent, written,
                 wdone>>

(* SIGTERM: term_handler calls qempty() on all_threads in order: each      *)
(* writer's queue is emptied by gets of the whole deque, then the socket   *)
(* reader's Q1 (the packet processor has no qempty); then hup_handler.     *)
TermQemptyWriters ==
  /\ sig = "none" /\ "term" \in Signals
  /\ q2' = [f \in Formats |-> <<>>]
  /\ sig' = "term"
  /\ UNCHANGED <<rvars, shared, rstop, dstop, dpc, items, idx, nret,
                 tmp_free_len, data_list, aged, arrived, zsent, written, wdone>>

TermQemptySocket ==
  /\ sig = "term"
  /\ queue' = <<>>
  /\ sig' = "hup"
  /\ UNCHANGED <<rvars, free_len, free_queue, rstop, dstop, dvars, arrived,
                 zsent, written, wdone>>

(* hup_handler calls t.stop() on all_threads in order: the writers, then  *)
(* the socket reader, then the packet processor of the port.              *)
HupStopReceiver ==
  /\ sig = "hup" /\ ~rstop
  /\ rstop' = TRUE
  /\ UNCHANGED <<rvars, shared, dstop, dvars, evars>>

HupStopDecoder ==
  /\ rstop /\ ~dstop
  /\ dstop' = TRUE
  /\ UNCHANGED <<rvars, shared, rstop, dvars, evars>>

(* ... then sends a zero-length datagram to the port.                     *)
HupSend ==
  /\ dstop /\ ~zsent
  /\ Put("zero")
  /\ zsent' = TRUE
  /\ UNCHANGED <<free_list, read_list, read_list_reason, free_list_reason,
                 rpc, content, shared, rstop, dstop, dvars, written, wdone,
                 sig>>

(* write_loop with no I/O error: get the whole queue, write each item in  *)
(* order, stop at the first zero-length item and drop what follows it.    *)
(* A pool buffer is written with the bytes it holds at that moment.       *)
EmptyBatch(batch, i) == batch = <<>>            \* len(items) == 0
IsEmptyItem(batch, i) == batch[i].dg = D!StopItem.dg   \* len(item) == 0

StopIndex(batch) ==
  LET z == {i \in DOMAIN batch : IsEmptyItem(batch, i)}
  IN  IF z = {} THEN Len(batch) + 1 ELSE CHOOSE i \in z : \A j \in z : i <= j

Record(o) == [dg |-> o.dg,
              got |-> IF o.buf = NoBuf THEN o.dg ELSE content[o.buf]]

WriteLoop(f) ==
  /\ ~wdone[f]
  /\ q2[f] # <<>>
  /\ LET batch == q2[f]
         k == StopIndex(batch)
     IN /\ written' = [written EXCEPT ![f] =
                        @ \o [i \in 1..k - 1 |-> Record(batch[i])]]
        /\ wdone' = [wdone EXCEPT ![f] = k <= Len(batch)]
  /\ q2' = [q2 EXCEPT ![f] = <<>>]
  /\ UNCHANGED <<rvars, shared, rstop, dstop, dpc, items, idx, nret,
                 tmp_free_len, data_list, aged, arrived, zsent, sig>>

ReceiverStep ==
  /\ R!RNext
  /\ UNCHANGED <<rstop, dstop, dvars, evars>>

DecoderStep ==
  /\ D!DNext
  /\ UNCHANGED <<rvars, rstop, evars>>

Next ==
  \/ ReceiverStep
  \/ DecoderStep
  \/ \E k \in Kinds : Send(k)
  \/ SigHup
  \/ TermQemptyWriters
  \/ TermQemptySocket
  \/ HupStopReceiver
  \/ HupStopDecoder
  \/ HupSend
  \/ \E f \in Formats : WriteLoop(f)

(* Every thread is an OS thread that keeps running while it can; time     *)
(* passes (Tick).  The exporters and the operator's SIGHUP are not        *)
(* obliged to do anything, but a signal handler, once started, runs to    *)
(* its end.                                                               *)
Fairness ==
  /\ WF_vars(ReceiverStep)
  /\ WF_vars(DecoderStep)
  /\ \A f \in Formats : WF_vars(WriteLoop(f))
  /\ WF_vars(TermQemptySocket)
  /\ WF_vars(HupStopReceiver)
  /\ WF_vars(HupStopDecoder)
  /\ WF_vars(HupSend)

Spec == Init /\ [][Next]_vars /\ Fairness

-----------------------------------------------------------------------------
Tuples  == [buf : Buffers, dg : Datagrams]
Outputs == [dg : 0..MaxDgrams + 1, buf : Buffers \cup {NoBuf}]

TypeOK ==
  /\ net \in Seq(Datagrams)
  /\ free_list \in Seq(Buffers) /\ free_queue \in Seq(Buffers)
  /\ read_list \in Seq(Tuples) /\ queue \in Seq(Tuples) /\ items \in Seq(Tuples)
  /\ read_list_reason \in R!ReadReasons /\ free_list_reason \in R!FreeReasons
  /\ rpc \in {"manage", "recv", "wait_free", "done"}
  /\ dpc \in {"get", "item", "incr", "dead", "done"}
  /\ free_len \in Nat /\ tmp_free_len \in Nat /\ nret \in 0..NBuf
  /\ content \in [Buffers -> 0..MaxDgrams + 1]
  /\ data_list \in [D!AllFormats -> Seq(Outputs)]
  /\ q2 \in [Formats -> Seq(Outputs)]
  /\ aged \in [D!AllFormats -> BOOLEAN]
  /\ written \in [Formats -> Seq([dg : 1..MaxDgrams + 1, got : 0..MaxDgrams + 1])]
  /\ wdone \in [Formats -> BOOLEAN]

\* How many places hold buffer b: the receiver's lists, the two queues and
\* the batch of a live packet processor.
Occ(s, b) == Cardinality({i \in DOMAIN s : s[i].buf = b})
Count(s, b) == Cardinality({i \in DOMAIN s : s[i] = b})
Holders(b) ==
    Count(free_list, b) + Count(free_queue, b)
  + Occ(read_list, b) + Occ(queue, b)
  + (IF dpc = "dead" THEN 0 ELSE Occ(items, b))

(* Buffer conservation: every pool buffer is, at every moment, in exactly *)
(* one of free_list, free queue, read_list, Q1 or the batch being         *)
(* decoded.  It is broken if return_buffs loses or repeats a buffer, if   *)
(* recvfrom_into writes a buffer still in use, or if the packet processor *)
(* dies holding a batch (the pool then shrinks for good).                 *)
NoBufferLost == \A b \in Buffers : Holders(b) = 1

Ids(s) == [i \in DOMAIN s |-> s[i].dg]

HasOutput(d, f) == D!Converted([buf |-> NoBuf, dg |-> d])[f] # <<>>

(* A graceful stop loses nothing: when the writer of f has taken the      *)
(* zero-length sentinel, it has taken a record of every datagram before   *)
(* the stop datagram that converts to format f (_do_stop flushes both     *)
(* accumulators before the sentinels).                                    *)
StopDeliversAll ==
  \A f \in Formats : wdone[f] =>
    {written[f][i].dg : i \in DOMAIN written[f]} =
      {arrived[i].id : i \in {j \in DOMAIN arrived :
          arrived[j].id < items[idx].dg.id /\ HasOutput(arrived[j], f)}}

(* Every record a writer takes holds the bytes of the datagram it was     *)
(* made from.                                                             *)
WrittenIntact ==
  \A f \in Formats : \A i \in DOMAIN written[f] :
    written[f][i].got = written[f][i].dg

(* A received datagram is handed to the packet processor: a datagram on   *)
(* read_list leaves it, even if no more traffic arrives (the 2-second     *)
(* socket timeout exists for that).                                       *)
InReadList(i) == \E j \in DOMAIN read_list : read_list[j].dg.id = i
ReadListHandedOn == \A i \in 1..MaxDgrams : InReadList(i) ~> ~InReadList(i)

(* An accumulator is written out within _max_time_in_list even if no more *)
(* traffic arrives.                                                       *)
OutputNotStranded ==
  \A f \in Formats : data_list[f] # <<>> ~> data_list[f] = <<>>

(* Refinement: the port behaves as FormatChannel says.  The datagrams    *)
(* offered to the writer of f are those that arrived with a record for f; *)
(* what it has taken is the datagram ids of written[f].                   *)
OutputKinds ==    \* the kinds of datagram with a record for f (constant)
  [f \in Formats |-> {k \in Kinds : HasOutput([id |-> 0, kind |-> k], f)}]
Offered(f) ==
  LET o == SelectSeq(arrived, LAMBDA d : d.kind \in OutputKinds[f])
  IN  [i \in DOMAIN o |-> o[i].id]
Chan == INSTANCE FormatChannel WITH Channels <- Formats,
          offered <- [f \in Formats |-> Offered(f)],
          taken <- [f \in Formats |-> Ids(written[f])]

(* The writer of each format takes, at every moment, exactly the records  *)
(* of the first datagrams offered to it, in arrival order: the socket     *)
(* reader, Q1, the batch walk, the accumulator and the writer's queue     *)
(* never skip, repeat or reorder a record, even before the stop.          *)
DeliversPrefix == Chan!Spec

(* Once hup_handler has sent its zero-length datagram, every writer gets  *)
(* its sentinel, so usr1_handler's wait for all threads to die ends.      *)
StopCompletes == zsent ~> \A f \in Formats : wdone[f]

=============================================================================
