----------------------------- MODULE V5Convert -----------------------------
(***************************************************************************)
(* NetFlow v5 to cflowd conversion, cflowd.netflow_v5_to_cflowd and its   *)
(* helpers v5_get_info and v5_handle_expected_flow_id, run by one packet  *)
(* thread per port (packet.Packet).                                       *)
(*                                                                         *)
(* The byte mover netflow_v5_to_cflowd_byte_mover is ONE module-global    *)
(* object shared by every packet thread: header.v5_header writes the      *)
(* datagram's flow id into it, the thread stores the record count in it,  *)
(* v5_get_info stores the exporter address in it when a new (address,     *)
(* port) key appears, and byte_mover reads all three when it writes the   *)
(* cflowd records.  The sequence table netflow_v5_flow_ids is global too, *)
(* but keyed by (address, port), so only one thread touches an entry.     *)
(*                                                                         *)
(* Each thread step is one atomic step: the Cython calls hold the GIL     *)
(* throughout, and the Python between them is grouped at the calls.       *)
(* The exporters are the environment, modelled on send.py: each link      *)
(* (exporter address, collector port) numbers its datagrams from 1 and    *)
(* adds the record count per datagram; the network may lose datagrams    *)
(* but keeps the order of each link.                                     *)
(***************************************************************************)
EXTENDS Naturals, Sequences, SequencesExt, FiniteSets, ByteMoves

CONSTANTS
    Exporters,      \* exporter addresses (model values)
    Ports,          \* collector ports, one packet thread each
    Links,          \* the (exporter, port) pairs that carry traffic
    Cnt,            \* records per datagram (send.py sends 28)
    MaxDg,          \* datagrams each link sends
    LogMissingFull, \* the --log-missing-full option
    NoInfo,         \* no entry for the key in netflow_v5_flow_ids
    NoAddr          \* the byte mover's address before any key was seen

ASSUME Links \subseteq Exporters \X Ports /\ Cnt \in Nat \ {0}
       /\ MaxDg \in Nat /\ LogMissingFull \in BOOLEAN

VARIABLES
    net,        \* net[l]: datagrams of link l in flight, in send order
    nextfid,    \* nextfid[l]: send.py's flow_id for link l's next datagram
    pc,         \* pc[p]: where port p's packet thread is
    cur,        \* cur[p]: the datagram thread p is converting
    bm,         \* the shared byte mover: [address, flow_id, cnt]
    flow_ids,   \* netflow_v5_flow_ids: expected_flow_id per link, or NoInfo
    logged,     \* the missing-flows errors logged: [key, expected, got]
    got,        \* history: datagrams whose flow id was checked
    lost,       \* history: datagrams the network lost
    emitted     \* history: cflowd batches written: datagram and mover fields

vars == <<net, nextfid, pc, cur, bm, flow_ids, logged, got, lost, emitted>>

Dgram == [src : Links, fid : Nat, cnt : {Cnt}]

\* The exporter address a key stands for (v5_get_info's inet_pton of t_address).
AddressOfWholeKey(k) == k                     \* the (address, port) tuple
Address(k) == k[1]

LinksOf(p) == {l \in Links : l[2] = p}

-----------------------------------------------------------------------------
(* The exporter, send.py: send one datagram, then flow_id += 28.           *)

Send(l) ==
    /\ nextfid[l] < 1 + MaxDg * Cnt
    /\ net' = [net EXCEPT ![l] = Append(@, [src |-> l, fid |-> nextfid[l],
                                            cnt |-> Cnt])]
    /\ nextfid' = [nextfid EXCEPT ![l] = @ + Cnt]
    /\ UNCHANGED <<pc, cur, bm, flow_ids, logged, got, lost, emitted>>

\* UDP loses a datagram of link l.
Lose(l) ==
    /\ \E d \in ToSet(net[l]) :
         /\ net' = [net EXCEPT ![l] = Remove(@, d)]
         /\ lost' = lost \cup {d}
    /\ UNCHANGED <<nextfid, pc, cur, bm, flow_ids, logged, got, emitted>>

-----------------------------------------------------------------------------
(* The packet thread of port p, netflow_v5_to_cflowd with cflowd on.       *)

\* The thread takes the next datagram of one of its links; header.v5_header
\* writes its flow id into the shared byte mover, and the thread stores
\* the count there (bm.cnt = cnt = flow_info[0]).
Header(p) ==
    /\ pc[p] = "idle"
    /\ \E l \in LinksOf(p) :
         /\ net[l] # <<>>
         /\ cur' = [cur EXCEPT ![p] = Head(net[l])]
         /\ net' = [net EXCEPT ![l] = Tail(@)]
         /\ bm' = [bm EXCEPT !.flow_id = Head(net[l]).fid,
                             !.cnt = Head(net[l]).cnt]
    /\ pc' = [pc EXCEPT ![p] = "info"]
    /\ UNCHANGED <<nextfid, flow_ids, logged, got, lost, emitted>>

\* v5_get_info: the key is already in the table, or it is added with the
\* datagram's flow id as expected_flow_id and its address is stored in
\* the shared byte mover.
IsKnownNever(k) == FALSE                     \* entry re-created each time
IsKnown(k) == flow_ids[k] # NoInfo

GetInfo(p) ==
    LET d == cur[p] IN
    /\ pc[p] = "info"
    /\ IF IsKnown(d.src)
         THEN UNCHANGED <<flow_ids, bm>>
         ELSE /\ flow_ids' = [flow_ids EXCEPT ![d.src] = d.fid]
              /\ bm' = [bm EXCEPT !.address = Address(d.src)]
    /\ pc' = [pc EXCEPT ![p] = "expected"]
    /\ UNCHANGED <<net, nextfid, cur, logged, got, lost, emitted>>

\* v5_handle_expected_flow_id: the next expected id, and the gap test.
NextExpectedNoCnt(d) == d.fid                 \* count not added
NextExpected(d) == d.fid + d.cnt

GapLogged(expected, fid) == fid # expected /\ fid > expected

HandleExpected(p) ==
    LET d == cur[p]
        expected == flow_ids[d.src] IN
    /\ pc[p] = "expected"
    /\ IF LogMissingFull
         THEN /\ flow_ids' = [flow_ids EXCEPT ![d.src] = NextExpected(d)]
              /\ logged' = IF GapLogged(expected, d.fid)
                             THEN logged \cup {[key |-> d.src,
                                    expected |-> expected, got |-> d.fid]}
                             ELSE logged
         ELSE UNCHANGED <<flow_ids, logged>>
    /\ got' = got \cup {d}
    /\ pc' = [pc EXCEPT ![p] = "move"]
    /\ UNCHANGED <<net, nextfid, cur, bm, lost, emitted>>

\* byte_mover(buff, cflowd_buff): writes bm.cnt records numbered from
\* bm.flow_id, stamped with bm.address, from the thread's own datagram.
Move(p) ==
    /\ pc[p] = "move"
    /\ emitted' = emitted \cup {[dg |-> cur[p], address |-> bm.address,
                                 flow_id |-> bm.flow_id, cnt |-> bm.cnt]}
    /\ pc' = [pc EXCEPT ![p] = "idle"]
    /\ UNCHANGED <<net, nextfid, cur, bm, flow_ids, logged, got, lost>>

-----------------------------------------------------------------------------

Init ==
    /\ net = [l \in Links |-> <<>>]
    /\ nextfid = [l \in Links |-> 1]
    /\ pc = [p \in Ports |-> "idle"]
    /\ cur = [p \in Ports |-> [src |-> CHOOSE l \in Links : TRUE,
                                fid |-> 0, cnt |-> Cnt]]
    /\ bm = [address |-> NoAddr, flow_id |-> 0, cnt |-> 0]
    /\ flow_ids = [l \in Links |-> NoInfo]
    /\ logged = {}
    /\ got = {}
    /\ lost = {}
    /\ emitted = {}

Next ==
    \/ \E l \in Links : Send(l) \/ Lose(l)
    \/ \E p \in Ports : Header(p) \/ GetInfo(p) \/ HandleExpected(p) \/ Move(p)

Spec == Init /\ [][Next]_vars

-----------------------------------------------------------------------------
(* Properties                                                              *)

MaxFid == 1 + MaxDg * Cnt

TypeOK ==
    /\ \A l \in Links : net[l] \in Seq(Dgram)
    /\ nextfid \in [Links -> 1..MaxFid]
    /\ pc \in [Ports -> {"idle", "info", "expected", "move"}]
    /\ cur \in [Ports -> Dgram]
    /\ bm \in [address : Exporters \cup {NoAddr}, flow_id : 0..MaxFid,
               cnt : {0, Cnt}]
    /\ flow_ids \in [Links -> 1..MaxFid \cup {NoInfo}]

\* Every missing-flows error logged by v5_handle_expected_flow_id names
\* flows that were really lost: no datagram whose flows overlap the
\* reported range [expected, got) was received on that key.
GapsGenuine ==
    \A g \in logged : \A d \in got :
        d.src = g.key => d.fid + d.cnt <= g.expected \/ d.fid >= g.got

\* Every datagram the network lost between two datagrams the thread did
\* receive on the same key is inside a logged missing-flows range.
LossReported ==
    \A d \in lost :
        (/\ \E a \in got : a.src = d.src /\ a.fid < d.fid
         /\ \E b \in got : b.src = d.src /\ b.fid > d.fid)
        => \E g \in logged : g.key = d.src /\ g.expected <= d.fid
                                           /\ d.fid < g.got

\* Every cflowd batch byte_mover writes carries its own datagram's
\* exporter address, flow ids and record count.
RecordsFaithful ==
    \A b \in emitted : /\ b.address = Address(b.dg.src)
                       /\ b.flow_id = b.dg.fid
                       /\ b.cnt = b.dg.cnt

\* Every cflowd batch byte_mover writes is converted with the plan that
\* netflow_v5_init built at startup from netflow_v5_list and
\* cflowd_field_list, and that plan is the one the C structs call for
\* (V5ByteMoverMatchesReference in ByteMoves).
MovedByReferencePlan == emitted # {} => V5ByteMoverMatchesReference
=============================================================================
