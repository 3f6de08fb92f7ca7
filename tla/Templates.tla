------------------------------ MODULE Templates ------------------------------
(***************************************************************************)
(* The IPFIX template cache of one port and the set walk of                *)
(* netflow_v10_to_cflowd (cflowd.py) that feeds it: check_for_new_template,*)
(* the field walk of v10_template_set, and the data-set lookup of          *)
(* v10_get_info.                                                           *)
(*                                                                         *)
(* Only the packet processor of the port touches its keys, in datagram     *)
(* order, so the exporter's send and the decoder's walk are not            *)
(* interleaved with anything else: a datagram is walked one set per step.  *)
(*                                                                         *)
(* A set's payload is a sequence of 4-byte words [id, len]: a template     *)
(* record header is [template id, field count], a field specifier is       *)
(* [field id, length], and an enterprise number that follows a field with  *)
(* the enterprise bit is [0, 0] (a PEN below 2^16 has a zero high half).   *)
(* Padding shorter than a word is never part of the template bytes, since  *)
(* the walk of check_for_new_template stops 4 bytes before the end; it is  *)
(* left out.                                                               *)
(***************************************************************************)
EXTENDS Naturals, Sequences, FiniteSets, SequencesExt, ByteMoves

CONSTANTS
  TIds,       \* template ids the exporter uses (> 255)
  Layouts,    \* field-id sequences the exporter may define a template as
  MaxPerSet,  \* template records per template set
  MaxMsgs,    \* datagrams the exporter sends
  ZeroSets    \* the exporter may send a set whose length field is 0

FlowStartMs == 152                 \* ipfix_id_to_info[152]
FlowEndMs   == 153                 \* ipfix_id_to_info[153]
EntWord     == [id |-> 0, len |-> 0]

\* The field length the exporter gives each field id of the layouts: the
\* abstract data type sizes of RFC 7012 (an enterprise field is 4 bytes).
FieldLen(f) == CASE f \in {1, 2, FlowStartMs, FlowEndMs} -> 8
                 [] f \in {4, 5, 6, 9, 13}              -> 1
                 [] f \in {7, 11}                       -> 2
                 [] f = 27                              -> 16
                 [] OTHER                               -> 4

(* ipfix_id_to_info[id][0], the name v10_template_set gives a field: the   *)
(* ids of the cflowd record's fields, the timestamps and sourceIPv6Address *)
(* (the layouts use no other id below 512).  Every other entry of the 512  *)
(* is 'RESERVED', and an id past the list raises IndexError, which         *)
(* v10_template_set turns into 'RESERVED' too.                             *)
IpfixName ==
  (1 :> "octetDeltaCount") @@ (2 :> "packetDeltaCount") @@
  (4 :> "protocolIdentifier") @@ (5 :> "ipClassOfService") @@
  (6 :> "tcpControlBits") @@ (7 :> "sourceTransportPort") @@
  (8 :> "sourceIPv4Address") @@ (9 :> "sourceIPv4PrefixLength") @@
  (10 :> "ingressInterface") @@ (11 :> "destinationTransportPort") @@
  (12 :> "destinationIPv4Address") @@ (13 :> "destinationIPv4PrefixLength") @@
  (14 :> "egressInterface") @@ (15 :> "ipNextHopIPv4Address") @@
  (16 :> "bgpSourceAsNumber") @@ (17 :> "bgpDestinationAsNumber") @@
  (27 :> "sourceIPv6Address") @@ (130 :> "exporterIPv4Address") @@
  (148 :> "flowId") @@ (150 :> "flowStartSeconds") @@ (151 :> "flowEndSeconds") @@
  (FlowStartMs :> "flowStartMilliseconds") @@ (FlowEndMs :> "flowEndMilliseconds")
FieldName(id) == IF id \in DOMAIN IpfixName THEN IpfixName[id] ELSE "RESERVED"

\* The words of a template record as the exporter encodes it (RFC 7011
\* 3.4.1): the enterprise bit is 0x8000.
FieldWords(f) == <<[id |-> f, len |-> FieldLen(f)]>> \o
                 (IF f >= 32768 THEN <<EntWord>> ELSE <<>>)
RecordWords(t, l) ==
  <<[id |-> t, len |-> Len(l)]>> \o FlattenSeq([i \in DOMAIN l |-> FieldWords(l[i])])

VARIABLES
  cur,       \* exporter: cur[t] is its current layout of template t
  defd,      \* exporter: templates it has defined
  sentdefs,  \* history: every [tid, layout, kind] the exporter has sent
  nmsg,      \* datagrams sent
  tpl,       \* the templates dict: tid -> [bytes, fields, compat]
  dead,      \* the packet processor died of an exception
  listed,    \* listed_templates: keys reported as not yet defined
  dg,        \* the datagram being walked, <<>> between datagrams
  si,        \* index of the set at offset
  cf,        \* cflowd output: [sid, used, def] per converted data set
  ip         \* ipfix output: the sets copied to ipfix_buff, in order

vars == <<cur, defd, sentdefs, nmsg, tpl, dead, listed, dg, si, cf, ip>>

-----------------------------------------------------------------------------
(* check_for_new_template: the template is new unless the cache holds the  *)
(* same bytes under the key of its first record.                           *)
IsNew(words) ==
  LET t == words[1].id IN ~(t \in DOMAIN tpl /\ tpl[t].bytes = words)

(* v10_template_set's field loop: read cnt field specifiers, skipping the  *)
(* enterprise number of an id above 0x1000.  The exporter's counts are     *)
(* right, so the loop never runs past the set (its ValueError is the       *)
(* v10_bad kind of Decoder).                                               *)
RECURSIVE ParseFields(_, _, _)
ParseFields(w, pos, k) ==
  IF k = 0 THEN <<>>
  ELSE <<w[pos]>> \o
       ParseFields(w, pos + 1 + (IF w[pos].id > 4096 THEN 1 ELSE 0), k - 1)

Ids(fs) == [i \in DOMAIN fs |-> fs[i].id]
FirstRecord(words) == ParseFields(words, 2, words[1].len)

(* v10_template_set's field_list [name, len, data_offset] (the offset is  *)
(* the sum of the lengths before it, RefOffset).                           *)
FieldList(fs) == [i \in DOMAIN fs |-> [name |-> FieldName(fs[i].id), len |-> fs[i].len]]

(* make_pack_items(field_list), then make_byte_moves(the_struct, the_keys, *)
(* cflowd_struct, cflowd_keys).  The plan is a function of the field list  *)
(* alone, so it is tabled (TLC evaluates a constant once) for every field  *)
(* list the exporter can send; a 3, 5, 6 or 7-byte field never gets this   *)
(* far.                                                                    *)
Pack(words) == MakePackItems(FieldList(FirstRecord(words)), TRUE)
SentFieldLists ==
  {FieldList([i \in DOMAIN l |-> [id |-> l[i], len |-> FieldLen(l[i])]]) : l \in Layouts}
PlanTable ==
  [fl \in SentFieldLists |-> MakeByteMoves(MakePackItems(fl, TRUE), CflowdPack)]
Plan(words) == PlanTable[FieldList(FirstRecord(words))]

\* Whether the plan of each field list agrees with RefPlan (tabled likewise).
AgreesTable ==
  [fl \in SentFieldLists |-> PlanAgrees(PlanTable[fl], fl, CflowdFieldList)]

(* What v10_template_set stores: the fields of the first record (its byte  *)
(* mover is Plan of the same bytes), and cflowd_compat when both           *)
(* millisecond timestamps are among the_keys.                              *)
Installed(words) ==
  [bytes |-> words, fields |-> Ids(FirstRecord(words)),
   compat |-> {"flowStartMilliseconds", "flowEndMilliseconds"} \subseteq DOMAIN Pack(words).keys]

(* v10_template_set raises out of make_pack_items or make_byte_moves.      *)
InstallRaises(words) ==
  PackRaises(FieldList(FirstRecord(words))) \/ Plan(words).raised

(* v10_options_template_set only calls make_pack_items.                    *)
OptionsInstallRaises(words) == PackRaises(FieldList(FirstRecord(words)))

(* v10_options_template_set: the same field walk; never cflowd compatible. *)
OptionsInstalledAsTemplate(words) == Installed(words)   \* compat tested
OptionsInstalled(words) ==
  [Installed(words) EXCEPT !.compat = FALSE]

(* v10_get_info: an unknown template is reported once (listed_templates)  *)
(* and gives None, as does one that is not cflowd compatible; otherwise   *)
(* the template's byte mover is set up for the set.                       *)
Lookup(sid) ==
  CASE sid \notin DOMAIN tpl  -> "unknown"
    [] ~tpl[sid].compat      -> "incompatible"
    [] OTHER                 -> "converted"

(* offset += set_len.                                                      *)
Advance(s, i) == IF s.kind = "zero" THEN i ELSE i + 1

(* while offset < buff_len: the walk ends at the end of the datagram.      *)
LoopEndsLate(i, d) == i > Len(d) + 1        \* one set past the end
LoopEnds(i, d) == i > Len(d)

-----------------------------------------------------------------------------
Init ==
  /\ cur \in [TIds -> Layouts]
  /\ defd = {}
  /\ sentdefs = {}
  /\ nmsg = 0
  /\ tpl = [t \in {} |-> 0]
  /\ dead = FALSE
  /\ listed = {}
  /\ dg = <<>>
  /\ si = 1
  /\ cf = <<>>
  /\ ip = <<>>

\* Template sets (set id 2) and options template sets (set id 3) of
\* 1..MaxPerSet records of distinct ids, each with a layout.  The options
\* header's scope field count only names fields in the log; it is left out.
TemplateSets ==
  UNION {{[kind |-> k, recs |-> [i \in DOMAIN ts |-> [tid |-> ts[i], lay |-> ls[i]]]] :
            ls \in [DOMAIN ts -> Layouts], k \in {"tmpl", "opts"}} :
         ts \in {s \in BoundedSeq(TIds, MaxPerSet) : s # <<>> /\ IsInjective(s)}}

SetWords(s) == FlattenSeq([i \in DOMAIN s.recs |-> RecordWords(s.recs[i].tid, s.recs[i].lay)])

(* The exporter sends a datagram: a (options) template set, a data set of a template *)
(* it has defined (in its current layout), both, a set with a reserved id, *)
(* or a set whose length field is 0.                                       *)
Send ==
  /\ dg = <<>> /\ nmsg < MaxMsgs
  /\ \E T \in TemplateSets, t \in TIds, b \in BOOLEAN :
       LET newcur == [u \in TIds |->
                        IF \E i \in DOMAIN T.recs : T.recs[i].tid = u
                        THEN (CHOOSE r \in Range(T.recs) : r.tid = u).lay
                        ELSE cur[u]]
           newdefd == defd \cup {T.recs[i].tid : i \in DOMAIN T.recs}
           D == [kind |-> "data", sid |-> t, def |-> newcur[t]]
           Tw == [kind |-> T.kind, words |-> SetWords(T)]
       IN \/ /\ b
             /\ dg' \in {<<Tw>>} \cup (IF t \in newdefd THEN {<<Tw, D>>} ELSE {})
             /\ cur' = newcur /\ defd' = newdefd
             /\ sentdefs' = sentdefs \cup
                  {[tid |-> T.recs[i].tid, lay |-> T.recs[i].lay, kind |-> T.kind] :
                   i \in DOMAIN T.recs}
          \/ /\ ~b
             /\ dg' \in (IF t \in defd THEN {<<[kind |-> "data", sid |-> t, def |-> cur[t]]>>}
                         ELSE {})
                        \cup {<<[kind |-> "other"]>>}
                        \cup (IF ZeroSets THEN {<<[kind |-> "zero"]>>} ELSE {})
             /\ UNCHANGED <<cur, defd, sentdefs>>
  /\ si' = 1
  /\ nmsg' = nmsg + 1
  /\ UNCHANGED <<tpl, dead, listed, cf, ip>>

(* One pass of the set loop of netflow_v10_to_cflowd.                      *)
(*  set_id > 255: v10_get_info looks the template up; an unknown one is    *)
(*    reported once and skipped, an incompatible one is skipped; else the  *)
(*    byte mover converts the set and the set is copied to ipfix_buff.     *)
(*  set_id == 2 or 3: a new (options) template is installed and copied to *)
(*    ipfix_buff, unless building its plan raises: nothing catches the     *)
(*    ValueError and the thread ends (Packet.run logs it).                 *)
(*  other ids: skipped.                                                    *)
WalkSet ==
  /\ dg # <<>> /\ ~dead
  /\ LET s == dg[si] IN
     /\ \/ /\ s.kind = "data"
           /\ \/ /\ Lookup(s.sid) = "unknown"
                 /\ listed' = listed \cup {s.sid}
                 /\ UNCHANGED <<cf, ip>>
              \/ /\ Lookup(s.sid) = "incompatible"
                 /\ UNCHANGED <<listed, cf, ip>>
              \/ /\ Lookup(s.sid) = "converted"
                 /\ cf' = Append(cf, [sid |-> s.sid, used |-> tpl[s.sid].fields,
                                      def |-> s.def])
                 /\ ip' = Append(ip, [kind |-> "data", tid |-> s.sid])
                 /\ UNCHANGED listed
           /\ UNCHANGED <<tpl, dead>>
        \/ /\ s.kind \in {"tmpl", "opts"}
           /\ LET raises == IF s.kind = "tmpl" THEN InstallRaises(s.words)
                                               ELSE OptionsInstallRaises(s.words)
                  entry  == IF s.kind = "tmpl" THEN Installed(s.words)
                                               ELSE OptionsInstalled(s.words)
              IN \/ /\ ~IsNew(s.words)
                    /\ UNCHANGED <<tpl, ip, dead>>
                 \/ /\ IsNew(s.words) /\ ~raises
                    /\ tpl' = (s.words[1].id :> entry) @@ tpl
                    /\ ip' = Append(ip, [kind |-> s.kind, tid |-> s.words[1].id])
                    /\ UNCHANGED dead
                 \/ /\ IsNew(s.words) /\ raises
                    /\ dead' = TRUE
                    /\ UNCHANGED <<tpl, ip>>
           /\ UNCHANGED <<listed, cf>>
        \/ /\ s.kind \in {"other", "zero"}
           /\ UNCHANGED <<tpl, dead, listed, cf, ip>>
     /\ IF dead'
        THEN UNCHANGED <<si, dg>>
        ELSE /\ si' = Advance(s, si)
             /\ dg' = IF LoopEnds(Advance(s, si), dg) THEN <<>> ELSE dg
  /\ UNCHANGED <<cur, defd, sentdefs, nmsg>>

Next == Send \/ WalkSet

Spec == Init /\ [][Next]_vars

-----------------------------------------------------------------------------
TypeOK ==
  /\ cur \in [TIds -> Layouts] /\ defd \subseteq TIds
  /\ nmsg \in 0..MaxMsgs
  /\ DOMAIN tpl \subseteq TIds
  /\ \A t \in DOMAIN tpl : tpl[t].compat \in BOOLEAN
  /\ dead \in BOOLEAN
  /\ listed \subseteq TIds
  /\ si \in 1..3 /\ (dg # <<>> => si \in DOMAIN dg)
  /\ \A i \in DOMAIN cf : cf[i].sid \in TIds

(* A converted data set is decoded with a layout the exporter really sent *)
(* for that template id in a (data) template set: the field walk of       *)
(* v10_template_set reads the record's own specifiers, enterprise numbers *)
(* skipped, and an options template, which shares the key space, is never *)
(* used for conversion.                                                    *)
ConvertedFromSentDefinition ==
  \A i \in DOMAIN cf :
    [tid |-> cf[i].sid, lay |-> cf[i].used, kind |-> "tmpl"] \in sentdefs

(* A data set is decoded with the layout the exporter used to encode it:  *)
(* the one it last defined for that template (spec.md 4.2: a replaced     *)
(* template's new plan is used for every later data set).                 *)
DecodedWithCurrentDefinition ==
  \A i \in DOMAIN cf : cf[i].used = cf[i].def

(* The byte mover of every cflowd-compatible template moves what          *)
(* make_byte_moves' docstring promises: each field the template shares     *)
(* with the cflowd record goes from network order to little-endian, its    *)
(* low-order bytes first and as many as the shorter field holds, each      *)
(* byte pair once, and the high-order input bytes the output cannot hold   *)
(* are exactly the ones check_for_zero lists (util.py 93-222).             *)
PlanMatchesReference ==
  \A t \in DOMAIN tpl :
    tpl[t].compat =>
      AgreesTable[FieldList(FirstRecord(tpl[t].bytes))]

=============================================================================
