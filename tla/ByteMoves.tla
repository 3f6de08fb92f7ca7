------------------------------ MODULE ByteMoves ------------------------------
(***************************************************************************)
(* The byte-move planner of util.py, as pure operators: make_pack_items    *)
(* turns a field list into a struct format and a name -> item index dict,  *)
(* get_fmt_len sizes one format character, and make_byte_moves walks both  *)
(* formats and pairs the input bytes of every field the two structs share  *)
(* with the output bytes that receive them.  A field list is a sequence of *)
(* [name, len]; a format is a sequence of one-character strings.  A plan   *)
(* records whether building it raised, the zip of input and output         *)
(* indexes, and check_for_zero.                                            *)
(*                                                                         *)
(* RefPlan is what make_byte_moves' docstring promises, computed from the  *)
(* field lists alone: the network-order input of a shared field is copied  *)
(* to the little-endian output low-order byte first, as many bytes as the  *)
(* shorter of the two holds, and the high-order input bytes the output has *)
(* no room for are the ones check_for_zero lists.                          *)
(***************************************************************************)
EXTENDS Naturals, Sequences, SequencesExt, Functions

Padding == "paddingOctets"

\* str(n): the decimal digits of n, most significant first.
DigitChar == <<"0", "1", "2", "3", "4", "5", "6", "7", "8", "9">>
RECURSIVE Digits(_)
Digits(n) == IF n < 10 THEN <<DigitChar[n + 1]>>
             ELSE Digits(n \div 10) \o <<DigitChar[(n % 10) + 1]>>

(* make_pack_items: the format item of one field. *)
PackItem(f) ==
  CASE f.name = Padding -> [i \in 1..f.len |-> "x"]
    [] f.len = 1        -> <<"B">>
    [] f.len = 2        -> <<"H">>
    [] f.len = 4        -> <<"L">>
    [] f.len = 8        -> <<"Q">>
    [] f.len > 8        -> Digits(f.len) \o <<"s">>

(* make_pack_items raises ValueError for a field of 0, 3, 5, 6 or 7 bytes  *)
(* that is not padding.                                                    *)
PackRaises(l) ==
  \E i \in DOMAIN l : l[i].name # Padding /\ l[i].len \notin {1, 2, 4, 8} /\ l[i].len <= 8

\* The names of a sequence in the order a dict first receives them.
FirstOccurrences(ns) ==
  LET at == SelectSeq([i \in DOMAIN ns |-> i], LAMBDA i : \A j \in 1..i - 1 : ns[j] # ns[i])
  IN  [p \in DOMAIN at |-> ns[at[p]]]

(* make_pack_items: the format ('!' network order, '=' native) and d, in   *)
(* which d[name] = field_cnt lets the last field of a name win; padding    *)
(* gets no key.                                                            *)
MakePackItems(l, network) ==
  LET fs    == SelectSeq(l, LAMBDA f : f.name # Padding)
      names == [i \in DOMAIN fs |-> fs[i].name]
  IN  [format |-> <<IF network THEN "!" ELSE "=">> \o
                  FlattenSeq([i \in DOMAIN l |-> PackItem(l[i])]),
       keys   |-> [k \in Range(names) |->
                     Max({i \in DOMAIN names : names[i] = k}) - 1],
       order  |-> FirstOccurrences(names)]

(* get_fmt_len; any other character (a digit of an 'Ns' item) raises.     *)
FmtLen ==
  [c \in {"x", "b", "B"} |-> 1] @@ [c \in {"H", "h"} |-> 2] @@
  [c \in {"i", "I", "l", "L"} |-> 4] @@ [c \in {"q", "Q"} |-> 8]

\* A walk that forgets to advance byte_offset over padding.
RECURSIVE WalkFormatPadFree(_, _, _, _)
WalkFormatPadFree(fmt, i, off, n) ==
  IF i > Len(fmt) THEN [raised |-> FALSE, slots |-> <<>>, size |-> off]
  ELSE LET c == fmt[i] IN
       CASE c \in {"!", "="}       -> WalkFormatPadFree(fmt, i + 1, off, n)
         [] c \notin DOMAIN FmtLen -> [raised |-> TRUE, slots |-> <<>>, size |-> off]
         [] c = "x"                -> WalkFormatPadFree(fmt, i + 1, off, n)
         [] OTHER ->
              LET r == WalkFormatPadFree(fmt, i + 1, off + FmtLen[c], n + 1)
              IN  [r EXCEPT !.slots = <<[index |-> n, off |-> off, len |-> FmtLen[c]]>> \o @]

(* make_byte_moves' walk of one format from character i, at byte_offset   *)
(* off and field_index n: the slot [index, off, len] of every non-padding  *)
(* character, whether get_fmt_len raised on the way, and the byte_offset   *)
(* at the end (struct.size, as the format has no alignment).               *)
RECURSIVE WalkFormat(_, _, _, _)
WalkFormat(fmt, i, off, n) ==
  IF i > Len(fmt) THEN [raised |-> FALSE, slots |-> <<>>, size |-> off]
  ELSE LET c == fmt[i] IN
       CASE c \in {"!", "="}       -> WalkFormat(fmt, i + 1, off, n)
         [] c \notin DOMAIN FmtLen -> [raised |-> TRUE, slots |-> <<>>, size |-> off]
         [] c = "x"                -> WalkFormat(fmt, i + 1, off + 1, n)
         [] OTHER ->
              LET r == WalkFormat(fmt, i + 1, off + FmtLen[c], n + 1)
              IN  [r EXCEPT !.slots = <<[index |-> n, off |-> off, len |-> FmtLen[c]]>> \o @]

(* data_by_index[field_index] raises KeyError for an index whose name a    *)
(* later field of the same name took over.                                 *)
WalkRaises(p, w) == w.raised \/ \E s \in Range(w.slots) : s.index \notin Range(p.keys)

(* in_data / out_data: byte_offset and len of every key.                   *)
FieldData(p, w) ==
  [k \in DOMAIN p.keys |-> CHOOSE s \in Range(w.slots) : s.index = p.keys[k]]

\* A byte mover that forgets to skip the high-order bytes it truncates.
FieldMovesNoSkip(a, b) ==
  LET n == IF a.len < b.len THEN a.len ELSE b.len
  IN  [zero  |-> [j \in 1..a.len - n |-> a.off + j - 1],
       moves |-> [j \in 1..n |-> [in |-> a.off + n - j, out |-> b.off + j - 1]]]

(* The moves and zero checks of one key present in both structs.           *)
FieldMoves(a, b) ==
  LET n    == IF a.len < b.len THEN a.len ELSE b.len
      skip == IF a.len > b.len THEN a.len - b.len ELSE 0
  IN  [zero  |-> [j \in 1..skip |-> a.off + j - 1],
       moves |-> IF n = 1 THEN <<[in |-> a.off, out |-> b.off]>>
                 ELSE [j \in 1..n |-> [in |-> skip + a.off + n - j,
                                       out |-> b.off + j - 1]]]

(* make_byte_moves(input_struct, input_keys, output_struct, output_keys)   *)
(* for p (input) and q (output) from MakePackItems: the output keys are    *)
(* taken in out_data's order, and one missing from the input is skipped.   *)
(* It returns the moves, check_for_zero and in_data / out_data, with the   *)
(* struct sizes.                                                           *)
MakeByteMoves(p, q) ==
  LET wi  == WalkFormat(p.format, 1, 0, 0)
      wo  == WalkFormat(q.format, 1, 0, 0)
      raised == WalkRaises(p, wi) \/ WalkRaises(q, wo)
      ks  == SelectSeq(q.order, LAMBDA k : k \in DOMAIN p.keys)
      di  == IF raised THEN <<>> ELSE FieldData(p, wi)
      do  == IF raised THEN <<>> ELSE FieldData(q, wo)
      fm  == IF raised THEN <<>>
             ELSE [i \in DOMAIN ks |-> FieldMoves(di[ks[i]], do[ks[i]])]
  IN  [raised |-> raised,
       moves  |-> FlattenSeq([i \in DOMAIN fm |-> fm[i].moves]),
       zero   |-> FlattenSeq([i \in DOMAIN fm |-> fm[i].zero]),
       in     |-> di, out |-> do, insize |-> wi.size, outsize |-> wo.size]

-----------------------------------------------------------------------------
(* cflowd_field_list, packed native ('=') at module load.                  *)
CflowdFieldList ==
  LET F(n, l) == [name |-> n, len |-> l] IN
  << F("flowId", 4), F("exporterIPv4Address", 4), F("sourceIPv4Address", 4),
     F("destinationIPv4Address", 4), F("ingressInterface", 2),
     F("egressInterface", 2), F("sourceTransportPort", 2),
     F("destinationTransportPort", 2), F("packetDeltaCount", 4),
     F("octetDeltaCount", 4), F("ipNextHopIPv4Address", 4),
     F("flowStartSeconds", 4), F("flowEndSeconds", 4),
     F("protocolIdentifier", 1), F("ipClassOfService", 1),
     F("bgpSourceAsNumber", 2), F("bgpDestinationAsNumber", 2),
     F("sourceIPv4PrefixLength", 1), F("destinationIPv4PrefixLength", 1),
     F("tcpControlBits", 1), F(Padding, 2) >>
CflowdPack == MakePackItems(CflowdFieldList, FALSE)

(* netflow_v5_header_list and netflow_v5_list, packed in network order at  *)
(* module load.                                                            *)
NetflowV5HeaderList ==
  LET F(n, l) == [name |-> n, len |-> l] IN
  << F("exportProtocolVersion", 2), F("xx_cnt", 2),
     F("xx_sysUpTimeDeltaMilliseconds", 4), F("xx_sysUpTime", 4),
     F("flowStartNanoseconds", 4), F("flowId", 4), F(Padding, 4) >>
NetflowV5List ==
  LET F(n, l) == [name |-> n, len |-> l] IN
  << F("sourceIPv4Address", 4), F("destinationIPv4Address", 4),
     F("ipNextHopIPv4Address", 4), F("ingressInterface", 2),
     F("egressInterface", 2), F("packetDeltaCount", 4),
     F("octetDeltaCount", 4), F("flowStartSysUpTime", 4),
     F("flowEndSysUpTime", 4), F("sourceTransportPort", 2),
     F("destinationTransportPort", 2), F(Padding, 1),
     F("tcpControlBits", 1), F("protocolIdentifier", 1),
     F("ipClassOfService", 1), F("bgpSourceAsNumber", 2),
     F("bgpDestinationAsNumber", 2), F("sourceIPv4PrefixLength", 1),
     F("destinationIPv4PrefixLength", 1), F(Padding, 2) >>

\* The header indexes cflowd.py keeps (_header_cnt_index, ...), and the
\* in_data and out_data offsets netflow_v5_init copies to the byte mover.
V5HeaderKeys == {"xx_cnt", "flowId", "xx_sysUpTimeDeltaMilliseconds", "xx_sysUpTime"}
V5InKeys     == {"flowStartSysUpTime", "flowEndSysUpTime"}
V5OutKeys    == {"flowStartSeconds", "flowEndSeconds", "flowId", "exporterIPv4Address"}

(* The module-level packs and netflow_v5_init: the v5 -> cflowd plan, the *)
(* record lengths, the header size the records start at, and the offsets *)
(* of the uptime, flow id and exporter fields.  A KeyError or ValueError   *)
(* on the way raises.                                                      *)
NetflowV5Init ==
  LET h == MakePackItems(NetflowV5HeaderList, TRUE)
      v == MakePackItems(NetflowV5List, TRUE)
      m == MakeByteMoves(v, CflowdPack)
      raised == \/ PackRaises(NetflowV5HeaderList) \/ PackRaises(NetflowV5List)
                \/ PackRaises(CflowdFieldList) \/ m.raised
                \/ ~(V5HeaderKeys \subseteq DOMAIN h.keys)
                \/ ~(V5InKeys \subseteq DOMAIN m.in) \/ ~(V5OutKeys \subseteq DOMAIN m.out)
  IN  [raised    |-> raised,
       moves     |-> m.moves, zero |-> m.zero,
       in_len    |-> m.insize, out_len |-> m.outsize,
       in_offset |-> WalkFormat(h.format, 1, 0, 0).size,
       inoff     |-> IF raised THEN <<>> ELSE [k \in V5InKeys |-> m.in[k].off],
       outoff    |-> IF raised THEN <<>> ELSE [k \in V5OutKeys |-> m.out[k].off]]

-----------------------------------------------------------------------------
\* The byte offset of field i: data_offset of v10_template_set, the sum of
\* the lengths before it.
RefOffset(l, i) == FoldLeft(+, 0, [j \in 1..i - 1 |-> l[j].len])

\* The position of the (only) field called k.
Pos(l, k) == CHOOSE i \in DOMAIN l : l[i].name = k

RefShared(l, o) ==
  ({l[i].name : i \in DOMAIN l} \cap {o[i].name : i \in DOMAIN o}) \ {Padding}

(* The plan make_byte_moves promises for input fields l and output fields  *)
(* o whose names are unique: a set of [in, out] byte pairs and the set of  *)
(* input bytes to check for zero.                                          *)
RefPlan(l, o) ==
  LET A(k) == l[Pos(l, k)]
      B(k) == o[Pos(o, k)]
      N(k) == IF A(k).len < B(k).len THEN A(k).len ELSE B(k).len
  IN [moves |-> UNION {{[in  |-> RefOffset(l, Pos(l, k)) + A(k).len - 1 - j,
                         out |-> RefOffset(o, Pos(o, k)) + j] : j \in 0..N(k) - 1} :
                       k \in RefShared(l, o)},
      zero  |-> UNION {{RefOffset(l, Pos(l, k)) + j : j \in 0..A(k).len - N(k) - 1} :
                       k \in RefShared(l, o)}]

(* A plan agrees with the reference: the same byte pairs, each once, and   *)
(* the same bytes checked for zero.                                        *)
PlanAgrees(plan, l, o) ==
  LET ref == RefPlan(l, o) IN
  /\ Range(plan.moves) = ref.moves
  /\ Len(plan.moves) = Cardinality(ref.moves)
  /\ Range(plan.zero) = ref.zero

\* The size of a record of field list l: the sum of its lengths.
RefSize(l) == RefOffset(l, Len(l) + 1)

(* The byte mover netflow_v5_init builds matches the C structs of          *)
(* netflow_v5.py and cflowd.py: building it raises nothing, it copies every *)
(* field the v5 record and the cflowd record share from network to native  *)
(* order, byte for byte, its record lengths (48 in, 55 out) and header     *)
(* size (24) are the sums of the field lengths, and the uptime, flow id    *)
(* and exporter offsets it patches are where the field lists put them.     *)
V5ByteMoverMatchesReference ==
  LET b == NetflowV5Init IN
  /\ ~b.raised
  /\ PlanAgrees(b, NetflowV5List, CflowdFieldList)
  /\ b.in_len = RefSize(NetflowV5List) /\ b.out_len = RefSize(CflowdFieldList)
  /\ b.in_offset = RefSize(NetflowV5HeaderList)
  /\ \A k \in V5InKeys  : b.inoff[k] = RefOffset(NetflowV5List, Pos(NetflowV5List, k))
  /\ \A k \in V5OutKeys : b.outoff[k] = RefOffset(CflowdFieldList, Pos(CflowdFieldList, k))
=============================================================================
