# TLA+ models of ipfixd

ipfixd (src/ipfixd_app) receives NetFlow v5 and IPFIX (v10) datagrams on UDP
ports. It converts them to cflowd records and/or re-framed IPFIX, and writes
the output to temporary files that a timer renames periodically.

## The system and how its parts interact

For every configured port, `main._main` starts two threads:

* **Socket reader** (`sockets.Socket.read_loop`). It owns a pool of
  `max_queue_size` receive buffers and keeps two private lists. `free_list`
  holds buffers to receive into; `read_list` holds filled buffers not yet
  handed on. It shares two `IterQueue`s with the packet processor:
  * Q1 (`_queue`) carries filled buffers out;
  * the free queue (`_free_queue`) brings used buffers back.

  Each pass of the loop does at most one list-management step and then one
  `recvfrom_into`. The blocking mode of that call depends on the lists and
  on `_free_len`, a hint that the packet thread bumps without a lock.
* **Packet processor** (`packet.Packet._process_loop`). It takes whole
  batches off Q1 and dispatches each datagram by version to
  `cflowd.netflow_v5_to_cflowd` or `cflowd.netflow_v10_to_cflowd`. It keeps
  one accumulator per output format and puts an accumulator on its writer's
  queue when the list is long or old. After each batch it returns the
  batch's buffers with `return_buffs`.
* **IPFIX decoding**. Within the packet processor, `netflow_v10_to_cflowd`
  walks the sets of a datagram:
  * template sets (id 2) and options-template sets (id 3) install entries
    in the module-global `templates` dict, through
    `check_for_new_template` and `v10_template_set` /
    `v10_options_template_set`;
  * data sets (id > 255) are looked up there (`v10_get_info`) and
    converted by the template's byte mover.

  The plan of the byte mover is built by `util.make_pack_items` and
  `util.make_byte_moves`.
* **NetFlow v5 decoding**. `netflow_v5_to_cflowd` uses ONE byte mover,
  the module-global `netflow_v5_to_cflowd_byte_mover`, for every port's
  packet thread. The header parse (`header.v5_header`) writes the flow id
  into it, the thread stores the record count in it, `v5_get_info` stores
  the exporter address in it when a new (address, port) key appears, and
  `byte_mover` reads all three when it writes the records.
  `v5_handle_expected_flow_id` keeps the next expected flow id per key in
  `netflow_v5_flow_ids` and logs a gap with `--log-missing-full`.

Writers (`writer.Writer`) exist once per temp directory and format.
* `write_loop` takes whole lists off the writer's queue and writes every
  item to the temp file. A zero-length item means stop.
* A chain of `threading.Timer`s runs `_file_rename`, which closes the temp
  file and renames it into the destination directory.
* Both work under `_file_lock`.

SIGHUP (`main.hup_handler`) calls `stop()` on every thread and then sends a
zero-length datagram to every port.
* The reader queues that datagram and returns.
* The processor, seeing it with its stop flag set, runs `_do_stop`: it puts
  both accumulators, then a zero-length sentinel, on every writer queue.
* The writer, on the sentinel, cancels its Timer, renames a last time and
  returns.

SIGTERM (`main.term_handler`) first calls `qempty()` on every writer and
on every socket reader, which discards their queues, and then runs
`hup_handler`.

## Modules

| Module | Models | State | Actions |
|---|---|---|---|
| `Receiver` | sockets.py `read_loop`, `free_list_management`, `read_list_management`, `request_stop`; `IterQueue._put` | `net`, `free_list`, `read_list`, the pending reasons, `rpc`, `free_len`, `queue` (Q1), `free_queue`, `content[b]` (datagram last read into buffer b), `stop` | `FreeListManagement`, `WaitFree`, `ReadListManagement`, `NoManagement`, `Receive`, `BlockedIO`, `Timeout` |
| `Decoder` | packet.py `_process_loop`, `_do_stop`, `return_buffs`; the per-datagram outcome of the two converters | `dpc`, `items`, `idx`, `data_list[f]`, `aged[f]`, `q2[f]` (writer queue), `nret`/`tmp_free_len` (the `+=` in progress) | `GetItems`, `GetTimeout`, `Tick`, `ConvertItem`, `DoStop`, `ReturnBuffs`, `IncrFreeLen` |
| `Pipeline` | one port: `Receiver` and `Decoder` composed by `INSTANCE ... WITH`, plus exporters, `hup_handler`, `term_handler` and the batch walk of `write_loop` | `rstop`/`dstop`, `sig` (none, term, hup), histories `arrived`, `zsent`, `written[f]`, `wdone[f]` | `Send`, `SigHup`, `TermQemptyWriters`, `TermQemptySocket`, `HupStopReceiver`, `HupStopDecoder`, `HupSend`, `WriteLoop(f)` and every Receiver/Decoder action |
| `Writer` | writer.py `write_loop`, `_file_rename` and its Timer chain, `Cancel`/final rename; the puts of the packet threads that share it | `wq`, `nput[p]`/`stopput[p]` per packet thread, `wpc`, `stuck`/`cooled`, `fh` (none/open/closed), `temp`, `dest`, `errlost`, history `wrote`, `timer` (none/armed/running), `nfail` | `PutRecord`, `PutSentinel`, `Cooldown`, `WriteBatch`, `Cancel`, `FinalRename`, `TimerFire`, `TimerRename` |
| `Templates` | cflowd.py `netflow_v10_to_cflowd`'s set walk, `check_for_new_template`, `v10_template_set`, `v10_options_template_set`, `v10_get_info`; each template's byte-move plan built with `ByteMoves` | exporter `cur`/`defd`, history `sentdefs`, `tpl` (the `templates` dict), `listed`, `dead`, `dg`/`si` (datagram and set being walked), `cf`, `ip` | `Send`, `WalkSet` |
| `V5Convert` | cflowd.py `netflow_v5_to_cflowd`, `v5_get_info`, `v5_handle_expected_flow_id`, one packet thread per port; send.py as the exporter | `net[l]` per link (exporter, port), `nextfid[l]`, `pc[p]`/`cur[p]` per packet thread, `bm` (the shared byte mover: address, flow id, count), `flow_ids`, `logged`, histories `got`, `lost`, `emitted` | `Send`, `Lose`, `Header`, `GetInfo`, `HandleExpected`, `Move` |
| `ByteMoves` | util.py `make_pack_items`, `get_fmt_len`, `make_byte_moves`; cflowd.py `cflowd_field_list` and `netflow_v5_init` (`NetflowV5Init`, with netflow_v5.py's two lists); and `RefPlan`, the plan `make_byte_moves`' docstring promises | none: pure operators | none |
| `Config` | args.py `ParsePorts.__call__` (one `--ports` argument), `parse_args` and its `exit(1)`; main.py `_main`'s writer start (175-195) and per-port writer lookup (201-223) | none: the parse state `[ports, temps, last, failed]` (the module globals `ports`, `temp_directories`, `last_write_timeout`) is a value folded over the arguments by `ParseArgs` | none: pure operators (`ParsePort`, `ParseArgs`, `Writers`, `PortWriters`, `WriterPorts`) |
| `FormatChannel` | the abstract promise of a port to each of its writers (spec.md, Ordering: datagram order is preserved through Q1 and record order through Q2); `Pipeline` refines it | `offered[c]`, `taken[c]` per format | `Offer`, `Take(c)` (several records at once, as `write_loop` gets the whole queue) |
| `MCPipeline`, `MCWriter`, `MCTemplates`, `MCV5Convert` | constants for TLC | | |

### How the data is abstracted

In Pipeline:
* A buffer is its pool index. A datagram is `[id, kind]`, where the id is
  its arrival order.
* The kind stands for what the converters do with the datagram:
  * `v5` and `v10` are well formed;
  * `v5_short` and `v10_bad` are truncated and raise `ValueError`;
  * `v10_tmpl` carries templates only;
  * `v10_long` declares too long a length;
  * `short` and `zero` are short datagrams.
* An output is `[dg, buf]`. `buf` is `NoBuf` for a fresh bytearray and the
  pool buffer itself when the converter returns its input. The writer reads
  `content[buf]` when it writes, which is how the model sees aliasing.

In Writer:
* A record is `<<p, i>>`, the i-th record of packet thread p, and `<<>>` is
  the sentinel.
* Files are the sets of record ids they hold.
* An `OSError` of each allowed kind (`FailKinds`) can happen at most
  `MaxFail` times.
* Each locked section is one atomic step.

In Templates, a set's payload is a sequence of 4-byte words `[id, len]`:
* a record header is `[template id, field count]`;
* a field specifier is `[field id, length]`;
* an enterprise number is one more word.

The exporter encodes real layouts with the RFC 7012 field sizes: the
millisecond timestamps 152/153 and `octetDeltaCount` (1) of 8 bytes,
`protocolIdentifier` (4) of 1, `sourceTransportPort` (7) of 2, enterprise
fields of 4, and `sourceIPv6Address` (27) of 16. The decoder parses those
words with the code's own tests, names each field from `ipfix_id_to_info`
(`IpfixName`, `RESERVED` otherwise) and builds the byte-move plan with the
`ByteMoves` operators.

In ByteMoves a field list is a sequence of `[name, len]`, and a struct
format is a sequence of one-character strings, where `'16s'` is
`"1", "6", "s"` (`Digits` is `str`). `WalkFormat` is the character loop of
`make_byte_moves`, so it raises where the code raises: at a digit
(`get_fmt_len`'s `ValueError`) or at an item index whose name a later field
of the same name took over (`KeyError`). A plan is the zip of the input and
output index lists plus `check_for_zero`. `RefPlan` is computed from the
field lists alone, with offsets summed as `v10_template_set` sums
`data_offset`. The plan depends only on the field list, so Templates tables
it for the field lists the exporter can send (`PlanTable`, `AgreesTable`);
TLC evaluates each entry once.

In V5Convert a datagram is `[src, fid, cnt]`: its link, its header flow
id and its record count. A cflowd batch is the datagram together with the
byte mover's address, flow id and count at the moment `byte_mover` ran.
`header.v5_header` and `byte_mover` are Cython modules that are not in
the repository; each is one atomic step (it holds the GIL), modelled from
spec.md §4.2. The time fields and the record bytes are left out.

`return_buffs` is split into `ReturnBuffs` (put the buffers, load
`_free_len`) and `IncrFreeLen` (store the sum). This is the load/store pair
the interpreter runs for the unlocked `+=`.

## Runs

| Run | cfg | Expect | What it shows |
|---|---|---|---|
| safety | MCPipelineSafety.cfg | pass | 3 buffers, both formats, v5/v10, 3 datagrams, SIGHUP at any point. Three datagrams and the stop datagram need more buffers than the pool has, so the reader empties its free list and waits on the free queue (`WaitFree`, sockets.py:217). `NoBufferLost`: every pool buffer is in exactly one place. `StopDeliversAll`: a writer that has its sentinel has a record of every datagram before the stop. `DeliversPrefix`: the port implements `FormatChannel` under the refinement mapping `offered[f]` = the arrived datagrams with a record for f, `taken[f]` = the ids in `written[f]`; at every moment each writer has taken exactly the first records offered to it, in arrival order. `StopCompletes`: once `hup_handler` has sent its zero-length datagram, every writer gets its sentinel, even when the pool has run out (compare finding 5, SIGTERM). |
| live | MCPipelineLive.cfg | pass | 16 buffers (so `// 16` is 1 and the 2-second timeout mode exists), both formats, every harmless kind, SIGHUP or SIGTERM. `OutputNotStranded`: a non-empty accumulator is written out by the computed get timeout even when no more traffic arrives. |
| writer_safety | MCWriterSafety.cfg | pass | Two packet threads (two ports sharing the temp directory), 3 records each; open, write and close may fail twice. `RecordsRotated`: a written record eventually reaches the destination, through the Timer that `_file_rename` re-arms or the final rename, unless a failed close lost it. `StartupEveryPortHasWriter`: over every command line of one `--ports` argument (444) and of two that can parse (28K), with Config, every port's Packet gets at least one writer, so the `writer.name` logged at main.py:225 is its own. The command line is fixed before any thread runs, so this is checked in the initial state (`Init => ...`); evaluating Config in every state would take hours. |
| templates | MCTemplates.cfg | pass | 3 datagrams over 2 template ids and 3 layouts: template and options-template sets of up to 2 records, data sets, reserved and zero-length sets. `ConvertedFromSentDefinition`: a converted data set is decoded with a layout the exporter sent for that id in a data template set. `PlanMatchesReference`: every cflowd-compatible template's byte mover copies each field it shares with the cflowd record from network order to little-endian, low-order byte first, each byte pair once, and lists exactly the truncated high-order bytes in `check_for_zero`. The compatible layout has a truncated 8-byte counter (in_skip 4), a 1-byte field and a 2-byte field; a mover that forgets `in_skip` is caught. |
| v5_tracking | MCV5Tracking.cfg | pass | Two packet threads; two exporters on one port, one of them also on the other; 3 datagrams of 2 records per link, any of them lost, never reordered; `--log-missing-full`. `GapsGenuine`: every missing-flows error names flows none of which arrived. `LossReported`: every datagram lost between two received ones of its key is inside a logged gap. `MovedByReferencePlan`: the batches are moved with the plan `netflow_v5_init` builds, and that plan copies every shared field byte-reversed into place, with record lengths 48 and 55, header size 24, and the uptime, flow id and exporter offsets where the C structs of netflow_v5.py's docstring put them (checked once; a walk that does not count padding moves `tcpControlBits` and everything after it). |
| stale_free_len | MCStaleFreeLen.cfg | violation | Finding 1. |
| v5_raw_reuse | MCV5RawReuse.cfg | violation | Finding 2. |
| multi_template_set | MCTemplatesMulti.cfg | violation | Finding 3. |
| v5_shared_mover | MCV5SharedMover.cfg | violation | Finding 4. |
| term_hang | MCTermHang.cfg | violation | Finding 5. |
| writer_truncate | MCWriterTruncate.cfg | violation | Finding 6. |
| writer_shared_stop | MCWriterShared.cfg | violation | Finding 7. |

Every property of a passing run has a mutant in PROJECT.json. The mutant is
a plausible bug in the operator that models the code, and TLC finds the
property violated when that operator replaces the real one. Examples: a
put that replaces the queue, a flush that forgets the age, a rename that
moves nothing, an options template treated as a data template.

### Findings

1. **Stale `_free_len` (sockets.py:337).** The packet thread's unlocked
   `_free_len += n` can store its sum after the reader has drained the free
   queue and reset the counter to 0. From then on the reader takes the
   free-list branch on every pass, finds the queue empty, and never hands
   its read list on (`ReadListHandedOn`).
2. **v5 on an ipfix port (cflowd.py:374).** The pool buffer itself is
   queued as ipfix output, returned to the reader and overwritten before
   the writer writes it (`WrittenIntact`).
3. **Multi-record template sets (cflowd.py:604).** `check_for_new_template`
   keys the cache by the first template id of the set, and
   `v10_template_set` parses only that record. A template redefined in
   second position keeps its old layout, and its data sets are converted
   with the wrong offsets (`DecodedWithCurrentDefinition`).
4. **Packet threads share the v5 byte mover (cflowd.py:384).** One
   exporter sends to two ports. Thread 1 parses its header (flow id 3) and
   checks the sequence; thread 2 then parses its own header (flow id 1)
   into the same byte mover; thread 1's `byte_mover` numbers its records
   from 1 (`RecordsFaithful`). spec.md §4.2 says `flowId = header_flowId +
   record_index` of the datagram itself.
5. **SIGTERM can hang for good (main.py:333).** `term_handler`'s
   `qempty()` on the socket thread discards the batches on Q1 together
   with their pool buffers, which never come back. With four buffers, two
   are dropped; the reader fills its read list with the other two, finds
   the free list empty and blocks on the free queue (sockets.py:217). The
   stop datagram is never read, no writer gets its sentinel, and
   `hup_handler` polls forever (`StopCompletes`). Under load Q1 holds
   much of the pool, so this is the common case of a fast stop. spec.md
   §6 says SIGTERM drains the queues and then stops gracefully.
6. **A failed rename truncates the temp file (writer.py:237).** When
   `os.rename` fails, `_file_rename` has already closed the file and set
   `_temp_file` to `None`, and returns. The next `write_loop` pass opens
   the unrenamed file with mode `'wb'`, which truncates the records in it
   (`NoWrittenRecordLost`). spec.md §4.4 says the file is opened for
   append.
7. **Ports sharing a writer lose records at shutdown (writer.py:248).**
   Ports whose temp directories normalise to one get the same writer, and
   each port's `_do_stop` puts a zero-length item on it. The first one
   ends `write_loop`, so the records the other port's packet thread
   flushes after it are never written (`RecordsWritten`, 10 states, with
   the two ports of `-p 2055:/t -p 2056:/t/`).

### Hazards the model reaches but no run checks

PROJECT.json lists every hazard with the properties that cover it. These
are the ones that have no run of their own:
* **Truncated IPFIX kills the packet processor (packet.py:219).** The
  `ValueError` is caught only by `Packet.run`, which ends the thread. With
  `Formats = {"cflowd"}` and `MCKindsMalformed` (MCMalformedV10.cfg), TLC
  finds `NoBufferLost` violated: the batch's pool buffers are lost for
  good. spec.md §7 says the decoder never aborts on protocol errors.
* **IPFIX data on an ipfix-only port (cflowd.py:561).** The converter
  returns cflowd output whatever the formats are. Its put on a `None`
  queue kills the processor; with MCIpfixOnly.cfg TLC finds
  `StopCompletes` violated.
* **Stale v5 address (cflowd.py:319).** `v5_get_info` sets the byte
  mover's address only when a new key appears. With two exporters on one
  port and a single packet thread, the first exporter's next datagram is
  stamped with the second exporter's address (`RecordsFaithful`, 14 steps).
* **Reordered v5 datagrams (cflowd.py:343).** A late datagram is reported
  missing, and `expected_flow_id` then goes back, so the next in-order
  datagram is reported as a second gap. The v5_tracking run keeps links in
  order; delivering any datagram in flight violates `GapsGenuine`.
* **v5 sequence wrap (cflowd.py:345).** Exporters let the 32-bit flow
  sequence wrap, but `flow_id + cnt` is an unbounded Python int, so flows
  lost across the wrap are not reported (`LossReported`). The model's
  exporter, like send.py, never wraps: send.py packs flowId as an unsigned
  32-bit field and stops with `struct.error`.
* **IPv6 templates kill the processor (util.py:155).** `make_byte_moves`
  walks the struct format one character at a time, so a 16-byte field
  (`'16s'`) raises `ValueError`. The first IPv6 template ends the port's
  packet processor. Templates reaches this through the modelled walk
  (`WalkFormat`, `InstallRaises`, `dead`).
* **Two fields of one name kill the processor (util.py:159).**
  `make_pack_items` lets the last field of a name win, so two enterprise
  fields (both `RESERVED`) leave an item index with no name, and
  `data_by_index[field_index]` raises `KeyError`. The templates run has
  such a layout (`WalkRaises`).
* **A 2-byte `tcpControlBits` loses the flags (util.py:204).** When the
  shorter side is 1 byte, `make_byte_moves` moves `byte_offset` without
  `in_skip`: the high-order byte. `check_for_zero` checks that same byte,
  so nothing is reported. RFC 7125 makes `tcpControlBits` 2 bytes; with
  MCTemplatesTcpFlags.cfg (`FieldLen <- MCFieldLen7125`) TLC finds
  `PlanMatchesReference` violated after one template set. The templates
  run keeps the 1-byte lengths of ipfix.py for the 1-byte cflowd fields.
* **Zero-length set (cflowd.py:557).** A set header with length 0 leaves
  `offset` unchanged, and the set loop spins forever. spec.md §4.2
  requires `set_len >= 4`. Templates stutters on such a set.
* **Unknown-template data dropped from ipfix output (cflowd.py:527).**
  spec.md says all data sets are passed through.
* **Timer chain outlives the writer (writer.py:269).** `cancel()` stops only
  an armed Timer. A Timer already inside `_file_rename` re-arms the chain
  after the writer has returned, and these non-daemon threads (the first
  Timer is created by the main thread) keep the process alive after
  `hup_handler`'s `exit()`. Writer has the race (`Cancel`, `TimerRename`);
  `wpc = "exited" ~> timer = "none"` is violated in 8 states, but all
  twelve run slots are taken.
* **Receiver waits on itself (sockets.py:217).** When the read list holds
  every buffer still in circulation, the reader blocks on the free queue.
  The safety run reaches this wait with all buffers alive: the processor
  returns a batch and the reader goes on (`StopCompletes` holds). In a
  pool of 2, where `// 2` does not force a hand-on first, `StopCompletes`
  is violated; after a SIGTERM it happens in any pool (finding 5).
* **A dead processor never stops (packet.py:219, 190).** No passing run
  kills the processor. When it dies its batch's buffers are gone
  (`NoBufferLost`) and no writer gets its sentinel (`StopCompletes`).
* **A stuck writer drops its sentinel (writer.py:251).** A write error
  breaks out of the batch, sentinel included, and the writer waits on.
* **A failed close kills the writer (writer.py:149).** `_temp_file` keeps a
  closed file object, and the next write raises `ValueError`.

## Bounds

* Pipeline: `MaxDgrams` (2–3) caps the exporters' datagrams, and `HupSend`
  adds the stop datagram. Three buffers and three datagrams let a batch
  hold some buffers while others sit on the free queue, in every order of
  return and reuse, and run the pool out (the stop datagram is the
  fourth). Four buffers never run out, and so never reach the wait at
  sockets.py:217. The live run needs 16 buffers for the timeout mode;
  2 datagrams keep it under a minute.
* Writer: writer_safety has two packet threads putting on the writer (two
  ports with one temp directory), so their records and sentinels
  interleave in one batch; writer_shared_stop needs no failures for
  finding 7, and writer_truncate one rename failure for finding 6. In
  writer_safety three records and two failures cover these cases: a failure in
  the middle of a batch, a failed reopen after a failed write, and a
  failure of the close before and after the sentinel.
* Config: three ports (one out of range), temp directories `/t`, `/t/`
  (the same after normalisation) and `/u`, dests empty, `/d` or another
  temp directory, timeouts empty, `60` or unparsable, and every format
  list with an unknown one. Single arguments take every combination; pairs
  take the combinations that can parse, since a pair whose second
  argument raises starts nothing. Pairs are where a temp directory is
  given twice, which is what the startup property is about.
* Templates: two template ids suffice for a two-record set. Three layouts
  give a compatible one (an enterprise number before a truncated counter,
  a 1-byte and a 2-byte field), an IPv6 one and one with two enterprise
  fields: the two ways the plan raises. A fourth layout (the bare
  timestamps) takes the run from 24 s to over 11 minutes.
  Options templates give the incompatible case. Three datagrams allow a
  definition, a redefinition and a use.
* V5Convert: three datagrams per link are the fewest with a loss between
  two received ones; two records per datagram make a gap range longer
  than one id. Two threads and an exporter on both ports give the race on
  the shared byte mover; two exporters on one port give two keys in one
  thread. The run takes about a minute (5.3M states).
* The violation runs use the smallest bounds at which TLC finds the
  counterexample.

## Fairness

* The receiver, the packet processor, each writer and each Timer thread
  are OS threads that keep running while they can. Their steps are weakly
  fair. Time passes: `Tick` and `Cooldown` are weakly fair, so an
  accumulator ages and a stuck writer's wait ends.
* Exporters, the producer of the writer's queue and the operator owe
  nothing: `SigHup` and `TermQemptyWriters` (the signal arriving) are not
  fair. Once a handler has started, its remaining steps
  (`TermQemptySocket`, `HupStopReceiver`, `HupStopDecoder`, `HupSend`)
  are weakly fair: the main thread runs the handler to its end.
* Templates and V5Convert check only safety, so they assume no fairness.

## Not modelled, and why

* **Several ports in one Pipeline.** A multi-port composition of
  Receiver and Decoder would multiply the state space. Writer models the
  shared writer with several producers instead.
* **IPFIX flow-id tracking** (`v10_get_info`'s expected flow id). It only
  logs gaps. Its per-template keying is listed as a hazard.
* **The v5 path with cflowd off, and truncated v5 datagrams** in
  V5Convert. Pipeline models both outcomes; V5Convert is about the
  shared byte mover and the sequence table.
* **The byte moves themselves** (`ipfixd_app.byte_mover`, a module not in
  the repository) and `find_non_zero_bytes`, which only logs and prunes
  `check_for_zero` by the values of data bytes. ByteMoves stops at the
  plan they execute.
* **Argument parsing: what no run checks.** Config models `ParsePorts`
  and `_main`'s writer assignment, and MCWriter derives `Producers` (the
  ports sharing the `/t` cflowd writer) from `-p 2055:/t -p 2056:/t/` with
  it. Two behaviours that disagree with the help text are visible in
  Config but have no run, because the run budget goes to the findings
  above: the formats do not inherit from the previous `--ports`
  (`last_cflowd` and `last_ipfix` are locals reset on every call, args.py
  32-33, while the help text and spec.md 6 say they inherit); and the last
  `--ports` that names a temp directory decides that directory's writers,
  formats and write timeout (`temp_directories[...] = ports[port]`,
  args.py 103), so an earlier port asking for cflowd on the same directory
  as a later ipfix-only port gets no cflowd writer (listed as a hazard).
  The `temp_directory[:-1]` tests of args.py 83-86 compare everything but
  the last character, so the separator is always appended; the `NormDir`
  table gives the result after `normpath`, where this is harmless. The
  other options (`--nofork`, `--user`, `--log`, `-v`, ...) only set up
  logging and daemonising.
* **Logging, most of the field catalogue and the header layouts**. These
  are pure output formatting or static tables. Of ipfix.py only the names
  the decoder reads are modelled (`IpfixName`: the cflowd fields, the
  timestamps and `sourceIPv6Address`); its lengths and format characters
  are never read by the decoder.
