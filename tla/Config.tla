------------------------------- MODULE Config -------------------------------
(***************************************************************************)
(* Startup configuration: args.ParsePorts.__call__, which argparse runs   *)
(* once per --ports argument, in order, before any thread starts; the      *)
(* exit(1) of parse_args when one of them raises ValueError; and the      *)
(* writer start and writer lookup of main._main (main.py 175-225).        *)
(*                                                                         *)
(* An argument is the list values.split(':') gives: a sequence of strings, *)
(* except that the fifth element is already l[4].split(','), a sequence   *)
(* of format strings.  int() and os.path.normpath(os.path.normcase(d +    *)
(* sep)) are given as tables over the strings a model uses.               *)
(***************************************************************************)
EXTENDS Naturals, Sequences, SequencesExt, Functions

CONSTANTS
  IntOf,     \* int(s) for the strings that parse; any other raises ValueError
  NormDir    \* the directory a temp or dest string normalises to

DefaultTimeout == 300          \* last_write_timeout=300
Formats == {"cflowd", "ipfix"}

(* The loop over l[4].split(','): a format other than cflowd or ipfix     *)
(* raises ValueError.                                                     *)
FormatsOKAny(fmts) == TRUE      \* an unknown format ignored, not raised
FormatsOK(fmts) == fmts \subseteq Formats

(* temp_directories already maps the temp directory to another dest.      *)
TempConflict(st, t, d) == t \in DOMAIN st.temps /\ st.temps[t].dest # d

\* The module globals ports, temp_directories and last_write_timeout, and
\* whether a ValueError ended parse_args (exit(1)).
InitParse == [ports |-> <<>>, temps |-> <<>>, last |-> DefaultTimeout, failed |-> FALSE]

(* ParsePorts.__call__ for one argument l.  Formats are not inherited:    *)
(* last_cflowd and last_ipfix are locals reset on every call.  The temp   *)
(* directory must keep the dest directory it was first given (the         *)
(* temp_directories test), and the entry is stored under both the port and *)
(* the temp directory, the later argument winning.                        *)
ParsePort(st, l) ==
  LET n       == Len(l)
      temp    == l[2]
      dest    == IF n > 2 /\ l[3] # "" THEN l[3] ELSE temp
      tset    == n > 3 /\ l[4] # ""
      fmts    == IF n > 4 THEN Range(l[5]) ELSE {}
      cflowd  == IF n > 4 THEN "cflowd" \in fmts ELSE TRUE
      ipfix   == n > 4 /\ "ipfix" \in fmts
      t       == NormDir[temp]
      d       == NormDir[dest]
      raises  == \/ n < 2
                 \/ l[1] \notin DOMAIN IntOf \/ IntOf[l[1]] \notin 1..65535
                 \/ tset /\ l[4] \notin DOMAIN IntOf
                 \/ ~FormatsOK(fmts)
                 \/ TempConflict(st, t, d)
  IN  IF raises THEN [st EXCEPT !.failed = TRUE]
      ELSE LET timeout == IF tset THEN IntOf[l[4]] ELSE st.last
               entry   == [port |-> IntOf[l[1]], temp |-> t, dest |-> d,
                           timeout |-> timeout, cflowd |-> cflowd, ipfix |-> ipfix]
           IN  [ports  |-> (entry.port :> entry) @@ st.ports,
                temps  |-> (t :> entry) @@ st.temps,
                last   |-> timeout,
                failed |-> FALSE]

(* parse_args: the --ports arguments in order; the first ValueError ends  *)
(* the program.                                                           *)
RECURSIVE ParseFrom(_, _)
ParseFrom(st, args) ==
  IF args = <<>> \/ st.failed THEN st ELSE ParseFrom(ParsePort(st, Head(args)), Tail(args))
ParseArgs(args) == ParseFrom(InitParse, args)

(* _main: one Writer per temp directory and format its (last) entry asks  *)
(* for, configured from that entry.                                       *)
Writers(st) ==
  {[temp |-> t, format |-> f, dest |-> st.temps[t].dest, timeout |-> st.temps[t].timeout] :
     <<t, f>> \in {<<t, f>> \in (DOMAIN st.temps) \X Formats :
                     (f = "cflowd" /\ st.temps[t].cflowd) \/ (f = "ipfix" /\ st.temps[t].ipfix)}}

(* _main: the writers a port's Packet gets, by its temp directory; a      *)
(* missing one is None.                                                   *)
PortWriters(st, p) ==
  {w \in Writers(st) : w.temp = st.ports[p].temp}

(* The ports whose packet threads put to the writer of (t, f).             *)
WriterPorts(st, t, f) ==
  {p \in DOMAIN st.ports : \E w \in PortWriters(st, p) : w.temp = t /\ w.format = f}

-----------------------------------------------------------------------------
(* When startup succeeds, every port's Packet gets at least one writer,   *)
(* so the writer.name of main.py:225 names one of its own writers.         *)
EveryPortHasWriter(args) ==
  LET st == ParseArgs(args) IN
  ~st.failed => \A p \in DOMAIN st.ports : PortWriters(st, p) # {}
=============================================================================
