------------------------------ MODULE MCWriter ------------------------------
(* Writer under TLC: the packet threads that share it and the OSError      *)
(* kinds a configuration allows.                                          *)
EXTENDS Writer, TLC

CONSTANTS w1, w2

\* The command line: int() and normpath(normcase()) over the strings used.
MCIntOf   == ("2055" :> 2055) @@ ("2056" :> 2056) @@ ("0" :> 0) @@ ("60" :> 60)
MCNormDir == ("/t" :> "/t") @@ ("/t/" :> "/t") @@ ("/u" :> "/u") @@ ("/d" :> "/d")
Cfg == INSTANCE Config WITH IntOf <- MCIntOf, NormDir <- MCNormDir

\* -p 2055:/t -p 2056:/t/ : two ports whose temp directories normalise to
\* one, so both packet threads put to the one cflowd writer of /t.
MCCommandLine == << <<"2055", "/t">>, <<"2056", "/t/">> >>
MCOneProducer  == {w1}
MCTwoProducers == Cfg!WriterPorts(Cfg!ParseArgs(MCCommandLine), "/t", "cflowd")

\* Every --ports argument of up to five fields over three ports (0 is out
\* of range), temp directories that do and do not normalise to one, empty
\* and given dest directories and timeouts (x does not parse), and format
\* lists with an unknown (empty) format.
MCArgOver(P, O, F) ==
  LET T == {"/t", "/t/", "/u"}  D == {"", "/d", "/t"}
  IN  {<<p>> : p \in P} \cup {<<p, t>> : p \in P, t \in T} \cup
      {<<p, t, d>> : p \in P, t \in T, d \in D} \cup
      {<<p, t, d, o>> : p \in P, t \in T, d \in D, o \in O} \cup
      {<<p, t, d, o, f>> : p \in P, t \in T, d \in D, o \in O, f \in F}
MCArg == MCArgOver({"2055", "2056", "0"}, {"", "60", "x"},
                   {<<"cflowd">>, <<"ipfix">>, <<"ipfix", "cflowd">>, <<"">>})
\* The arguments that can parse: a pair whose second argument raises
\* starts nothing, whatever the first did.
MCGoodArg == MCArgOver({"2055", "2056"}, {"", "60"},
                       {<<"cflowd">>, <<"ipfix">>, <<"ipfix", "cflowd">>})
\* Every command line of one argument, and of two that may start.
MCCommandLines == {<<a>> : a \in MCArg} \cup {<<a, b>> : a, b \in MCGoodArg}

(* At startup, the writer's initial state: on every such command line    *)
(* that starts, each port's Packet has a writer (main.py:225 logs          *)
(* writer.name).  The command line is fixed before any thread runs, so it *)
(* is checked in the initial state.                                       *)
StartupEveryPortHasWriter ==
  Init => \A a \in MCCommandLines : Cfg!EveryPortHasWriter(a)

MCFailIO      == {"open", "write", "close"}
MCFailRename  == {"rename"}

=============================================================================
