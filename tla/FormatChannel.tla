---------------------------- MODULE FormatChannel ----------------------------
(***************************************************************************)
(* What one port promises the writer of each output format: the records   *)
(* of the datagrams that convert to that format reach the writer in the   *)
(* order the datagrams arrived, each once, and none is skipped: what a    *)
(* writer has taken is always a prefix of what was offered to it.  A      *)
(* writer may take several records in one step (write_loop gets the whole *)
(* queue).  Nothing here says that a record is ever taken.                *)
(***************************************************************************)
EXTENDS Naturals, Sequences

CONSTANT Channels    \* the output formats with a writer

VARIABLES
  offered,   \* offered[c]: ids of the datagrams with a record for c, in arrival order
  taken      \* taken[c]: ids of the records the writer of c has taken, in order

Init ==
  /\ offered = [c \in Channels |-> <<>>]
  /\ taken = [c \in Channels |-> <<>>]

\* A datagram arrives, with a record for some of the channels (or none).
Offer ==
  /\ \A c \in Channels :
       \/ offered'[c] = offered[c]
       \/ /\ Len(offered'[c]) = Len(offered[c]) + 1
          /\ SubSeq(offered'[c], 1, Len(offered[c])) = offered[c]
  /\ UNCHANGED taken

\* The writer of c takes the next n records offered to it.
Take(c) ==
  /\ \E n \in 1..Len(offered[c]) - Len(taken[c]) :
       taken' = [taken EXCEPT ![c] = SubSeq(offered[c], 1, Len(taken[c]) + n)]
  /\ UNCHANGED offered

Next == Offer \/ \E c \in Channels : Take(c)

Spec == Init /\ [][Next]_<<offered, taken>>
=============================================================================
