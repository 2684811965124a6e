------------------------------- MODULE MCDigest -------------------------------
(* Three processes of the transcripts in cases/. *)
EXTENDS Digest

Request(op, time) == [op |-> op, time |-> time]

(* task5/more-processes-5.out:9 (SJF, quantum 2): the shortest run *)
Short ==
  [name     |-> <<80, 50>>,  \* "P2"
   requests |-> <<Request("START", 28), Request("TERM", 30)>>,
   sha      |-> <<<<\h717a, \h5a17>>, <<\h2a1f, \h9d24>>, <<\hf6be, \h3a8b>>, <<\h9fbe, \hcfae>>,
                <<\h84c6, \h55b5>>, <<\hdff4, \h7880>>, <<\h4639, \hf16f>>, <<\h5427, \hd7e7>>>>]

(* task3/last-in-rr.out:18 (RR, quantum 3): every operation *)
Preempted ==
  [name     |-> <<80, 48>>,  \* "P0"
   requests |-> <<Request("START", 0), Request("CONTINUE", 3), Request("STOP", 6),
                  Request("CONTINUE", 12), Request("STOP", 15), Request("CONTINUE", 21),
                  Request("STOP", 24), Request("CONTINUE", 33), Request("TERM", 36)>>,
   sha      |-> <<<<\h35b3, \hf09d>>, <<\hc0ef, \h695f>>, <<\h3a2b, \h77c9>>, <<\h4e1c, \h9fd5>>,
                <<\h68ff, \h2127>>, <<\h4fbf, \h282c>>, <<\h0940, \ha108>>, <<\hb313, \h45bc>>>>]

(* task1/simple-sjf.out:9 (SJF, quantum 1): the index goes round *)
Long ==
  [name     |-> <<80, 50>>,  \* "P2"
   requests |-> [i \in 1 .. 31 |->
                   Request(CASE i = 1 -> "START" [] i = 31 -> "TERM" [] OTHER -> "CONTINUE",
                           59 + i)],
   sha      |-> <<<<\h5228, \h3ace>>, <<\hd4b1, \h0301>>, <<\h0091, \h7b01>>, <<\h6718, \hbef6>>,
                <<\h1fc9, \hf7ee>>, <<\h0ecb, \h4976>>, <<\hc001, \he9a6>>, <<\h25ef, \h2da2>>>>]

MCCases == {Short, Preempted, Long}
=============================================================================
