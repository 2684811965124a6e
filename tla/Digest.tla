-------------------------------- MODULE Digest --------------------------------
(***************************************************************************)
(* What a real process prints when it is terminated: the bytes that        *)
(* store() in process.c has mixed, and their SHA-256.  A 32-bit word is    *)
(* the pair of its halves.                                                 *)
(***************************************************************************)
EXTENDS Integers, SequencesExt, Bitwise

(* Records of `name` (its bytes), `requests` ([op, time] each) and `sha`,  *)
(* what the program is expected to print: eight words.                     *)
CONSTANT Cases

VARIABLES
  process,      \* the case
  pc,           \* "store", "block", "round" or "done"
  stored,       \* how many of its requests read_store_dword() has stored
  sha_content,  \* the bytes 0 .. 127
  dest_index,
  blocks,       \* the blocks sha256_process() has not been called with
  w,            \* its message schedule: w[t + 1] is w[t] of the code
  t,
  working,      \* its variables a .. h
  hash
memory == <<sha_content, dest_index>>
vars == <<process, pc, stored, memory, blocks, w, t, working, hash>>

HASHED == 128 - 9
Op == [START |-> 0, STOP |-> 1, CONTINUE |-> 2, TERM |-> 3]

(* Mutant of Store: the index advances only at the end. *)
StoreAtOffset(m, bytes) ==
  <<FoldLeft(LAMBDA c, i : [c EXCEPT ![(m[2] + i - 1) % HASHED] = @ ^^ bytes[i]],
             m[1], [i \in DOMAIN bytes |-> i]),
    (m[2] + Len(bytes)) % HASHED>>

(* store(): the bytes are added to what is there, each one further from    *)
(* the one before it. *)
Store(m, bytes) ==
  FoldLeft(LAMBDA c, i : LET k == (c[2] + i - 1) % HASHED
                         IN <<[c[1] EXCEPT ![k] = @ ^^ bytes[i]], k>>,
           m, [i \in DOMAIN bytes |-> i])

(* Big-endian; no time here is longer than 31 bits. *)
Dword(request) ==
  <<Op[request.op]>> \o [i \in 1 .. 4 |-> (request.time \div 256^(4 - i)) % 256]

(* main() of process.c up to the first dword *)
Init ==
  /\ process \in Cases
  /\ pc = "store"
  /\ stored = 0
  /\ LET m == Store(<<[k \in 0 .. 127 |-> 0], 0>>, process.name)
     IN sha_content = m[1] /\ dest_index = m[2]
  /\ blocks = <<>> /\ w = <<>> /\ t = 0 /\ working = <<>> /\ hash = <<>>

ReadStoreDword ==
  /\ pc = "store"
  /\ stored < Len(process.requests)
  /\ stored' = stored + 1
  /\ LET m == Store(memory, Dword(process.requests[stored + 1]))
     IN sha_content' = m[1] /\ dest_index' = m[2]
  /\ UNCHANGED <<process, pc, blocks, w, t, working, hash>>
-----------------------------------------------------------------------------
(* Mutant of Overflows: one byte too early. *)
OverflowsEarly(leftover) == leftover > 64 - 8 - 2

(* sha256_process_final(): no room behind the 1 bit for the length *)
Overflows(leftover) == leftover > 64 - 8 - 1

(* The blocks sha256_hash() has processed, the last one or two of them by  *)
(* sha256_process_final().                                                 *)
Blocks(buf, nbyte) ==
  LET leftover == nbyte % 64
      full == nbyte \div 64
      Block(i) == [j \in 0 .. 63 |-> buf[64 * i + j]]
      last == [j \in 0 .. 63 |-> CASE j < leftover -> buf[64 * full + j]
                                   [] j = leftover -> 128
                                   [] j > leftover -> 0]
      WithLength(b) == [j \in 0 .. 63 |-> IF j < 56 THEN b[j]
                                          ELSE IF j < 60 THEN 0
                                          ELSE ((8 * nbyte) \div 256^(63 - j)) % 256]
  IN [i \in 1 .. full |-> Block(i - 1)] \o
     IF Overflows(leftover) THEN <<last, WithLength([j \in 0 .. 63 |-> 0])>>
                            ELSE <<WithLength(last)>>
-----------------------------------------------------------------------------
XOR(x, y) == <<x[1] ^^ y[1], x[2] ^^ y[2]>>
AND(x, y) == <<x[1] & y[1], x[2] & y[2]>>
NOT(x) == <<65535 - x[1], 65535 - x[2]>>
ADD(x, y) == LET low == x[2] + y[2]
             IN <<(x[1] + y[1] + low \div 65536) % 65536, low % 65536>>
SHR(n, x) == <<x[1] \div 2^n, (x[1] % 2^n) * 2^(16 - n) + x[2] \div 2^n>>
ROTR(n, x) ==
  LET y == IF n < 16 THEN x ELSE <<x[2], x[1]>>
      m == n % 16
  IN <<(y[2] % 2^m) * 2^(16 - m) + y[1] \div 2^m, (y[1] % 2^m) * 2^(16 - m) + y[2] \div 2^m>>

Ch(x, y, z) == XOR(AND(x, y), AND(NOT(x), z))
Maj(x, y, z) == XOR(XOR(AND(x, y), AND(x, z)), AND(y, z))
BSIG0(x) == XOR(XOR(ROTR(2, x), ROTR(13, x)), ROTR(22, x))
BSIG1(x) == XOR(XOR(ROTR(6, x), ROTR(11, x)), ROTR(25, x))
SSIG0(x) == XOR(XOR(ROTR(7, x), ROTR(18, x)), SHR(3, x))
SSIG1(x) == XOR(XOR(ROTR(17, x), ROTR(19, x)), SHR(10, x))

H0 == <<<<\h6A09, \hE667>>, <<\hBB67, \hAE85>>, <<\h3C6E, \hF372>>, <<\hA54F, \hF53A>>,
      <<\h510E, \h527F>>, <<\h9B05, \h688C>>, <<\h1F83, \hD9AB>>, <<\h5BE0, \hCD19>>>>
K == <<<<\h428a, \h2f98>>, <<\h7137, \h4491>>, <<\hb5c0, \hfbcf>>, <<\he9b5, \hdba5>>,
     <<\h3956, \hc25b>>, <<\h59f1, \h11f1>>, <<\h923f, \h82a4>>, <<\hab1c, \h5ed5>>,
     <<\hd807, \haa98>>, <<\h1283, \h5b01>>, <<\h2431, \h85be>>, <<\h550c, \h7dc3>>,
     <<\h72be, \h5d74>>, <<\h80de, \hb1fe>>, <<\h9bdc, \h06a7>>, <<\hc19b, \hf174>>,
     <<\he49b, \h69c1>>, <<\hefbe, \h4786>>, <<\h0fc1, \h9dc6>>, <<\h240c, \ha1cc>>,
     <<\h2de9, \h2c6f>>, <<\h4a74, \h84aa>>, <<\h5cb0, \ha9dc>>, <<\h76f9, \h88da>>,
     <<\h983e, \h5152>>, <<\ha831, \hc66d>>, <<\hb003, \h27c8>>, <<\hbf59, \h7fc7>>,
     <<\hc6e0, \h0bf3>>, <<\hd5a7, \h9147>>, <<\h06ca, \h6351>>, <<\h1429, \h2967>>,
     <<\h27b7, \h0a85>>, <<\h2e1b, \h2138>>, <<\h4d2c, \h6dfc>>, <<\h5338, \h0d13>>,
     <<\h650a, \h7354>>, <<\h766a, \h0abb>>, <<\h81c2, \hc92e>>, <<\h9272, \h2c85>>,
     <<\ha2bf, \he8a1>>, <<\ha81a, \h664b>>, <<\hc24b, \h8b70>>, <<\hc76c, \h51a3>>,
     <<\hd192, \he819>>, <<\hd699, \h0624>>, <<\hf40e, \h3585>>, <<\h106a, \ha070>>,
     <<\h19a4, \hc116>>, <<\h1e37, \h6c08>>, <<\h2748, \h774c>>, <<\h34b0, \hbcb5>>,
     <<\h391c, \h0cb3>>, <<\h4ed8, \haa4a>>, <<\h5b9c, \hca4f>>, <<\h682e, \h6ff3>>,
     <<\h748f, \h82ee>>, <<\h78a5, \h636f>>, <<\h84c8, \h7814>>, <<\h8cc7, \h0208>>,
     <<\h90be, \hfffa>>, <<\ha450, \h6ceb>>, <<\hbef9, \ha3f7>>, <<\hc671, \h78f2>>>>

Word(block, i) == <<256 * block[4 * i] + block[4 * i + 1],
                    256 * block[4 * i + 2] + block[4 * i + 3]>>
Schedule(block) ==
  FoldLeft(LAMBDA u, i : Append(u, ADD(ADD(SSIG1(u[i - 2]), u[i - 7]),
                                       ADD(SSIG0(u[i - 15]), u[i - 16]))),
           [i \in 1 .. 16 |-> Word(block, i - 1)], [i \in 1 .. 48 |-> i + 16])
-----------------------------------------------------------------------------
(* sha256_hash(), up to its first block *)
Sha256Hash ==
  /\ pc = "store"
  /\ stored = Len(process.requests)
  /\ pc' = "block"
  /\ blocks' = Blocks(sha_content, HASHED)
  /\ hash' = H0
  /\ UNCHANGED <<process, stored, memory, w, t, working>>

(* sha256_process() up to its rounds *)
StartBlock ==
  /\ pc = "block"
  /\ blocks # <<>>
  /\ pc' = "round"
  /\ w' = Schedule(Head(blocks))
  /\ t' = 0
  /\ working' = hash
  /\ UNCHANGED <<process, stored, memory, blocks, hash>>

Round ==
  LET a == working[1]
      d == working[4]
      e == working[5]
      t1 == ADD(ADD(ADD(working[8], BSIG1(e)), ADD(Ch(e, working[6], working[7]), K[t + 1])),
                w[t + 1])
      t2 == ADD(BSIG0(a), Maj(a, working[2], working[3]))
  IN /\ pc = "round"
     /\ t < 64
     /\ t' = t + 1
     /\ working' = <<ADD(t1, t2), a, working[2], working[3], ADD(d, t1), e, working[6], working[7]>>
     /\ UNCHANGED <<process, pc, stored, memory, blocks, w, hash>>

EndBlock ==
  /\ pc = "round"
  /\ t = 64
  /\ hash' = [i \in 1 .. 8 |-> ADD(hash[i], working[i])]
  /\ blocks' = Tail(blocks)
  /\ pc' = IF Len(blocks) = 1 THEN "done" ELSE "block"
  /\ UNCHANGED <<process, stored, memory, w, t, working>>

Next == ReadStoreDword \/ Sha256Hash \/ StartBlock \/ Round \/ EndBlock

Spec == Init /\ [][Next]_vars
-----------------------------------------------------------------------------
(***************************************************************************)
(* Properties                                                              *)
(***************************************************************************)
(* The transcripts in cases/: the whole way from the requests made of a    *)
(* process to the digits that are printed yields the hash that is expected.*)
DigestAsExpected == pc = "done" => hash = process.sha

(* Where byte i of the j-th store goes, without the loop: the name is the  *)
(* store 0, a dword advances the index by 0 + 1 + 2 + 3 + 4.               *)
Triangle(n) == (n * (n - 1)) \div 2
Landing(j, i) ==
  (IF j = 0 THEN Triangle(i)
   ELSE Triangle(Len(process.name)) + 10 * (j - 1) + Triangle(i)) % HASHED
Stored(j) == IF j = 0 THEN process.name ELSE Dword(process.requests[j])
Bit(x, b) == (x \div 2^b) % 2

(* A bit of the content is the parity of the bits that land there: nothing *)
(* of a name or a dword is lost, none is added twice, however often the    *)
(* index has gone round, and nothing is stored where it is not hashed.     *)
ContentIsParity ==
  pc = "store" =>
    \A k \in 0 .. 127 :
      LET here == {x \in (0 .. stored) \X (1 .. 5) :
                     x[2] <= Len(Stored(x[1])) /\ Landing(x[1], x[2]) = k}
      IN \A b \in 0 .. 7 :
           Bit(sha_content[k], b) =
             Cardinality({x \in here : Bit(Stored(x[1])[x[2]], b) = 1}) % 2

=============================================================================
