----------------------------- MODULE FrameCodec -----------------------------
(***************************************************************************)
(* The header of a WebSocket frame (ws_frame.c): what ws_encode_frame      *)
(* writes, what ws_parse_frame makes of what has arrived, and which byte   *)
(* of the masking key each version of ws_unmask_payload uses where.  A     *)
(* header is its two first bytes and the bytes of its extended length; of  *)
(* the masking key and the payload only the number of bytes matters.       *)
(***************************************************************************)
EXTENDS Integers, Sequences
LOCAL INSTANCE SequencesExt

CONSTANTS
  ExtBytes,    (* bytes of the long extended length and of size_t: 8, here *)
               (* as many as TLC's integers allow                          *)
  MaxPayload   (* max_payload_len                                          *)

ASSUME FrameAssumption == ExtBytes \in Nat \ 0..2 /\ MaxPayload \in Nat

SizeT == 256 ^ ExtBytes

(* n in w bytes, the most significant first, and back.                     *)
BigEndian(n, w) == [i \in 1..w |-> (n \div 256 ^ (w - i)) % 256]
FromBytes(bytes) == FoldLeft(LAMBDA n, b : n * 256 + b, 0, bytes)

(* ws_encode_frame.                                                        *)
EncodeFrame(opcode, n) ==
  LET w == IF n < 126 THEN 0 ELSE IF n <= 65535 THEN 2 ELSE ExtBytes
  IN  [b0 |-> 128 + (opcode % 16),
       b1 |-> IF w = 0 THEN n ELSE IF w = 2 THEN 126 ELSE 127,
       ext |-> BigEndian(n, w)]

(* ws_parse_frame_header of the first len bytes of a frame: 0 is "not      *)
(* yet", -1 an error, else the length of the header.                       *)
ParseHeader(h, len) ==
  LET len7 == h.b1 % 128
      w == IF len7 < 126 THEN 0 ELSE IF len7 = 126 THEN 2 ELSE ExtBytes
      payload == IF w = 0 THEN len7 ELSE FromBytes(SubSeq(h.ext, 1, w))
  IN  IF len < 2 THEN [rc |-> 0]
      ELSE IF (h.b0 \div 16) % 8 # 0 THEN [rc |-> -1]
      ELSE IF h.b1 < 128 THEN [rc |-> -1]
      ELSE IF len < 2 + w THEN [rc |-> 0]
      ELSE IF payload > MaxPayload THEN [rc |-> -1]
      ELSE IF len < 2 + w + 4 THEN [rc |-> 0]
      ELSE [rc |-> 2 + w + 4, payload |-> payload]

(* Mutant: the payload is not bounded before its length is added up.       *)
ParseFrameWraps(h, len) ==
  LET len7 == h.b1 % 128
      w == IF len7 < 126 THEN 0 ELSE IF len7 = 126 THEN 2 ELSE ExtBytes
      payload == IF w = 0 THEN len7 ELSE FromBytes(SubSeq(h.ext, 1, w))
      p == IF h.b0 < 144 /\ h.b1 >= 128 /\ len >= 6 + w
           THEN [rc |-> 6 + w, payload |-> payload] ELSE ParseHeader(h, len)
  IN  IF len = 0 THEN -1
      ELSE IF p.rc <= 0 THEN p.rc
      ELSE IF len < (p.rc + p.payload) % SizeT THEN 0
      ELSE (p.rc + p.payload) % SizeT

(* ws_parse_frame: how many bytes the frame takes; the sum is a size_t.    *)
ParseFrame(h, len) ==
  LET p == ParseHeader(h, len)
  IN  IF len = 0 THEN -1
      ELSE IF p.rc <= 0 THEN p.rc
      ELSE IF len < (p.rc + p.payload) % SizeT THEN 0
      ELSE (p.rc + p.payload) % SizeT

-----------------------------------------------------------------------------
(* ws_unmask_payload.  A version is the widths of its loops, widest first. *)
(* Each loop goes on where the one before it stopped, in whole chunks, and *)
(* a chunk of width w at i uses the key from its first byte on; the last   *)
(* loop is bytewise and uses byte i of the key for byte i of the payload,  *)
(* modulo 4.                                                               *)

Versions == {<<32, 4, 1>>, <<16, 4, 1>>, <<4, 1>>}

(* How far a loop of width w gets.                                         *)
Rounded(len, w) == len - (len % w)

(* Mutant: the bytewise loop begins where the vector loop stopped.         *)
UnmaskedFromVector(version, len) ==
  LET From(k) == IF k = 1 THEN 0 ELSE Rounded(len, version[1])
      Chunk(k, i) == i - ((i - From(k)) % version[k])
  IN  [i \in 0..len - 1 |->
         {<<k, IF version[k] = 1 THEN i % 4 ELSE (i - Chunk(k, i)) % 4>> :
            k \in {j \in 1..Len(version) : From(j) <= i /\ i < Rounded(len, version[j])}}]

(* For every byte of a payload, the loops that change it, each with the    *)
(* byte of the key it uses.                                                *)
Unmasked(version, len) ==
  LET From(k) == IF k = 1 THEN 0 ELSE Rounded(len, version[k - 1])
      Chunk(k, i) == i - ((i - From(k)) % version[k])
  IN  [i \in 0..len - 1 |->
         {<<k, IF version[k] = 1 THEN i % 4 ELSE (i - Chunk(k, i)) % 4>> :
            k \in {j \in 1..Len(version) : From(j) <= i /\ i < Rounded(len, version[j])}}]
=============================================================================
