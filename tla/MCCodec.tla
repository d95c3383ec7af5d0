------------------------------ MODULE MCCodec -------------------------------
(***************************************************************************)
(* Inputs of Codec, chosen around the limits.                              *)
(***************************************************************************)
EXTENDS Codec
LOCAL INSTANCE SequencesExt

(* Digit strings around LongMax = 17, and headers made of a few elements.  *)
ContentLength(list) == [name |-> "cl", list |-> list]
SomeHeaders ==
  {[name |-> "te", list |-> <<>>], [name |-> "other", list |-> <<<<1>>>>]}
    \union {ContentLength(l) :
              l \in BoundedSeq({<<>>, <<1>>, <<0, 1>>, <<9>>, <<Junk>>, <<9, 9>>}, 2) \ {<<>>}}
SomeRequests ==
  BoundedSeq(SomeHeaders, 2)
    \union {<<ContentLength(<<e>>)>> : e \in BoundedSeq({0, 1, 7, 8, Junk}, 3)}

Ext(b, bytes) == [b0 |-> 129, b1 |-> 128 + b, ext |-> bytes]
SomeFrames ==
  {[b0 |-> b0, b1 |-> b1, ext |-> <<>>] : b0 \in {1, 130, 193}, b1 \in {0, 125, 128, 130, 253}}
    \union {Ext(126, <<x, y>>) : x \in {0, 1, 255}, y \in {0, 125, 126, 200, 255}}
    \union {Ext(127, <<x, y, z>>) : x \in {0, 1, 255}, y \in {0, 1, 255}, z \in {0, 200, 247, 255}}

SomeSpecs ==
  {[form |-> "bad", n |-> 0, m |-> 0]}
    \union {[form |-> f, n |-> n, m |-> 0] : f \in {"suffix", "from"}, n \in 0..3}
    \union {[form |-> "span", n |-> n, m |-> m] : n \in 0..3, m \in 0..3}
SomeRangeGets ==
  [bytes : {TRUE}, honor : BOOLEAN, comma : {FALSE}, method : {"GET", "HEAD"},
   list : {<<r>> : r \in SomeSpecs}]
    \union [bytes : {TRUE}, honor : {TRUE}, comma : {TRUE}, method : {"GET", "HEAD"},
            list : BoundedSeq(SomeSpecs, 2)
                     \union {<<a, b, a>> : a \in SomeSpecs, b \in SomeSpecs}]
    \union [bytes : {FALSE}, honor : {TRUE}, comma : BOOLEAN, method : {"GET"},
            list : {<<r>> : r \in SomeSpecs}]

SomeNodes ==
  {Missing}
    \union [type : {"file"}, inside : BOOLEAN, opens : {TRUE}, size : {FileMax, FileMax + 1}]
    \union [type : {"file", "dir", "other"}, inside : {TRUE}, opens : BOOLEAN, size : {0}]
SomeFileGets ==
  [valid : {TRUE}, method : {"GET", "POST"}, spa : BOOLEAN, slash : {FALSE}, redirect : BOOLEAN,
   index : BOOLEAN, accepts : {{}, {"br"}, {"br", "gzip"}}]
    \union [valid : {FALSE}, method : {"GET"}, spa : {TRUE}, slash : {TRUE}, redirect : {TRUE},
            index : {TRUE}, accepts : {{}}]

SomeLengths == {0, 1, 125, 126, 127, 255, 256, 65535, 65536, 65537, 100000}
=============================================================================
