------------------------------- MODULE Codec --------------------------------
(***************************************************************************)
(* The pure functions of HttpCodec and FrameCodec at work.  A request or a *)
(* frame arrives in pieces and is parsed again after every piece, until    *)
(* the parser has made up its mind; a request for a file, a Range and a    *)
(* masked payload are dealt with in one go.                                *)
(***************************************************************************)
EXTENDS HttpCodec, FrameCodec
LOCAL INSTANCE SequencesExt

CONSTANTS
  Requests,   (* lists of headers                                          *)
  HeadBytes,  (* how long the header block of a request is                 *)
  Frames,     (* headers of frames                                         *)
  Payload,    (* the longest payload that comes                            *)
  RangeGets,  (* requests for ranges                                       *)
  Sizes,      (* sizes of files                                            *)
  FileGets,   (* requests for files                                        *)
  Nodes,      (* what may be at a path                                     *)
  Opcodes,    (* opcodes of frames to send                                 *)
  Lengths,    (* lengths of payloads to send                               *)
  MaskLengths (* lengths of payloads to unmask                             *)

VARIABLES
  input,   (* what comes in                                                *)
  have,    (* how many bytes of it have arrived                            *)
  result,  (* what was made of it                                          *)
  done     (* whether that is final                                        *)

vars == <<input, have, result, done>>

Init ==
  /\ \/ \E hs \in Requests : input = [of |-> "request", headers |-> hs]
     \/ \E h \in Frames : input = [of |-> "frame", header |-> h]
     \/ \E q \in RangeGets, n \in Sizes, short \in BOOLEAN :
          input = [of |-> "range", get |-> q, size |-> n, short |-> short]
     \/ \E q \in FileGets, path \in Nodes, other \in Nodes, sibling \in Nodes :
          input = [of |-> "file", get |-> q,
                   fs |-> [path |-> path, spa |-> other, index |-> other, br |-> sibling,
                           gz |-> IF sibling = Missing THEN other ELSE Missing]]
     \/ \E op \in Opcodes, n \in Lengths : input = [of |-> "send", opcode |-> op, len |-> n]
     \/ \E n \in MaskLengths, v \in Versions : input = [of |-> "mask", len |-> n, version |-> v]
  /\ have = 0
  /\ result = 0
  /\ done = FALSE

(* process_http_buffer: more of a request, parsed from its beginning.      *)
RequestArrives ==
  /\ input.of = "request"
  /\ ~done
  /\ \E n \in have + 1..HeadBytes + MaxBody :
       /\ have' = n
       /\ result' = HttpParse(input.headers, HeadBytes, n)
       /\ done' = (result' # 0)
  /\ UNCHANGED input

(* handle_websocket_frames: more of a frame.  The pieces end where the     *)
(* header, the masking key or the payload does, or a byte before.          *)
Cuts(h) == 1..Len(h.ext) + 7 \union {Len(h.ext) + 6 + n : n \in {Payload - 1, Payload}}
FrameArrives ==
  /\ input.of = "frame"
  /\ ~done
  /\ \E n \in {k \in Cuts(input.header) : k > have} :
       /\ have' = n
       /\ result' = ParseFrame(input.header, n)
       /\ done' = (result' # 0)
  /\ UNCHANGED input

(* portico_res_static, ws_encode_frame and ws_unmask_payload.              *)
Decide ==
  /\ input.of \in {"range", "file", "send", "mask"}
  /\ ~done
  /\ done' = TRUE
  /\ result' = CASE input.of = "range" -> Ranged(input.get, input.size, input.short)
                 [] input.of = "file" ->
                      Negotiate(input.get, input.fs, Locate(input.get, input.fs))
                 [] input.of = "send" -> EncodeFrame(input.opcode, input.len)
                 [] input.of = "mask" -> Unmasked(input.version, input.len)
  /\ UNCHANGED <<input, have>>

Next == RequestArrives \/ FrameArrives \/ Decide

Spec == Init /\ [][Next]_vars

-----------------------------------------------------------------------------
(* Properties.                                                             *)

Decided(kind) == input.of = kind /\ done

(* A request is taken exactly when its length is beyond doubt, however it  *)
(* was cut: no Transfer-Encoding, and every Content-Length element is      *)
(* digits for the same number, which fits a long and the body limit; then  *)
(* it takes its header and that many bytes, and not before they are there. *)
FramingExact ==
  input.of = "request" =>
    /\ \A v \in 0..MaxBody :
         Unambiguous(input.headers, v) =>
           result = IF have < HeadBytes + v THEN 0 ELSE HeadBytes + v
    /\ result > 0 => Unambiguous(input.headers, result - HeadBytes)

(* A 206 has, part by part and in order, exactly the bytes that the ranges *)
(* with something in the file ask for; a 416 says that none of them has    *)
(* anything in the file; a 200 is the whole file.  A lone range with       *)
(* something in the file is never ignored unless If-Range says so, a HEAD  *)
(* says what the GET would unless it has a list of ranges, and a body made *)
(* in memory stays within its cap.  (A list that comes down to one range   *)
(* gets the whole file.)                                                   *)
RangesExact ==
  Decided("range") =>
    LET q == input.get
        hits == SelectSeq(q.list, LAMBDA r : Asked(r, input.size) # {})
    IN  /\ result.status = 206 =>
             /\ Len(result.parts) = Len(hits)
             /\ \A i \in 1..Len(hits) : Offsets(result.parts[i]) = Asked(hits[i], input.size)
             /\ Len(hits) > 1 =>
                  FoldLeft(LAMBDA sum, p : sum + p.len + PartBytes, PartBytes, result.parts)
                    <= MaxBytes
        /\ result.status = 416 => hits = <<>>
        /\ result.status = 200 => result.parts = Whole200(input.size).parts
        /\ q.bytes /\ q.honor /\ ~q.comma /\ hits # <<>> => result.status = 206
        /\ ~q.comma => result = Ranged([q EXCEPT !.method = "GET"], input.size, input.short)

(* Whatever stands at the path, in place of it, in the directory or beside *)
(* the file: what is served is a regular file that could be opened, lies   *)
(* in the docroot and is no larger than PORTICO_FILE_MAX, unless a         *)
(* compressed sibling took the place of one that is; and an encoding is    *)
(* served only to a client that accepts it.                                *)
ServedFromDocroot ==
  Decided("file") /\ result.status = 200 =>
    /\ Regular(result.node)
    /\ result.how \in {"br", "gzip"} => result.how \in input.get.accepts
    /\ result.how \in {"path", "index"} => result.node.size <= FileMax

(* However a frame was cut, ws_parse_frame takes all of it when it is all  *)
(* there, and nothing before that; a length beyond the limit is refused,   *)
(* whatever its high bytes are, and no sum wraps around.  And what         *)
(* ws_encode_frame writes says the length it was given, in the fewest      *)
(* bytes.                                                                  *)
PayloadOf(h) == IF h.ext = <<>> THEN h.b1 % 128 ELSE FromBytes(h.ext)
FrameExact ==
  /\ input.of = "frame" /\ have > 0 =>
       LET h == input.header
           legal == (h.b0 \div 16) % 8 = 0 /\ h.b1 >= 128 /\ PayloadOf(h) <= MaxPayload
           total == Len(h.ext) + 6 + PayloadOf(h)
       IN  IF legal THEN result = IF have < total THEN 0 ELSE total
           ELSE result \in {0, -1} /\ (have >= Len(h.ext) + 2 => result = -1)
  /\ Decided("send") =>
       /\ PayloadOf(result) = input.len
       /\ result.b0 % 16 = input.opcode /\ result.b1 < 128
       /\ \A w \in {0, 2} : Len(result.ext) > w => input.len >= IF w = 0 THEN 126 ELSE 65536

(* Each version of ws_unmask_payload, chosen by the CPU it runs on,        *)
(* changes every byte of the payload once, with byte i modulo 4 of the key *)
(* for byte i, whatever the length.                                        *)
UnmaskExact ==
  Decided("mask") => \A i \in 0..input.len - 1 : \E k \in 1..3 : result[i] = {<<k, i % 4>>}
=============================================================================
