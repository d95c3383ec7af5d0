----------------------------- MODULE HttpCodec ------------------------------
(***************************************************************************)
(* The pure decisions of the HTTP side: how long a request is (request.c), *)
(* which file answers it and which bytes of that file (portico_res_static  *)
(* in connection.c).  Nothing here has state: Codec puts these functions   *)
(* to work.                                                                *)
(***************************************************************************)
EXTENDS Integers, Sequences
LOCAL INSTANCE SequencesExt

CONSTANTS
  LongMax,    (* LONG_MAX, scaled down                                     *)
  MaxBody,    (* PORTICO_MAX_BODY                                          *)
  MaxParts,   (* PORTICO_MULTIPART_MAX_RANGES                              *)
  MaxBytes,   (* PORTICO_MULTIPART_MAX_BYTES                               *)
  PartBytes,  (* what the framing of a part, or the end of the body, adds  *)
  FileMax     (* PORTICO_FILE_MAX                                          *)

ASSUME CodecAssumption ==
  /\ LongMax \in Nat \ {0} /\ MaxBody \in 0..LongMax
  /\ MaxParts \in Nat \ {0} /\ MaxBytes \in Nat /\ PartBytes \in Nat
  /\ FileMax \in Nat

-----------------------------------------------------------------------------
(* The length of a request.  A header is a name, "te", "cl" or "other",    *)
(* and the elements of its comma list; an element is what is left of it    *)
(* when trimmed: digits, and Junk for any other character.                 *)

Junk == -1

(* Mutant: the bound of the overflow test is off by one digit.             *)
ElementWraps(e) ==
  LET Digit(val, c) ==
        IF val = -1 \/ c = Junk \/ val > LongMax \div 10 THEN -1
        ELSE (val * 10 + c) % (LongMax + 1)
  IN  IF e = <<>> THEN -1 ELSE FoldLeft(Digit, 0, e)

(* One element of a Content-Length, or -1.                                 *)
Element(e) ==
  LET Digit(val, c) ==
        IF val = -1 \/ c = Junk \/ val > (LongMax - c) \div 10 THEN -1
        ELSE (val * 10 + c) % (LongMax + 1)
  IN  IF e = <<>> THEN -1 ELSE FoldLeft(Digit, 0, e)

(* resolve_body_framing: the first thing wrong decides.                    *)
ResolveBodyFraming(headers) ==
  LET Agree(s, e) ==
        IF s.rc # 0 THEN s
        ELSE IF Element(e) = -1 \/ (s.have /\ Element(e) # s.agreed)
        THEN [s EXCEPT !.rc = -1]
        ELSE [s EXCEPT !.have = TRUE, !.agreed = Element(e)]
      Header(s, h) ==
        IF s.rc # 0 \/ h.name = "other" THEN s
        ELSE IF h.name = "te" THEN [s EXCEPT !.rc = -3]
        ELSE FoldLeft(Agree, s, h.list)
  IN  FoldLeft(Header, [rc |-> 0, have |-> FALSE, agreed |-> 0], headers)

(* portico_http_parse of a request whose header block takes head bytes,    *)
(* when len bytes are there: 0 is "not yet", below 0 is an error, and else *)
(* it is how many bytes the request takes.                                 *)
HttpParse(headers, head, len) ==
  LET f == ResolveBodyFraming(headers)
  IN  IF len < head THEN 0
      ELSE IF f.rc # 0 THEN f.rc
      ELSE IF f.agreed > MaxBody THEN -2
      ELSE IF len < head + f.agreed THEN 0
      ELSE head + f.agreed

(* What a request means: the elements of all its Content-Lengths, and the  *)
(* number that digits stand for.                                           *)
Number(e) == FoldLeft(LAMBDA val, c : val * 10 + c, 0, e)
IsNumber(e) == e # <<>> /\ \A i \in 1..Len(e) : e[i] # Junk
Elements(headers) ==
  UNION {ToSet(headers[i].list) : i \in {j \in 1..Len(headers) : headers[j].name = "cl"}}
Unambiguous(headers, v) ==
  /\ \A i \in 1..Len(headers) : headers[i].name # "te"
  /\ \A e \in Elements(headers) : IsNumber(e) /\ Number(e) = v
  /\ Elements(headers) = {} => v = 0

-----------------------------------------------------------------------------
(* Which bytes of a file.  A range is "suffix" (-n), "from" (n-), "span"   *)
(* (n-m) or "bad"; a Range header has a list of them, and says whether     *)
(* there was a comma.                                                      *)

(* Mutant: the end is clamped one too late.                                *)
ParseRangeLate(r, size) ==
  LET s == IF r.form = "suffix" THEN size - (IF r.n > size THEN size ELSE r.n) ELSE r.n
      e == IF r.form = "span" /\ r.m <= size THEN r.m ELSE size - 1
  IN  CASE r.form = "bad" \/ (r.form = "suffix" /\ r.n <= 0) -> [rc |-> -1]
        [] OTHER -> IF size = 0 \/ s >= size \/ s > e THEN [rc |-> 1]
                    ELSE [rc |-> 0, start |-> s, len |-> e - s + 1]

(* parse_range: 0 with the bytes, 1 for none (416), -1 to ignore it.       *)
ParseRange(r, size) ==
  LET s == IF r.form = "suffix" THEN size - (IF r.n > size THEN size ELSE r.n) ELSE r.n
      e == IF r.form = "span" /\ r.m < size THEN r.m ELSE size - 1
  IN  CASE r.form = "bad" \/ (r.form = "suffix" /\ r.n <= 0) -> [rc |-> -1]
        [] OTHER -> IF size = 0 \/ s >= size \/ s > e THEN [rc |-> 1]
                    ELSE [rc |-> 0, start |-> s, len |-> e - s + 1]

(* serve_byteranges: the parts of a multipart body; "full" when that is    *)
(* better, "none" when there is no part.  A read may come up short.        *)
ServeByteranges(list, size, short) ==
  LET all == [i \in 1..Len(list) |-> ParseRange(list[i], size)]
      parts == SelectSeq(all, LAMBDA p : p.rc = 0)
      bytes == FoldLeft(LAMBDA sum, p : sum + p.len, 0, parts)
  IN  IF Len(parts) > MaxParts THEN "full"
      ELSE IF parts = <<>> THEN "none"
      ELSE IF Len(parts) = 1 \/ bytes + (Len(parts) + 1) * PartBytes > MaxBytes \/ short
      THEN "full" ELSE parts

Whole200(size) == [status |-> 200, parts |-> <<[rc |-> 0, start |-> 0, len |-> size]>>]
None416 == [status |-> 416, parts |-> <<>>]

(* The end of portico_res_static: from the If-Range test on.               *)
Ranged(q, size, short) ==
  LET multi == ServeByteranges(q.list, size, short)
      one == ParseRange(q.list[1], size)
  IN  IF ~q.bytes \/ ~q.honor THEN Whole200(size)
      ELSE IF q.comma /\ q.method = "HEAD" THEN Whole200(size)
      ELSE IF q.comma
      THEN IF multi = "none" THEN None416
           ELSE IF multi = "full" THEN Whole200(size)
           ELSE [status |-> 206, parts |-> multi]
      ELSE IF one.rc = 0 THEN [status |-> 206, parts |-> <<one>>]
           ELSE IF one.rc = 1 THEN None416 ELSE Whole200(size)

(* What a range asks for: a set of offsets.                                *)
Asked(r, size) ==
  {i \in 0..size - 1 :
     \/ r.form = "suffix" /\ i >= size - r.n
     \/ r.form = "from" /\ i >= r.n
     \/ r.form = "span" /\ i \in r.n..r.m}
Offsets(p) == p.start..p.start + p.len - 1

-----------------------------------------------------------------------------
(* Which file.  A node is what realpath and open find at a path: whether   *)
(* it is in the docroot, its type, whether it may be opened and its size;  *)
(* Missing is no node.  fs has the node at the path of the request, and at *)
(* the other paths that are tried in its place or after it.  A request is  *)
(* valid when its path is under the url_prefix, absolute when decoded,     *)
(* without a NUL and not too long.  A refusal is told by one status where  *)
(* the code has several for the ways in which a path is not valid (400,    *)
(* 404, 414) or does not open (403, 404).                                  *)

Missing == [type |-> "missing", inside |-> FALSE, opens |-> FALSE, size |-> 0]
Refused(status) == [status |-> status, node |-> Missing, how |-> "none"]
Regular(n) == n.type = "file" /\ n.inside /\ n.opens

(* Mutant: the index file is not resolved again.                           *)
IndexUnresolved(q, fs) ==
  IF ~q.slash /\ q.redirect THEN Refused(301)
  ELSE IF ~q.index \/ fs.index.type # "file" \/ ~fs.index.opens THEN Refused(403)
  ELSE [status |-> 200, node |-> fs.index, how |-> "index"]

(* A directory: the redirect to its slash, else its index file.            *)
Index(q, fs) ==
  IF ~q.slash /\ q.redirect THEN Refused(301)
  ELSE IF ~q.index \/ ~Regular(fs.index) THEN Refused(403)
  ELSE [status |-> 200, node |-> fs.index, how |-> "index"]

(* The first half of portico_res_static: the path or, for a page of a      *)
(* single-page application, the fallback.                                  *)
Locate(q, fs) ==
  LET spa == q.spa /\ q.method \in {"GET", "HEAD"}
      n == IF fs.path = Missing /\ spa THEN fs.spa ELSE fs.path
      f == IF n.type = "dir" THEN Index(q, fs)
           ELSE [status |-> 200, node |-> n, how |-> "path"]
  IN  IF ~q.valid THEN Refused(400)
      ELSE IF n = Missing THEN Refused(404)
      ELSE IF ~n.inside \/ ~n.opens THEN Refused(403)
      ELSE IF f.status # 200 THEN f
      ELSE IF f.node.type # "file" THEN Refused(404)
      ELSE IF f.node.size > FileMax THEN Refused(413)
      ELSE f

(* try_precompressed, brotli first: a sibling takes the file's place.      *)
Negotiate(q, fs, f) ==
  IF f.status # 200 THEN f
  ELSE IF "br" \in q.accepts /\ Regular(fs.br) THEN [f EXCEPT !.node = fs.br, !.how = "br"]
  ELSE IF "gzip" \in q.accepts /\ Regular(fs.gz) THEN [f EXCEPT !.node = fs.gz, !.how = "gzip"]
  ELSE f
=============================================================================
