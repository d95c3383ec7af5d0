-------------------------- MODULE MCHttpConnection --------------------------
(***************************************************************************)
(* Instances of HttpConnection.                                            *)
(***************************************************************************)
EXTENDS HttpConnection

Ask(kind, keep, units) == [kind |-> kind, keep |-> keep, units |-> units]

SomeRequests ==
  {Ask("plain", TRUE, 1), Ask("plain", FALSE, 2), Ask("file", TRUE, 1),
   Ask("stream", TRUE, 1), Ask("bad", TRUE, 1), Ask("huge", TRUE, 1),
   Ask("ws", TRUE, 2), Ask("frame", TRUE, 1)}
=============================================================================
