--------------------------- MODULE MCWsConnection ---------------------------
(* Small instances of WsConnection.  97 is an "a"; 195 and 169 are the two  *)
(* halves of a character; 3, 232 is the close code 1000 and 3, 237 is 1005. *)
EXTENDS WsConnection

Frame(op, fin, body) == [op |-> op, fin |-> fin, body |-> body, bad |-> FALSE]

SomeFrames == {
  Frame("text", FALSE, <<195>>),
  Frame("cont", FALSE, <<97>>),
  Frame("cont", TRUE, <<169>>),
  Frame("cont", TRUE, <<>>),
  Frame("binary", TRUE, <<97>>),
  Frame("text", TRUE, <<195>>),
  Frame("ping", TRUE, <<>>),
  Frame("pong", TRUE, <<>>),
  Frame("pong", FALSE, <<>>),
  Frame("close", TRUE, <<3, 232>>),
  Frame("close", TRUE, <<3, 237>>),
  Frame("binary", TRUE, <<97, 97, 97>>)}

PingOnly == {Frame("ping", TRUE, <<>>)}

=============================================================================
