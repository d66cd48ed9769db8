--------------------------- MODULE MCReplyStream ---------------------------
(* ReplyStream with database writes that succeed or fail.                  *)
EXTENDS ReplyStream, TLC
=============================================================================
