---- MODULE MCReplyStream ----
EXTENDS ReplyStream
====
