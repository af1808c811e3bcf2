----------------------------- MODULE MCLoadTest -----------------------------
(***************************************************************************)
(* LoadTest with two channels, two priorities and up to three requests.    *)
(***************************************************************************)
EXTENDS LoadTest

MCChannels == <<"email", "sms">>
MCPriorities == {"normal", "high"}
MCDefaults == [burst |-> 6, duplicate |-> 4, concurrency |-> 4, stagger |-> TRUE]
=============================================================================
