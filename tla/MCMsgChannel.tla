---------------------------- MODULE MCMsgChannel ----------------------------
EXTENDS MsgChannel
MCSize == [request |-> 2, keep |-> 2, error |-> 3]
=============================================================================
