---------------------------- MODULE MCMuxStream ----------------------------
EXTENDS MuxStream

CONSTANTS ClientBytes, AgentBytes
MCMaxBytes == [e \in Ends |-> IF e = "client" THEN ClientBytes ELSE AgentBytes]
=============================================================================
