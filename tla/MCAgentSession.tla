--------------------------- MODULE MCAgentSession ---------------------------
EXTENDS AgentSession
MCPiece == {1}
MCSent == {"GET_collected_data", "GET_action_process_creation"}
MCJunk == {0, 5}
MCData == {9}
=============================================================================
