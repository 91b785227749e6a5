------------------------ MODULE MCConversationMemory ------------------------
EXTENDS ConversationMemory
=============================================================================
