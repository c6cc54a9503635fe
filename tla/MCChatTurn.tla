----------------------------- MODULE MCChatTurn -----------------------------
EXTENDS Conversation, TLC

CONSTANTS a, b

Apart == a :> 0 @@ b :> 1    \* two calls of one agent
Alike == a :> 0 @@ b :> 0    \* one call each of two subagents
One == a :> 0
=============================================================================
