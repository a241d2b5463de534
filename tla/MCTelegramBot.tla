----------------------------- MODULE MCTelegramBot -----------------------------
(* Two bots with two messages each, so that a question and its answer may be *)
(* handled by either, and again after a restart or a change of the token.    *)
EXTENDS TelegramBot, TLC

CONSTANTS b1, b2, ann, bob

Both == [token |-> b1, chats |-> {ann, bob}, confirm |-> TRUE, ttl |-> 1]
Loose == [token |-> b1, chats |-> {ann}, confirm |-> FALSE, ttl |-> 0]
Other == [token |-> b2, chats |-> {ann, bob}, confirm |-> TRUE, ttl |-> 0]
Off == [token |-> NoToken, chats |-> {ann}, confirm |-> TRUE, ttl |-> 1]

MCSays == (ann :> {"kill", "analyze", "confirm", "cancel"}) @@ (bob :> {"confirm", "force"})

MCConfigs == {Both, Loose, Other, Off}

=============================================================================
