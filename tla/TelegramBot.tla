------------------------------ MODULE TelegramBot ------------------------------
(***************************************************************************)
(* The Telegram bot of internal/telegram: the loop that polls for updates  *)
(* and handles them, and the table of actions that wait for a /confirm.    *)
(*                                                                         *)
(* The loop takes a config when it starts to poll and works by it until it *)
(* has handled the last update of the batch.  It knows how far it came by  *)
(* an offset in memory only; the service forgets an update when it is      *)
(* asked for later ones, and delivers the rest again to whoever asks from  *)
(* the start: a WTM that was restarted, or one that has had another token  *)
(* meanwhile.                                                              *)
(*                                                                         *)
(* External: the service and its chats.  A code is 40 random bits, so      *)
(* codes are taken to differ, and are numbered in the order of their       *)
(* making; nobody sends a code before it has been made.                    *)
(***************************************************************************)
EXTENDS Integers, Sequences

CONSTANTS
  Tokens, NoToken,  \* bots the config may name; none, or Telegram switched off
  Chats,
  Configs,          \* configs the server may apply
  DefaultTtl,       \* how long a code is good for if the config does not say
  MaxActions,       \* AI actions queued for one question
  MaxCodes,         \* bound: codes made
  MaxMessages,      \* bound: messages to all bots
  MaxEvents,        \* bound: new configs and restarts
  MaxTime,          \* bound: clock
  Says              \* bound: which commands each chat sends

Commands == {"kill", "force", "analyze", "confirm", "cancel"}

ASSUME BotAssumption ==
  /\ NoToken \notin Tokens
  /\ Configs \subseteq [token : Tokens \cup {NoToken}, chats : SUBSET Chats,
                        confirm : BOOLEAN, ttl : Int]
  /\ DefaultTtl \in Nat \ {0}
  /\ Says \in [Chats -> SUBSET Commands]
  /\ MaxActions \in Nat /\ MaxCodes \in Nat /\ MaxMessages \in Nat
  /\ MaxEvents \in Nat /\ MaxTime \in Nat

VARIABLES
  clock, events,
  sent,       \* external: messages sent so far ...
  inbox,      \* ... and to each bot, by update id
  dropped,    \* external: how many of them the service has forgotten
  cfg,        \* Bot.cfg
  loop,       \* where the loop is, and what it took from the config
  offset, lastToken,
  pending,    \* the actions that wait, by code
  codes,      \* codes made so far
  usedBy,     \* ghost: for each code, the chats whose /confirm has run it
  done,       \* ghost: updates handled since the offset was last reset
  seen        \* ghost: for each bot, updates ever handled

service == <<sent, inbox, dropped>>
polling == <<offset, lastToken>>
table == <<pending, codes, usedBy>>
trace == <<done, seen>>
vars == <<clock, events, service, cfg, loop, polling, table, trace>>

Codes == 1..MaxCodes
NoCode == 0

\* The loop at its top, and what remains to be handled: updates next to last.
Resting(c) == [at |-> "top", cfg |-> c, next |-> 1, last |-> 0, queued |-> 0]
Idle == [token |-> NoToken, chats |-> {}, confirm |-> FALSE, ttl |-> 0]

-----------------------------------------------------------------------------
(* Mutants of the operations below, used by the sensitivity checks only.   *)

\* A loop that keeps the offset when the token changes.
KeepOffset(token) == offset
\* An offset that asks for the last update again.
SameOffset(id) == id
\* A table that never drops what has expired.
KeepExpired == pending

-----------------------------------------------------------------------------
(* The world                                                               *)

Init ==
  /\ clock = 0
  /\ events = 0
  /\ sent = 0
  /\ inbox = [t \in Tokens |-> <<>>]
  /\ dropped = [t \in Tokens |-> 0]
  /\ cfg \in Configs
  /\ loop = Resting(Idle)
  /\ offset = 0
  /\ lastToken = NoToken
  /\ pending = [c \in {} |-> 0]
  /\ codes = 0
  /\ usedBy = [c \in Codes |-> <<>>]
  /\ done = <<>>
  /\ seen = [t \in Tokens |-> {}]

\* A chat writes to a bot; /confirm and /cancel name a code somebody was told.
Send(t, chat, command, code) ==
  /\ sent < MaxMessages
  /\ command \in Says[chat]
  /\ sent' = sent + 1
  /\ command \in {"confirm", "cancel"} <=> code # NoCode
  /\ inbox' = [inbox EXCEPT ![t] =
       Append(@, [chat |-> chat, command |-> command, code |-> code])]
  /\ UNCHANGED <<clock, events, dropped, cfg, loop, polling, table, trace>>

Tick ==
  /\ clock < MaxTime
  /\ clock' = clock + 1
  /\ UNCHANGED <<events, service, cfg, loop, polling, table, trace>>

SetConfig(c) ==
  /\ events < MaxEvents
  /\ c # cfg
  /\ events' = events + 1
  /\ cfg' = c
  /\ UNCHANGED <<clock, service, loop, polling, table, trace>>

\* WTM ends at any point and starts again; it keeps nothing.
Restart ==
  /\ events < MaxEvents
  /\ events' = events + 1
  /\ loop' = Resting(Idle)
  /\ offset' = 0
  /\ lastToken' = NoToken
  /\ pending' = [c \in {} |-> 0]
  /\ done' = <<>>
  /\ UNCHANGED <<clock, service, cfg, codes, usedBy, seen>>

-----------------------------------------------------------------------------
(* Polling                                                                 *)

Usable(c) == c.token # NoToken /\ c.chats # {}

OffsetFor(token) == IF token = lastToken THEN offset ELSE 0

Poll ==
  /\ loop.at = "top"
  /\ Usable(cfg)
  /\ loop' = [Resting(cfg) EXCEPT !.at = "poll"]
  /\ offset' = OffsetFor(cfg.token)
  /\ lastToken' = cfg.token
  /\ done' = IF cfg.token = lastToken THEN done ELSE <<>>
  /\ UNCHANGED <<clock, events, service, cfg, table, seen>>

\* The service forgets what came before the offset.
Forgotten(t) ==
  [dropped EXCEPT ![t] = IF offset - 1 > @ THEN offset - 1 ELSE @]

Answer ==
  LET t == loop.cfg.token IN
  /\ loop.at = "poll"
  /\ dropped' = Forgotten(t)
  /\ loop' = IF dropped'[t] = Len(inbox[t]) THEN Resting(Idle)
             ELSE [loop EXCEPT !.at = "batch", !.next = dropped'[t] + 1,
                               !.last = Len(inbox[t])]
  /\ UNCHANGED <<clock, events, sent, inbox, cfg, polling, table, trace>>

\* The request is lost, or its answer is.
PollFails ==
  /\ loop.at = "poll"
  /\ \/ UNCHANGED dropped
     \/ dropped' = Forgotten(loop.cfg.token)
  /\ loop' = Resting(Idle)
  /\ UNCHANGED <<clock, events, sent, inbox, cfg, polling, table, trace>>

-----------------------------------------------------------------------------
(* Handling an update                                                      *)

Update == inbox[loop.cfg.token][loop.next]

NextOffset(id) == id + 1

Take ==
  /\ loop.at = "batch"
  /\ offset' = NextOffset(loop.next)
  /\ done' = Append(done, loop.next)
  /\ seen' = [seen EXCEPT ![loop.cfg.token] = @ \cup {loop.next}]
  /\ UNCHANGED <<clock, events, service, cfg, lastToken>>

Onward == loop' = IF loop.next < loop.last
                  THEN [loop EXCEPT !.at = "batch", !.next = @ + 1, !.queued = 0]
                  ELSE Resting(Idle)

Heard(command) == Take /\ Update.chat \in loop.cfg.chats /\ Update.command = command

\* cleanupPendingLocked
Unexpired == [c \in {d \in DOMAIN pending : pending[d].until > clock} |-> pending[c]]

Lifetime(ttl) == IF ttl <= 0 THEN DefaultTtl ELSE ttl

\* storePendingAction
Store ==
  /\ codes < MaxCodes
  /\ codes' = codes + 1
  /\ LET old == Unexpired
         new == [chat |-> Update.chat, until |-> clock + Lifetime(loop.cfg.ttl)]
     IN  pending' = [c \in DOMAIN old \cup {codes'} |-> IF c = codes' THEN new ELSE old[c]]
  /\ UNCHANGED usedBy

Skip ==
  /\ Take
  /\ Update.chat \notin loop.cfg.chats
  /\ Onward
  /\ UNCHANGED table

\* Carried out at once: the config asks for no confirmation, or the command has
\* /F, or is a /resume.
RunNow ==
  /\ \/ Heard("force")
     \/ Heard("kill") /\ ~loop.cfg.confirm
  /\ Onward
  /\ UNCHANGED table

Ask ==
  /\ Heard("kill")
  /\ loop.cfg.confirm
  /\ Onward
  /\ Store

\* No code can be made: nothing is done.
AskFails ==
  /\ Heard("kill")
  /\ loop.cfg.confirm
  /\ Onward
  /\ UNCHANGED table

\* The loop waits for the advisor, then queues what it suggests, config or not.
Analyze ==
  /\ Heard("analyze")
  /\ loop' = [loop EXCEPT !.at = "advice"]
  /\ UNCHANGED table

Queue ==
  /\ loop.at = "advice"
  /\ loop.queued < MaxActions
  /\ Store
  /\ loop' = [loop EXCEPT !.queued = @ + 1]
  /\ UNCHANGED <<clock, events, service, cfg, polling, trace>>

Advised ==
  /\ loop.at = "advice"
  /\ Onward
  /\ UNCHANGED <<clock, events, service, cfg, polling, table, trace>>

\* The code is known and was given to the chat that sends it.
Granted(c) == c \in DOMAIN Unexpired /\ Unexpired[c].chat = Update.chat

Removed(c) == [d \in DOMAIN Unexpired \ {c} |-> Unexpired[d]]

\* /confirm: the action runs once its entry is gone, and may fail.
Confirm ==
  LET c == Update.code IN
  /\ Heard("confirm")
  /\ IF Granted(c)
     THEN /\ pending' = Removed(c)
          /\ usedBy' = [usedBy EXCEPT ![c] = Append(@, Update.chat)]
     ELSE /\ pending' = Unexpired
          /\ UNCHANGED usedBy
  /\ Onward
  /\ UNCHANGED codes

Cancel ==
  /\ Heard("cancel")
  /\ pending' = IF Granted(Update.code) THEN Removed(Update.code) ELSE Unexpired
  /\ Onward
  /\ UNCHANGED <<codes, usedBy>>

-----------------------------------------------------------------------------

Next ==
  \/ \E t \in Tokens, chat \in Chats, command \in Commands, code \in 0..codes :
       Send(t, chat, command, code)
  \/ Tick \/ Restart
  \/ \E c \in Configs : SetConfig(c)
  \/ Poll \/ Answer \/ PollFails
  \/ Skip \/ RunNow \/ Ask \/ AskFails
  \/ Analyze \/ Queue \/ Advised
  \/ Confirm \/ Cancel

Spec == Init /\ [][Next]_vars

-----------------------------------------------------------------------------
(* Properties                                                              *)

Message == [chat : Chats, command : Commands, code : 0..MaxCodes]

WorldType ==
  /\ clock \in 0..MaxTime
  /\ events \in 0..MaxEvents
  /\ sent \in 0..MaxMessages
  /\ inbox \in [Tokens -> Seq(Message)]
  /\ dropped \in [Tokens -> Nat]
  /\ \A t \in Tokens : dropped[t] <= Len(inbox[t]) /\ Len(inbox[t]) <= sent
  /\ cfg \in Configs

LoopType ==
  /\ loop \in [at : {"top", "poll", "batch", "advice"}, cfg : Configs \cup {Idle},
               next : 1..MaxMessages + 1, last : 0..MaxMessages, queued : 0..MaxActions]
  /\ loop.at # "top" => loop.cfg \in Configs /\ Usable(loop.cfg)
  /\ loop.at \in {"batch", "advice"} =>
       loop.next <= loop.last /\ loop.last <= Len(inbox[loop.cfg.token])
  /\ offset \in 0..MaxMessages + 1
  /\ lastToken \in Tokens \cup {NoToken}
  /\ done \in Seq(1..MaxMessages)
  /\ seen \in [Tokens -> SUBSET (1..MaxMessages)]

TableType ==
  /\ codes \in 0..MaxCodes
  /\ DOMAIN pending \subseteq 1..codes
  /\ \A c \in DOMAIN pending : pending[c] \in [chat : Chats, until : Nat \ {0}]
  /\ usedBy \in [Codes -> Seq(Chats)]

\* Types; an action that waits has a code that was made, and gets some time.
TypeOK == WorldType /\ LoopType /\ TableType

\* No update is lost: the service forgets none that the bot has not handled,
\* across failed polls, restarts, and tokens that come and go.
NothingSkipped == \A t \in Tokens : 1..dropped[t] \subseteq seen[t]

\* Between two resets of the offset the bot handles each update at most once, in
\* the order in which they were sent.
HandledInOrder == \A i \in 1..Len(done) - 1 : done[i] < done[i + 1]

\* The table of codes is an Approval: an action runs at most once, before its
\* time is up, and for the chat that asked, whatever the service delivers again.
Offered == [c \in {d \in DOMAIN pending : pending[d].until > clock} |->
             [owner |-> pending[c].chat, until |-> pending[c].until]]

A == INSTANCE Approval WITH
       Offers <- Codes, Owners <- Chats, made <- 1..codes, open <- Offered

Approves == A!Spec

=============================================================================
