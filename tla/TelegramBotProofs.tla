--------------------------- MODULE TelegramBotProofs ---------------------------
(***************************************************************************)
(* What the bot promises for any tokens, chats, configs and messages: no   *)
(* update is lost or handled out of order, and its table of codes is an    *)
(* Approval.                                                               *)
(***************************************************************************)
EXTENDS TelegramBot, TLAPS

USE BotAssumption DEF Commands, Codes, NoCode

(* The bot's place in the updates of the bot it asked last: everything before the
   offset, and before the update in hand, has been handled, and the updates handled
   since the offset was reset end where it says. *)
Place ==
  /\ loop.at # "top" => loop.cfg.token = lastToken
  /\ offset > 0 => /\ lastToken \in Tokens
                   /\ offset <= Len(inbox[lastToken]) + 1
                   /\ 1..offset - 1 \subseteq seen[lastToken]
  /\ loop.at = "batch" => offset <= loop.next /\ 1..loop.next - 1 \subseteq seen[lastToken]
  /\ loop.at = "advice" => offset = loop.next + 1
  /\ done # <<>> => done[Len(done)] = offset - 1
  /\ NothingSkipped
  /\ HandledInOrder

BotInv == TypeOK /\ Place

-----------------------------------------------------------------------------
(* Types of the world *)

LEMMA WorldTyped == BotInv /\ [Next]_vars => WorldType'
<1> SUFFICES ASSUME BotInv, [Next]_vars PROVE WorldType'
  OBVIOUS
<1>0. WorldType /\ LoopType
  BY DEF BotInv, TypeOK
<1>1. CASE UNCHANGED <<clock, events, service, cfg>>
  BY <1>0, <1>1 DEF WorldType, service
<1>2. ASSUME NEW t \in Tokens, NEW chat \in Chats, NEW command \in Commands,
             NEW code \in 0..codes, Send(t, chat, command, code)
      PROVE  WorldType'
  <2> DEFINE m == [chat |-> chat, command |-> command, code |-> code]
  <2>1. m \in Message
    BY DEF Message, BotInv, TypeOK, TableType
  <2>2. inbox' = [inbox EXCEPT ![t] = Append(@, m)] /\ inbox \in [Tokens -> Seq(Message)]
    BY <1>0, <1>2 DEF Send, WorldType
  <2> HIDE DEF m
  <2>3. /\ inbox' \in [Tokens -> Seq(Message)]
        /\ \A u \in Tokens : Len(inbox'[u]) = IF u = t THEN Len(inbox[u]) + 1 ELSE Len(inbox[u])
    BY <2>1, <2>2
  <2>4. /\ sent' \in 0..MaxMessages /\ sent' = sent + 1
        /\ UNCHANGED <<clock, events, dropped, cfg>>
    BY <1>0, <1>2 DEF Send, WorldType
  <2>5. QED
    BY <1>0, <2>3, <2>4 DEF WorldType
<1>3. CASE Tick
  BY <1>0, <1>3 DEF WorldType, Tick, service
<1>4. ASSUME NEW c \in Configs, SetConfig(c) PROVE WorldType'
  BY <1>0, <1>4 DEF WorldType, SetConfig, service
<1>5. CASE Restart
  BY <1>0, <1>5 DEF WorldType, Restart, service
<1>6. CASE Answer \/ PollFails
  <2> DEFINE t == loop.cfg.token
  <2>1. UNCHANGED <<clock, events, sent, inbox, cfg>> /\ dropped' \in {dropped, Forgotten(t)}
    BY <1>6 DEF Answer, PollFails
  <2>2. t \in Tokens /\ (offset > 0 => offset <= Len(inbox[t]) + 1)
    BY <1>0, <1>6 DEF LoopType, Usable, Idle, BotInv, Place, Answer, PollFails
  <2>3. /\ \A u \in Tokens : dropped[u] \in Nat /\ dropped[u] <= Len(inbox[u])
        /\ offset \in Nat /\ Len(inbox[t]) \in Nat
    <3>1. inbox[t] \in Seq(Message) /\ offset \in Nat
      BY <1>0, <2>2 DEF WorldType, LoopType
    <3>2. QED
      BY <1>0, <3>1 DEF WorldType
  <2>4. /\ dropped' \in [Tokens -> Nat]
        /\ \A u \in Tokens : dropped'[u] <= Len(inbox[u])
    <3> DEFINE n == IF offset - 1 > dropped[t] THEN offset - 1 ELSE dropped[t]
    <3>1. n \in Nat /\ n <= Len(inbox[t])
      BY <2>2, <2>3
    <3>2. dropped' \in {dropped, [dropped EXCEPT ![t] = n]} /\ dropped \in [Tokens -> Nat]
      BY <1>0, <2>1 DEF Forgotten, WorldType
    <3> HIDE DEF n
    <3>3. QED
      BY <2>2, <2>3, <3>1, <3>2
  <2>5. QED
    BY <1>0, <2>1, <2>4 DEF WorldType
<1>7. QED
  BY <1>1, <1>2, <1>3, <1>4, <1>5, <1>6
  DEF Next, Poll, Skip, RunNow, Ask, AskFails, Analyze, Queue, Advised, Confirm, Cancel, Heard,
      Take, vars, service

-----------------------------------------------------------------------------
(* The loop *)

(* What holds of the update in hand. *)
LEMMA InHand ==
  ASSUME BotInv, loop.at \in {"batch", "advice"}
  PROVE  /\ loop.cfg.token = lastToken /\ lastToken \in Tokens
         /\ loop.next \in 1..MaxMessages /\ loop.last \in 1..MaxMessages
         /\ loop.next <= loop.last /\ loop.last <= Len(inbox[lastToken])
         /\ Len(inbox[lastToken]) \in Nat
<1>1. WorldType /\ LoopType /\ Place
  BY DEF BotInv, TypeOK
<1>2. /\ loop.cfg \in Configs /\ loop.cfg.token # NoToken /\ loop.cfg.token = lastToken
      /\ loop.next \in 1..MaxMessages + 1 /\ loop.last \in 0..MaxMessages
      /\ loop.next <= loop.last /\ loop.last <= Len(inbox[loop.cfg.token])
  BY <1>1 DEF LoopType, Place, Usable
<1>3. lastToken \in Tokens
  BY <1>2
<1>4. inbox[lastToken] \in Seq(Message)
  BY <1>1, <1>3 DEF WorldType
<1>5. QED
  BY <1>2, <1>3, <1>4

(* A loop that goes on to the next update, or back to its top. *)
LEMMA OnwardShape ==
  ASSUME BotInv, loop.at \in {"batch", "advice"}, Onward
  PROVE  \/ /\ loop' = Resting(Idle)
         \/ /\ loop' \in [at : {"batch"}, cfg : {loop.cfg}, next : {loop.next + 1},
                          last : {loop.last}, queued : {0}]
            /\ loop.next < loop.last
BY DEF Onward, BotInv, TypeOK, LoopType

LEMMA TakeKeeps ==
  ASSUME BotInv, Take
  PROVE  /\ offset' = loop.next + 1 /\ offset' \in 0..MaxMessages + 1
         /\ UNCHANGED <<inbox, dropped, lastToken>>
         /\ done' \in Seq(1..MaxMessages)
         /\ done' # <<>> /\ done'[Len(done')] = offset' - 1
         /\ seen' \in [Tokens -> SUBSET (1..MaxMessages)]
         /\ 1..offset' - 1 \subseteq seen'[lastToken]
         /\ \A t \in Tokens : seen[t] \subseteq seen'[t]
         /\ HandledInOrder'
<1>1. /\ loop.at = "batch" /\ loop.cfg.token = lastToken /\ lastToken \in Tokens
      /\ loop.next \in 1..MaxMessages /\ offset <= loop.next /\ offset \in Nat
      /\ done \in Seq(1..MaxMessages) /\ HandledInOrder
      /\ done # <<>> => done[Len(done)] = offset - 1
      /\ seen \in [Tokens -> SUBSET (1..MaxMessages)]
      /\ 1..loop.next - 1 \subseteq seen[lastToken]
  BY InHand DEF BotInv, Place, Take, TypeOK, LoopType
<1>2. /\ offset' = loop.next + 1 /\ done' = Append(done, loop.next)
      /\ seen' = [seen EXCEPT ![lastToken] = @ \cup {loop.next}]
      /\ UNCHANGED <<inbox, dropped, lastToken>>
  BY <1>1 DEF Take, NextOffset, service
<1>3. /\ done' \in Seq(1..MaxMessages) /\ Len(done') = Len(done) + 1 /\ Len(done) \in Nat
      /\ done'[Len(done')] = loop.next
      /\ \A i \in 1..Len(done) : done'[i] = done[i]
  BY <1>1, <1>2
<1>4. HandledInOrder'
  <2> SUFFICES ASSUME NEW i \in 1..Len(done') - 1 PROVE done'[i] < done'[i + 1]
    BY DEF HandledInOrder
  <2>1. CASE i = Len(done)
    <3>1. done # <<>> /\ done[i] = offset - 1
      BY <1>1, <1>3, <2>1
    <3>2. done'[i] = offset - 1 /\ done'[i + 1] = loop.next
      BY <1>3, <2>1, <3>1
    <3>3. QED
      BY <1>1, <3>2
  <2>2. CASE i # Len(done)
    <3>1. i \in 1..Len(done) - 1 /\ i \in 1..Len(done) /\ i + 1 \in 1..Len(done)
      BY <1>3, <2>2
    <3>2. done[i] < done[i + 1]
      BY <1>1, <3>1 DEF HandledInOrder
    <3>3. done'[i] = done[i] /\ done'[i + 1] = done[i + 1]
      BY <1>3, <3>1
    <3>4. QED
      BY <3>2, <3>3
  <2>3. QED
    BY <2>1, <2>2
<1>5. /\ seen' \in [Tokens -> SUBSET (1..MaxMessages)]
      /\ 1..loop.next \subseteq seen'[lastToken]
      /\ \A t \in Tokens : seen[t] \subseteq seen'[t]
  BY <1>1, <1>2
<1>6. offset' - 1 = loop.next /\ offset' \in 0..MaxMessages + 1 /\ done' # <<>>
  <2>1. offset' - 1 = loop.next /\ offset' \in 0..MaxMessages + 1
    BY <1>1, <1>2
  <2>2. done' # <<>>
    BY <1>1, <1>2
  <2>3. QED
    BY <2>1, <2>2
<1>7. QED
  BY <1>2, <1>3, <1>4, <1>5, <1>6

(* The inboxes only grow. *)
LEMMA InboxGrows ==
  ASSUME BotInv, [Next]_vars
  PROVE  \A t \in Tokens : Len(inbox[t]) \in Nat /\ Len(inbox'[t]) \in Nat
                           /\ Len(inbox[t]) <= Len(inbox'[t])
<1>0. inbox \in [Tokens -> Seq(Message)] /\ inbox' \in [Tokens -> Seq(Message)]
  BY WorldTyped DEF BotInv, TypeOK, WorldType
<1>1. CASE inbox' = inbox
  BY <1>0, <1>1
<1>2. ASSUME NEW t \in Tokens, NEW m, inbox' = [inbox EXCEPT ![t] = Append(@, m)]
      PROVE  \A u \in Tokens : Len(inbox[u]) <= Len(inbox'[u])
  BY <1>0, <1>2
<1>3. CASE inbox' # inbox
  <2>1. PICK t \in Tokens, chat \in Chats, command \in Commands, code \in 0..codes :
          Send(t, chat, command, code)
    BY <1>3
    DEF Next, Tick, Restart, SetConfig, Poll, Answer, PollFails, Skip, RunNow, Ask, AskFails,
        Analyze, Queue, Advised, Confirm, Cancel, Heard, Take, vars, service
  <2>2. QED
    BY <1>0, <1>2, <2>1 DEF Send
<1>4. QED
  BY <1>1, <1>3

(* The loop's variables as a whole. *)
LoopInv == LoopType /\ Place

LoopRecord ==
  [at : {"top", "poll", "batch", "advice"}, cfg : Configs \cup {Idle},
   next : 1..MaxMessages + 1, last : 0..MaxMessages, queued : 0..MaxActions]

LEMMA RestingTyped ==
  /\ Resting(Idle) \in LoopRecord
  /\ Resting(Idle).at = "top"
BY DEF Resting, LoopRecord

LEMMA Record == LoopType => loop \in LoopRecord
BY DEF LoopType, LoopRecord

LEMMA Handles ==
  ASSUME BotInv, Take, Onward \/ loop' = [loop EXCEPT !.at = "advice"], WorldType'
  PROVE  LoopInv'
<1>0. LoopType /\ Place /\ loop.at = "batch"
  BY DEF BotInv, TypeOK, Take
<1>1. /\ offset' = loop.next + 1 /\ offset' \in 0..MaxMessages + 1
      /\ UNCHANGED <<inbox, dropped, lastToken>>
      /\ done' \in Seq(1..MaxMessages)
      /\ done' # <<>> /\ done'[Len(done')] = offset' - 1
      /\ seen' \in [Tokens -> SUBSET (1..MaxMessages)]
      /\ 1..offset' - 1 \subseteq seen'[lastToken]
      /\ \A t \in Tokens : seen[t] \subseteq seen'[t]
      /\ HandledInOrder'
  BY TakeKeeps
<1>2. /\ loop.cfg.token = lastToken /\ lastToken \in Tokens
      /\ loop.next \in 1..MaxMessages /\ loop.last \in 1..MaxMessages
      /\ loop.next <= loop.last /\ loop.last <= Len(inbox[lastToken])
      /\ Len(inbox[lastToken]) \in Nat
      /\ loop.cfg \in Configs /\ Usable(loop.cfg)
  BY <1>0, InHand DEF LoopType
<1>3. NothingSkipped'
  BY <1>0, <1>1 DEF Place, NothingSkipped
<1>4. offset' <= Len(inbox'[lastToken']) + 1
  <2>1. loop.next + 1 <= Len(inbox[lastToken]) + 1
    BY <1>2
  <2>2. inbox'[lastToken'] = inbox[lastToken]
    BY <1>1
  <2>3. QED
    BY <1>1, <2>1, <2>2
<1>5. CASE loop' = Resting(Idle)
  <2>1. loop' \in LoopRecord /\ loop'.at = "top"
    BY <1>5, RestingTyped
  <2>2. lastToken' \in Tokens
    BY <1>1, <1>2
  <2>3. LoopType'
    BY <1>1, <2>1, <2>2 DEF LoopType, LoopRecord
  <2>4. Place'
    BY <1>1, <1>3, <1>4, <2>1, <2>2 DEF Place
  <2>5. QED
    BY <2>3, <2>4 DEF LoopInv
<1>6. CASE /\ loop' \in [at : {"batch"}, cfg : {loop.cfg}, next : {loop.next + 1},
                         last : {loop.last}, queued : {0}]
           /\ loop.next < loop.last
  <2>1. /\ loop'.at = "batch" /\ loop'.cfg = loop.cfg /\ loop'.next = loop.next + 1
        /\ loop'.last = loop.last /\ loop'.queued = 0
    BY <1>6
  <2>5. loop' \in LoopRecord
    BY <1>0, <1>2, <1>6, Record DEF LoopRecord
  <2>6. loop'.next <= loop'.last /\ loop'.last <= Len(inbox'[loop'.cfg.token])
    <3>1. loop.next + 1 <= loop.last
      BY <1>2, <1>6
    <3>2. inbox'[loop'.cfg.token] = inbox[lastToken]
      BY <1>1, <1>2, <2>1
    <3>3. QED
      BY <1>2, <2>1, <3>1, <3>2
  <2>2. LoopType'
    BY <1>1, <1>2, <2>1, <2>5, <2>6 DEF LoopType, LoopRecord
  <2>3. Place'
    BY <1>1, <1>2, <1>3, <1>4, <2>1 DEF Place
  <2>4. QED
    BY <2>2, <2>3 DEF LoopInv
<1>7. CASE loop' = [loop EXCEPT !.at = "advice"]
  <2>1. /\ loop'.at = "advice" /\ loop'.cfg = loop.cfg /\ loop'.next = loop.next
        /\ loop'.last = loop.last
    BY <1>0, <1>7 DEF LoopType
  <2>2. LoopType'
    BY <1>0, <1>1, <1>2, <1>7, <2>1 DEF LoopType
  <2>3. Place'
    BY <1>1, <1>2, <1>3, <1>4, <2>1 DEF Place
  <2>4. QED
    BY <2>2, <2>3 DEF LoopInv
<1>8. QED
  BY <1>0, <1>5, <1>6, <1>7, OnwardShape

LEMMA Polls ==
  ASSUME BotInv, Poll \/ Answer \/ PollFails, WorldType' PROVE LoopInv'
<1>0. WorldType /\ LoopType /\ Place
  BY DEF BotInv, TypeOK
<1>1. CASE Poll
  <2>1. /\ loop'.at = "poll" /\ loop'.cfg = cfg /\ lastToken' = cfg.token
        /\ loop' \in [at : {"poll"}, cfg : Configs, next : {1}, last : {0}, queued : {0}]
        /\ cfg \in Configs /\ Usable(cfg) /\ cfg.token \in Tokens
        /\ UNCHANGED <<inbox, dropped, seen>>
    BY <1>0, <1>1 DEF Poll, Resting, WorldType, Usable, service
  <2>2. CASE cfg.token = lastToken
    <3>1. UNCHANGED <<offset, done, lastToken>>
      BY <1>1, <2>1, <2>2 DEF Poll, OffsetFor
    <3>2. QED
      BY <1>0, <2>1, <3>1 DEF LoopInv, LoopType, Place, NothingSkipped, HandledInOrder
  <2>3. CASE cfg.token # lastToken
    <3>1. offset' = 0 /\ done' = <<>>
      BY <1>1, <2>1, <2>3 DEF Poll, OffsetFor
    <3>2. HandledInOrder'
      BY <3>1 DEF HandledInOrder
    <3>3. QED
      BY <1>0, <2>1, <3>1, <3>2 DEF LoopInv, LoopType, Place, NothingSkipped
  <2>4. QED
    BY <2>2, <2>3
<1>2. CASE Answer \/ PollFails
  <2> DEFINE t == loop.cfg.token
  <2>1. /\ dropped' \in {dropped, Forgotten(t)}
        /\ UNCHANGED <<inbox, offset, lastToken, done, seen>>
        /\ t = lastToken /\ t \in Tokens
        /\ loop.cfg \in Configs /\ Usable(loop.cfg)
    BY <1>0, <1>2 DEF Answer, PollFails, Place, LoopType, Usable, polling, trace
  <2>2. NothingSkipped'
    <3>1. \A u \in Tokens : \/ dropped'[u] = dropped[u]
                            \/ u = t /\ dropped'[u] = offset - 1 /\ offset > 0
      <4>1. dropped \in [Tokens -> Nat] /\ dropped[t] \in Nat /\ offset \in Nat
        BY <1>0, <2>1 DEF WorldType, LoopType
      <4>2. CASE offset - 1 > dropped[t]
        BY <2>1, <4>1, <4>2 DEF Forgotten
      <4>3. CASE ~(offset - 1 > dropped[t])
        BY <2>1, <4>1, <4>3 DEF Forgotten
      <4>4. QED
        BY <4>2, <4>3
    <3>2. QED
      BY <1>0, <2>1, <3>1 DEF Place, NothingSkipped
  <2>3. HandledInOrder'
    BY <1>0, <2>1 DEF Place, HandledInOrder
  <2>4. CASE loop' = Resting(Idle)
    BY <1>0, <2>1, <2>2, <2>3, <2>4 DEF LoopInv, LoopType, Place, Resting
  <2>5. CASE Answer /\ loop' # Resting(Idle)
    <3>1. loop' = [loop EXCEPT !.at = "batch", !.next = dropped'[t] + 1, !.last = Len(inbox[t])]
      BY <2>5 DEF Answer
    <3>2. /\ loop'.at = "batch" /\ loop'.cfg = loop.cfg /\ loop'.next = dropped'[t] + 1
          /\ loop'.last = Len(inbox[t]) /\ loop'.queued = loop.queued
      BY <1>0, <3>1 DEF LoopType
    <3>3. /\ dropped'[t] \in Nat /\ dropped'[t] < Len(inbox[t]) /\ offset - 1 <= dropped'[t]
          /\ Len(inbox[t]) \in 0..MaxMessages
      <4>1. dropped'[t] # Len(inbox[t])
        BY <2>5 DEF Answer
      <4>2. dropped'[t] \in Nat /\ dropped'[t] <= Len(inbox[t]) /\ Len(inbox[t]) <= sent
        BY <1>0, <2>1 DEF WorldType
      <4>3. Len(inbox[t]) \in Nat /\ sent \in 0..MaxMessages
        BY <1>0, <2>1 DEF WorldType
      <4>4. offset - 1 <= dropped'[t]
        <5>1. dropped \in [Tokens -> Nat] /\ dropped[t] \in Nat /\ offset \in Nat
          BY <1>0, <2>1 DEF WorldType, LoopType
        <5>2. dropped' = Forgotten(t)
          BY <2>5 DEF Answer
        <5>3. QED
          BY <2>1, <5>1, <5>2 DEF Forgotten
      <4>5. QED
        BY <4>1, <4>2, <4>3, <4>4
    <3>4. LoopType'
      <4>1. dropped'[t] + 1 \in 1..MaxMessages + 1
        BY <3>3
      <4> DEFINE next == dropped'[t] + 1
                 last == Len(inbox[t])
      <4>2. loop' = [loop EXCEPT !.at = "batch", !.next = next, !.last = last]
        BY <3>1
      <4>3. next \in 1..MaxMessages + 1 /\ last \in 0..MaxMessages /\ next <= last
        BY <3>3, <4>1
      <4> HIDE DEF next, last
      <4>4. /\ loop' \in LoopRecord /\ loop'.next <= loop'.last /\ loop'.at = "batch"
            /\ loop'.cfg = loop.cfg /\ loop'.last = last
        BY <1>0, <4>2, <4>3, Record DEF LoopRecord
      <4>5. Len(inbox'[loop'.cfg.token]) = last
        BY <2>1, <4>4 DEF last
      <4>6. last <= Len(inbox'[loop'.cfg.token])
        BY <4>3, <4>5
      <4>7. QED
        BY <1>0, <2>1, <4>4, <4>6 DEF LoopType, LoopRecord
    <3>5. 1..loop'.next - 1 \subseteq seen'[lastToken']
      BY <2>1, <2>2, <3>2, <3>3 DEF NothingSkipped
    <3>6. offset' <= loop'.next
      BY <1>0, <2>1, <3>2, <3>3 DEF LoopType
    <3>7. QED
      BY <1>0, <2>1, <2>2, <2>3, <3>2, <3>4, <3>5, <3>6 DEF LoopInv, Place
  <2>6. QED
    BY <1>2, <2>4, <2>5 DEF PollFails
<1>3. QED
  BY <1>1, <1>2

LEMMA LoopInvInductive == BotInv /\ [Next]_vars => LoopInv'
<1> SUFFICES ASSUME BotInv, [Next]_vars PROVE LoopInv'
  OBVIOUS
<1>0. LoopType /\ Place /\ WorldType'
  BY WorldTyped DEF BotInv, TypeOK
<1>1. CASE UNCHANGED <<loop, polling, trace, dropped>>
  <2>1. /\ UNCHANGED <<loop, offset, lastToken, done, seen, dropped>>
    BY <1>1 DEF polling, trace
  <2>2. loop.at \in {"batch", "advice"} => loop.cfg.token \in Tokens
    BY <1>0 DEF LoopType, Usable
  <2>3. LoopType'
    BY <1>0, <2>1, <2>2, InboxGrows DEF LoopType
  <2>4. offset > 0 => offset <= Len(inbox'[lastToken]) + 1
    BY <1>0, <2>1, InboxGrows DEF Place, LoopType
  <2>5. Place'
    BY <1>0, <2>1, <2>4 DEF Place, NothingSkipped, HandledInOrder
  <2>6. QED
    BY <2>3, <2>5 DEF LoopInv
<1>2. CASE Restart
  <2>1. /\ loop' = Resting(Idle) /\ offset' = 0 /\ lastToken' = NoToken /\ done' = <<>>
        /\ UNCHANGED <<seen, dropped>>
    BY <1>2 DEF Restart, service
  <2>2. LoopType'
    BY <1>0, <2>1, RestingTyped DEF LoopType, LoopRecord
  <2>3. HandledInOrder' /\ NothingSkipped'
    BY <1>0, <2>1 DEF Place, NothingSkipped, HandledInOrder
  <2>4. Place'
    BY <2>1, <2>3, RestingTyped DEF Place
  <2>5. QED
    BY <2>2, <2>4 DEF LoopInv
<1>3. CASE Poll \/ Answer \/ PollFails
  BY <1>0, <1>3, Polls
<1>4. CASE Skip \/ RunNow \/ Ask \/ AskFails \/ Analyze \/ Confirm \/ Cancel
  <2>1. Take /\ (Onward \/ loop' = [loop EXCEPT !.at = "advice"])
    BY <1>4 DEF Skip, RunNow, Ask, AskFails, Analyze, Confirm, Cancel, Heard
  <2>2. QED
    BY <1>0, <2>1, Handles
<1>5. CASE Queue
  <2> DEFINE n == loop.queued + 1
  <2>1. /\ loop' = [loop EXCEPT !.queued = n] /\ n \in 0..MaxActions
        /\ UNCHANGED <<inbox, dropped, offset, lastToken, done, seen>>
    BY <1>0, <1>5 DEF Queue, LoopType, service, polling, trace
  <2> HIDE DEF n
  <2>2. /\ loop' \in LoopRecord
        /\ loop'.at = loop.at /\ loop'.cfg = loop.cfg
        /\ loop'.next = loop.next /\ loop'.last = loop.last
    BY <1>0, <2>1, Record DEF LoopRecord
  <2>3. LoopType'
    BY <1>0, <2>1, <2>2 DEF LoopType, LoopRecord
  <2>4. Place'
    BY <1>0, <2>1, <2>2 DEF Place, NothingSkipped, HandledInOrder
  <2>5. QED
    BY <2>3, <2>4 DEF LoopInv
<1>6. CASE Advised
  <2>1. /\ UNCHANGED <<inbox, dropped, offset, lastToken, done, seen>>
        /\ loop.at = "advice" /\ Onward
    BY <1>6 DEF Advised, service, polling, trace
  <2>2. /\ loop.cfg.token = lastToken /\ lastToken \in Tokens
        /\ loop.next \in 1..MaxMessages /\ loop.last \in 1..MaxMessages
        /\ loop.next <= loop.last /\ loop.last <= Len(inbox[lastToken])
        /\ Len(inbox[lastToken]) \in Nat
        /\ offset = loop.next + 1 /\ 1..offset - 1 \subseteq seen[lastToken]
        /\ loop.cfg \in Configs /\ Usable(loop.cfg)
    BY <1>0, <2>1, InHand DEF Place, LoopType
  <2>3. CASE loop' = Resting(Idle)
    BY <1>0, <2>1, <2>2, <2>3, RestingTyped
    DEF LoopInv, LoopType, LoopRecord, Place, NothingSkipped, HandledInOrder
  <2>4. CASE /\ loop' \in [at : {"batch"}, cfg : {loop.cfg}, next : {loop.next + 1},
                           last : {loop.last}, queued : {0}]
             /\ loop.next < loop.last
    <3>1. /\ loop'.at = "batch" /\ loop'.cfg = loop.cfg /\ loop'.next = loop.next + 1
          /\ loop'.last = loop.last
      BY <2>4
    <3>2. loop' \in LoopRecord
      BY <2>2, <2>4 DEF LoopRecord
    <3>3. loop'.next <= loop'.last /\ loop'.last <= Len(inbox'[loop'.cfg.token])
      <4>1. loop.next + 1 <= loop.last
        BY <2>2, <2>4
      <4>2. inbox'[loop'.cfg.token] = inbox[lastToken]
        BY <2>1, <2>2, <3>1
      <4>3. QED
        BY <2>2, <3>1, <4>1, <4>2
    <3>4. LoopType'
      BY <1>0, <2>1, <2>2, <3>1, <3>2, <3>3 DEF LoopType, LoopRecord
    <3>5. offset' <= loop'.next /\ 1..loop'.next - 1 \subseteq seen'[lastToken']
      BY <2>1, <2>2, <3>1
    <3>6. Place'
      BY <1>0, <2>1, <2>2, <3>1, <3>5 DEF Place, NothingSkipped, HandledInOrder
    <3>7. QED
      BY <3>4, <3>6 DEF LoopInv
  <2>5. QED
    BY <2>1, <2>3, <2>4, OnwardShape
<1>7. QED
  BY <1>1, <1>2, <1>3, <1>4, <1>5, <1>6
  DEF Next, Send, Tick, SetConfig, vars, service

-----------------------------------------------------------------------------
(* The table of codes *)

Entry == [chat : Chats, until : Nat \ {0}]

(* What cleanupPendingLocked keeps. *)
LEMMA CleanUp ==
  /\ DOMAIN Unexpired = {d \in DOMAIN pending : pending[d].until > clock}
  /\ \A c \in DOMAIN Unexpired : Unexpired[c] = pending[c]
BY DEF Unexpired

LEMMA StoreShape ==
  ASSUME BotInv, Store, loop.at \in {"batch", "advice"}
  PROVE  /\ codes' = codes + 1 /\ codes' \in Codes /\ UNCHANGED usedBy
         /\ DOMAIN pending' = DOMAIN Unexpired \cup {codes'}
         /\ \A c \in DOMAIN Unexpired : pending'[c] = pending[c]
         /\ pending'[codes'] \in Entry
         /\ pending'[codes'].until > clock
<1>0. WorldType /\ LoopType /\ TableType
  BY DEF BotInv, TypeOK
<1>1. /\ codes' = codes + 1 /\ codes' \in Codes /\ UNCHANGED usedBy
      /\ codes' \notin DOMAIN Unexpired
  BY <1>0, CleanUp DEF Store, TableType
<1>2. Update.chat \in Chats /\ loop.cfg.ttl \in Int
  <2>1. inbox[lastToken] \in Seq(Message) /\ loop.next \in 1..Len(inbox[lastToken])
    BY <1>0, InHand DEF WorldType
  <2>2. Update \in Message
    BY <2>1, InHand DEF Update
  <2>3. QED
    BY <1>0, <2>2 DEF LoopType, Message
<1> DEFINE ttl == Lifetime(loop.cfg.ttl)
           new == [chat |-> Update.chat, until |-> clock + ttl]
<1>3. ttl \in Nat \ {0} /\ clock \in Nat
  BY <1>0, <1>2 DEF Lifetime, WorldType
<1> HIDE DEF ttl
<1>4. new \in Entry /\ new.until > clock
  BY <1>2, <1>3 DEF Entry
<1>5. pending' = [c \in DOMAIN Unexpired \cup {codes'} |->
                   IF c = codes' THEN new ELSE Unexpired[c]]
  BY DEF Store, ttl
<1> HIDE DEF new
<1>6. QED
  BY <1>1, <1>4, <1>5, CleanUp

(* A step that stores an action works on an update of an allowed chat. *)
LEMMA StoreSteps ==
  ASSUME BotInv, [Next]_vars, codes' # codes
  PROVE  /\ Store /\ UNCHANGED clock
         /\ loop.at \in {"batch", "advice"}
BY DEF Next, Send, Tick, Restart, SetConfig, Poll, Answer, PollFails, Skip, RunNow, Ask, AskFails,
       Analyze, Queue, Advised, Confirm, Cancel, Heard, Take, vars, table

(* What else a step may do to the table. *)
TableStep ==
  \/ UNCHANGED table
  \/ /\ pending' = Unexpired
     /\ UNCHANGED <<codes, usedBy>>
  \/ /\ DOMAIN pending' = {}
     /\ UNCHANGED <<codes, usedBy>>
  \/ \E c \in DOMAIN Unexpired :
       /\ pending' = Removed(c)
       /\ codes' = codes
       /\ usedBy' \in {usedBy, [usedBy EXCEPT ![c] = Append(@, pending[c].chat)]}

LEMMA TableSteps ==
  ASSUME BotInv, [Next]_vars, codes' = codes
  PROVE  TableStep
<1>0. TableType
  BY DEF BotInv, TypeOK
<1>1. ~Store
  BY <1>0 DEF Store, TableType
<1>2. CASE Confirm
  <2>1. CASE Granted(Update.code)
    BY <1>2, <2>1, CleanUp DEF Confirm, TableStep, Granted
  <2>2. CASE ~Granted(Update.code)
    BY <1>2, <2>2 DEF Confirm, TableStep
  <2>3. QED
    BY <2>1, <2>2
<1>3. CASE Cancel
  BY <1>3 DEF Cancel, TableStep, Granted
<1>4. CASE Restart
  BY <1>4 DEF Restart, TableStep
<1>5. QED
  BY <1>1, <1>2, <1>3, <1>4
  DEF Next, Send, Tick, SetConfig, Poll, Answer, PollFails, Skip, RunNow, Ask, AskFails, Analyze,
      Queue, Advised, TableStep, vars, table

LEMMA TableTyped == BotInv /\ [Next]_vars => TableType'
<1> SUFFICES ASSUME BotInv, [Next]_vars PROVE TableType'
  OBVIOUS
<1>0. TableType
  BY DEF BotInv, TypeOK
<1>1. CASE codes' # codes
  <2>1. /\ codes' = codes + 1 /\ codes' \in Codes /\ UNCHANGED usedBy
        /\ DOMAIN pending' = DOMAIN Unexpired \cup {codes'}
        /\ \A c \in DOMAIN Unexpired : pending'[c] = pending[c]
        /\ pending'[codes'] \in Entry
    BY <1>1, StoreSteps, StoreShape
  <2>2. \A c \in DOMAIN pending' : pending'[c] \in Entry
    BY <1>0, <2>1, CleanUp DEF TableType, Entry
  <2>3. DOMAIN pending' \subseteq 1..codes'
    BY <1>0, <2>1, CleanUp DEF TableType
  <2>4. QED
    BY <1>0, <2>1, <2>2, <2>3 DEF TableType, Entry
<1>2. CASE codes' = codes
  <2>1. CASE UNCHANGED table
    BY <1>0, <2>1 DEF TableType, table
  <2>2. CASE pending' = Unexpired /\ UNCHANGED <<codes, usedBy>>
    BY <1>0, <2>2, CleanUp DEF TableType
  <2>3. CASE DOMAIN pending' = {} /\ UNCHANGED <<codes, usedBy>>
    BY <1>0, <2>3 DEF TableType
  <2>4. ASSUME NEW c \in DOMAIN Unexpired, pending' = Removed(c), codes' = codes,
               usedBy' \in {usedBy, [usedBy EXCEPT ![c] = Append(@, pending[c].chat)]}
        PROVE  TableType'
    <3>1. /\ DOMAIN pending' \subseteq 1..codes
          /\ \A d \in DOMAIN pending' : pending'[d] \in Entry
      BY <1>0, <2>4, CleanUp DEF TableType, Entry, Removed
    <3>2. pending[c].chat \in Chats
      BY <1>0, CleanUp DEF TableType
    <3>3. usedBy' \in [Codes -> Seq(Chats)]
      <4>1. c \in Codes /\ usedBy \in [Codes -> Seq(Chats)]
        BY <1>0, CleanUp DEF TableType
      <4>2. Append(usedBy[c], pending[c].chat) \in Seq(Chats)
        BY <3>2, <4>1
      <4>3. QED
        BY <2>4, <4>1, <4>2
    <3>4. QED
      BY <1>0, <2>4, <3>1, <3>3 DEF TableType, Entry
  <2>5. QED
    BY <1>2, <2>1, <2>2, <2>3, <2>4, TableSteps DEF TableStep
<1>3. QED
  BY <1>1, <1>2

LEMMA BotInvInductive == BotInv /\ [Next]_vars => BotInv'
BY WorldTyped, LoopInvInductive, TableTyped DEF BotInv, TypeOK, LoopInv

LEMMA BotInvInit == Init => BotInv
<1> SUFFICES ASSUME Init PROVE BotInv
  OBVIOUS
<1>1. WorldType
  BY DEF Init, WorldType
<1>2. LoopType /\ loop.at = "top"
  BY RestingTyped DEF Init, LoopType, LoopRecord
<1>3. TableType
  BY DEF Init, TableType
<1>4. NothingSkipped /\ HandledInOrder
  BY DEF Init, NothingSkipped, HandledInOrder
<1>5. Place
  BY <1>2, <1>4 DEF Init, Place
<1>6. QED
  BY <1>1, <1>2, <1>3, <1>5 DEF BotInv, TypeOK

LEMMA BotInvHolds == Spec => []BotInv
BY BotInvInit, BotInvInductive, PTL DEF Spec

(* World, loop and table keep their types: the update in hand is one that was
   sent, and an action that waits has a code that was made. *)
THEOREM Typing == Spec => []TypeOK
<1>1. BotInv => TypeOK
  BY DEF BotInv
<1>2. QED
  BY <1>1, BotInvHolds, PTL

(* The service forgets no update that the bot has not handled, whatever polls
   fail, whenever WTM restarts, and however often the token changes. *)
THEOREM NoUpdateIsLost == Spec => []NothingSkipped
<1>1. BotInv => NothingSkipped
  BY DEF BotInv, Place
<1>2. QED
  BY <1>1, BotInvHolds, PTL

(* From one reset of the offset to the next, no update is handled twice or after
   a later one. *)
THEOREM UpdatesKeepTheirOrder == Spec => []HandledInOrder
<1>1. BotInv => HandledInOrder
  BY DEF BotInv, Place
<1>2. QED
  BY <1>1, BotInvHolds, PTL

-----------------------------------------------------------------------------
(* The table of codes as an Approval *)

(* What is on offer: the codes cleanupPendingLocked would keep. *)
LEMMA OfferedShape ==
  /\ DOMAIN Offered = DOMAIN Unexpired
  /\ \A c \in DOMAIN Offered :
       Offered[c] = [owner |-> pending[c].chat, until |-> pending[c].until]
BY DEF Offered, Unexpired

LEMMA OfferedNext ==
  /\ DOMAIN Offered' = {d \in DOMAIN pending' : pending'[d].until > clock'}
  /\ \A c \in DOMAIN Offered' :
       Offered'[c] = [owner |-> pending'[c].chat, until |-> pending'[c].until]
  /\ Offered' = [c \in DOMAIN Offered' |-> Offered'[c]]
BY DEF Offered

(* Offers that stay as they were are those that Approval keeps. *)
LEMMA OffersKept ==
  ASSUME NEW S, S \subseteq DOMAIN Offered, DOMAIN Offered' = S,
         \A c \in S : c \in DOMAIN pending /\ pending'[c] = pending[c]
  PROVE  Offered' = A!Keep(S)
<1>1. \A c \in S : Offered'[c] = Offered[c]
  BY OfferedShape, OfferedNext
<1>2. QED
  BY <1>1, OfferedNext DEF A!Keep

(* An action that is stored is an offer to the chat that asked for it. *)
LEMMA StoringMakes ==
  ASSUME BotInv, [Next]_vars, codes' # codes
  PROVE  A!Make(codes')
<1>0. TableType /\ TableType' /\ clock \in Nat
  BY TableTyped DEF BotInv, TypeOK, WorldType
<1>1. /\ codes' = codes + 1 /\ codes' \in Codes /\ UNCHANGED <<usedBy, clock>>
      /\ DOMAIN pending' = DOMAIN Unexpired \cup {codes'}
      /\ \A c \in DOMAIN Unexpired : pending'[c] = pending[c]
      /\ pending'[codes'] \in Entry
      /\ pending'[codes'].until > clock
  BY StoreSteps, StoreShape
<1>2. codes' \notin 1..codes /\ 1..codes' = 1..codes \cup {codes'}
  BY <1>0, <1>1 DEF TableType
<1>3. DOMAIN Offered' = DOMAIN Offered \cup {codes'}
  BY <1>1, OfferedShape, OfferedNext, CleanUp
<1>4. \A j \in DOMAIN Offered : Offered'[j] = Offered[j]
  BY <1>1, <1>3, OfferedShape, OfferedNext
<1>5. Offered'[codes'] \in A!Terms /\ Offered'[codes'].until > clock
  <2> DEFINE e == pending'[codes']
  <2>1. e.chat \in Chats /\ e.until \in Nat /\ e.until > clock
    BY <1>1 DEF Entry
  <2>2. Offered'[codes'] = [owner |-> e.chat, until |-> e.until]
    BY <1>3, OfferedNext
  <2> HIDE DEF e
  <2>3. QED
    BY <2>1, <2>2 DEF A!Terms
<1>6. QED
  BY <1>1, <1>2, <1>3, <1>4, <1>5 DEF A!Make

(* A tick ends the offers whose time is up. *)
LEMMA TickingEnds ==
  ASSUME BotInv, Tick
  PROVE  A!Tick
<1>0. TableType /\ clock \in Nat
  BY DEF BotInv, TypeOK, WorldType
<1>1. clock' = clock + 1 /\ UNCHANGED table
  BY DEF Tick
<1>2. \A c \in DOMAIN pending : pending[c].until \in Nat
  BY <1>0 DEF TableType
<1>3. DOMAIN Offered' = {c \in DOMAIN Offered : Offered[c].until > clock'}
  <2>1. /\ DOMAIN Offered' = {c \in DOMAIN pending : pending[c].until > clock'}
        /\ DOMAIN Offered = {c \in DOMAIN pending : pending[c].until > clock}
    BY <1>1, OfferedShape, OfferedNext, CleanUp DEF table
  <2>2. \A c \in DOMAIN Offered : Offered[c].until = pending[c].until
    BY OfferedShape
  <2>3. \A c \in DOMAIN pending : pending[c].until > clock' => pending[c].until > clock
    BY <1>0, <1>1, <1>2
  <2>4. QED
    BY <2>1, <2>2, <2>3
<1>4. Offered' = A!Keep(DOMAIN Offered')
  BY <1>1, <1>3, OffersKept, OfferedShape, CleanUp DEF table
<1>5. QED
  BY <1>1, <1>3, <1>4 DEF A!Tick, table

(* A /confirm or a /cancel of an action that was granted, and a restart. *)
LEMMA TableApproves ==
  ASSUME BotInv, UNCHANGED clock, TableStep
  PROVE  [A!Next]_A!vars
<1>0. TableType /\ clock \in Nat
  BY DEF BotInv, TypeOK, WorldType
<1>1. CASE UNCHANGED table
  BY <1>1 DEF A!vars, Offered, table
<1>2. CASE pending' = Unexpired /\ UNCHANGED <<codes, usedBy>>
  <2>1. DOMAIN Offered' = DOMAIN Offered
    BY <1>2, OfferedShape, OfferedNext, CleanUp
  <2>2. Offered' = A!Keep(DOMAIN Offered)
    BY <1>2, <2>1, OffersKept, OfferedShape, CleanUp
  <2>3. A!Withdraw({})
    BY <1>2, <2>2 DEF A!Withdraw
  <2>4. QED
    BY <2>3 DEF A!Next
<1>3. CASE DOMAIN pending' = {} /\ UNCHANGED <<codes, usedBy>>
  <2>1. DOMAIN Offered \subseteq Codes
    BY <1>0, OfferedShape, CleanUp DEF TableType
  <2>2. Offered' = A!Keep({})
    BY <1>3, OffersKept, OfferedNext
  <2>3. A!Withdraw(Codes)
    BY <1>3, <2>1, <2>2 DEF A!Withdraw
  <2>4. QED
    BY <2>3 DEF A!Next
<1>4. ASSUME NEW c \in DOMAIN Unexpired, pending' = Removed(c), codes' = codes,
             usedBy' \in {usedBy, [usedBy EXCEPT ![c] = Append(@, pending[c].chat)]}
      PROVE  [A!Next]_A!vars
  <2>1. /\ c \in Codes /\ c \in DOMAIN Offered
        /\ Offered[c].owner = pending[c].chat /\ clock < Offered[c].until
    <3>1. c \in DOMAIN pending /\ pending[c].until > clock /\ pending[c].until \in Nat
      BY <1>0, CleanUp DEF TableType
    <3>2. Offered[c] = [owner |-> pending[c].chat, until |-> pending[c].until]
      BY OfferedShape
    <3>3. c \in Codes /\ c \in DOMAIN Offered
      BY <1>0, <3>1, OfferedShape DEF TableType
    <3>4. QED
      BY <1>0, <3>1, <3>2, <3>3
  <2>2. DOMAIN Offered' = DOMAIN Offered \ {c}
    BY <1>4, OfferedShape, OfferedNext, CleanUp DEF Removed
  <2>3. Offered' = A!Keep(DOMAIN Offered \ {c})
    BY <1>4, <2>2, OffersKept, OfferedShape, CleanUp DEF Removed
  <2>4. CASE usedBy' = usedBy
    <3>1. A!Withdraw({c})
      BY <1>4, <2>3, <2>4 DEF A!Withdraw
    <3>2. QED
      BY <2>1, <3>1 DEF A!Next
  <2>5. CASE usedBy' = [usedBy EXCEPT ![c] = Append(@, pending[c].chat)]
    <3>1. A!Use(c)
      BY <1>4, <2>1, <2>3, <2>5 DEF A!Use
    <3>2. QED
      BY <2>1, <3>1 DEF A!Next
  <2>6. QED
    BY <1>4, <2>4, <2>5
<1>5. QED
  BY <1>1, <1>2, <1>3, <1>4 DEF TableStep

LEMMA StepApproves == BotInv /\ [Next]_vars => [A!Next]_A!vars
<1> SUFFICES ASSUME BotInv, [Next]_vars PROVE [A!Next]_A!vars
  OBVIOUS
<1>1. CASE codes' # codes
  <2>1. codes' \in Codes
    BY <1>1, StoreSteps, StoreShape
  <2>2. QED
    BY <1>1, <2>1, StoringMakes DEF A!Next
<1>2. CASE Tick
  BY <1>2, TickingEnds DEF A!Next
<1>3. CASE codes' = codes /\ ~Tick
  <2>1. UNCHANGED clock
    BY <1>3 DEF Next, Send, Restart, SetConfig, Poll, Answer, PollFails, Skip, RunNow, Ask,
       AskFails, Analyze, Queue, Advised, Confirm, Cancel, Heard, Take, vars
  <2>2. QED
    BY <1>3, <2>1, TableSteps, TableApproves
<1>4. QED
  BY <1>1, <1>2, <1>3

(* An action that a chat was asked to confirm runs at most once, for that chat and
   before its time is up, whatever updates the service delivers again. *)
THEOREM ActionsAreApproved == Spec => Approves
<1>1. Init => A!Init
  <2> SUFFICES ASSUME Init PROVE A!Init
    OBVIOUS
  <2>1. 1..codes = {} /\ DOMAIN pending = {}
    BY DEF Init
  <2>2. Offered = [i \in {} |-> 0]
    BY <2>1 DEF Offered
  <2>3. QED
    BY <2>1, <2>2 DEF Init, A!Init
<1>2. QED
  BY <1>1, StepApproves, BotInvHolds, PTL DEF Spec, Approves, A!Spec

=============================================================================
