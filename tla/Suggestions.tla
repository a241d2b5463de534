------------------------------ MODULE Suggestions ------------------------------
(***************************************************************************)
(* The AI advisor of internal/ai and the suggestions it leads to, which    *)
(* internal/server/ai_execute.go issues, takes back and executes.          *)
(*                                                                         *)
(* A request is a goroutine of net/http: it asks the advisor and waits for *)
(* the provider, or it posts a suggestion and, if that changes the config, *)
(* works on a clone of it.  Requests meet in the cache of answers, the     *)
(* token bucket, the chat history, the table of issued suggestions and the *)
(* server's config, each under a lock of its own.                          *)
(*                                                                         *)
(* A prompt stands for its text, so also for the snapshot in it; a         *)
(* suggestion has the id that hashSuggestion makes of part of its content. *)
(* Upper and lower case, spaces and the reason of a suggestion are left    *)
(* out.  External: the provider and the clients.                           *)
(***************************************************************************)
EXTENDS Integers, FiniteSets, Sequences

CONSTANTS
  Requests,      \* goroutines that may be at work at the same time
  Prompts,
  Suggestions,   \* [id, type, arg]: what the provider may suggest
  Answers,       \* the suggestions an answer may carry, as it lists them
  RuleName,      \* the name of the rule that is the argument of an add_rule
  Limits,        \* values of max_requests_per_minute
  Scenes,        \* bound: what the clients do in a run of the program
  Minute, AnswerTtl, OfferTtl,  \* a minute, 60 seconds, 15 minutes
  CacheSize,
  MaxTurns,      \* messages of the chat history
  MaxIssues,     \* bound: answers with suggestions
  MaxChats,      \* bound: exchanges of the chat
  MaxEdits       \* bound: changes of the limit, switches of the user

Lists == {"protect", "ignore"}
Ids == {s.id : s \in Suggestions}
Args == {s.arg : s \in Suggestions}

ASSUME SuggestionsAssumption ==
  /\ \A s \in Suggestions : s.type \in {"kill", "suspend", "add_rule"} \cup Lists
  /\ \A s \in Suggestions : s = [id |-> s.id, type |-> s.type, arg |-> s.arg]
  /\ Answers \subseteq Seq(Suggestions)
  /\ Args \subseteq DOMAIN RuleName
  /\ Limits \subseteq Nat \ {0} /\ Limits # {}
  /\ {Minute, AnswerTtl, OfferTtl, CacheSize, MaxTurns} \subseteq Nat \ {0}
  /\ MaxTurns % 2 = 0
  /\ {MaxIssues, MaxChats, MaxEdits} \subseteq Nat
  /\ \A s \in Scenes :
       /\ s.limits \subseteq Limits /\ s.answers \subseteq Answers
       /\ s.chats \subseteq BOOLEAN /\ s.switched \subseteq Args
       /\ s.time \in Nat

VARIABLES
  scene,    \* the limits, answers, kinds of request, switches and time it has
  now, edits,
  cache,    \* Advisor.cache: answers by prompt
  bucket,   \* Advisor.rl
  turns,    \* Advisor.chatHistory
  items,    \* aiSuggestionStore.items, by id
  cfg,      \* Server.cfg: protected and ignored names, and rules
  reqs,     \* what each request is at
  calls,    \* ghost: times of the provider calls since the bucket was made
  issues,   \* ghost: answers that were remembered
  exchanges,\* ghost: chats that were answered
  made,     \* ghost: suggestions issued, an id and the number of the answer
  ran       \* ghost: for each of these, the suggestions executed for it

advisor == <<cache, bucket, turns, calls, exchanges>>
table == <<items, issues, made, ran>>
suggestionsVars == <<scene, now, edits, advisor, table, cfg, reqs>>

None == [until |-> 0]
AtRest == [at |-> "idle"]
Offers == Ids \X (1..MaxIssues)
Min2(a, b) == IF a < b THEN a ELSE b

-----------------------------------------------------------------------------
(* Mutants of the operations below, used by the sensitivity checks only.   *)

\* A bucket that adds tokens and leaves its time where it was.
FilledTwice(b, add) == [b EXCEPT !.tokens = Min2(b.max, b.tokens + add)]
\* A consumed suggestion that stays in the table.
KeptAfterUse(id) == items
\* A history trimmed one message short.
TrimmedOdd(h) ==
  IF Len(h) > MaxTurns THEN SubSeq(h, Len(h) - MaxTurns + 2, Len(h)) ELSE h

-----------------------------------------------------------------------------
(* TokenBucket, Cache                                                      *)

NewBucket(limit) == [max |-> limit, tokens |-> limit, filled |-> now]

Filled(b, add) ==
  [b EXCEPT !.tokens = Min2(b.max, b.tokens + add), !.filled = now]

\* refill adds whole tokens and drops the rest of the time with them.
Refilled(b) ==
  LET add == (b.max * (now - b.filled)) \div Minute
  IN  IF add > 0 THEN Filled(b, add) ELSE b

Take ==
  /\ Refilled(bucket).tokens > 0
  /\ bucket' = [Refilled(bucket) EXCEPT !.tokens = @ - 1]
  /\ calls' = Append(calls, now)

TakeFails ==
  /\ Refilled(bucket).tokens = 0
  /\ bucket' = Refilled(bucket)
  /\ UNCHANGED calls

Hit(p) == p \in DOMAIN cache /\ now - cache[p].at <= AnswerTtl

\* Set: a full cache drops an oldest entry, even for a prompt it has.
Cached(p, a) ==
  \E out \in SUBSET DOMAIN cache :
    /\ IF Cardinality(DOMAIN cache) < CacheSize THEN out = {}
       ELSE \E q \in DOMAIN cache :
              out = {q} /\ \A o \in DOMAIN cache : cache[q].at <= cache[o].at
    /\ cache' = [q \in (DOMAIN cache \ out) \cup {p} |->
         IF q = p THEN [answer |-> a, at |-> now] ELSE cache[q]]

-----------------------------------------------------------------------------
(* The chat history and the table of suggestions                           *)

Trimmed(h) ==
  IF Len(h) > MaxTurns THEN SubSeq(h, Len(h) - MaxTurns + 1, Len(h)) ELSE h

\* A chat appends what was said when the answer is there, in one step.
Said(chat) ==
  IF ~chat THEN UNCHANGED <<turns, exchanges>>
  ELSE /\ exchanges < MaxChats
       /\ exchanges' = exchanges + 1
       /\ turns' = Trimmed(turns \o <<[who |-> "user", n |-> exchanges + 1],
                                      [who |-> "assistant", n |-> exchanges + 1]>>)

Unexpired(id) == IF items[id].until > now THEN items[id] ELSE None

\* Of suggestions of one id the last is the one that stays: the id leaves out
\* part of a rule, so an answer may have several.
Lasting(answer) ==
  {answer[i] : i \in {i \in DOMAIN answer :
     \A j \in DOMAIN answer : answer[j].id = answer[i].id => j <= i}}

\* remember: a suggestion takes the place of an earlier one of the same id.
Issue(S) ==
  IF S = {} THEN UNCHANGED table
  ELSE
    /\ issues < MaxIssues
    /\ issues' = issues + 1
    /\ items' = [id \in Ids |->
         IF \E s \in S : s.id = id
         THEN [s |-> CHOOSE s \in S : s.id = id,
               until |-> now + OfferTtl, n |-> issues + 1]
         ELSE Unexpired(id)]
    /\ made' = made \cup {<<s.id, issues + 1>> : s \in S}
    /\ UNCHANGED ran

Remember(answer) == Issue(Lasting(answer))

\* handleAIAnalyze and handleAIChat when they have an answer.
Reply(r, chat, answer) ==
  /\ Said(chat)
  /\ Remember(answer)
  /\ reqs' = [reqs EXCEPT ![r] = AtRest]

-----------------------------------------------------------------------------
(* Asking                                                                  *)

Ask(r, p, chat) ==
  /\ reqs[r] = AtRest
  /\ UNCHANGED <<scene, now, edits, cfg>>

\* runPrompt: an answer from the cache costs nothing.
AskCache(r, p, chat) ==
  /\ Ask(r, p, chat)
  /\ Hit(p)
  /\ Reply(r, chat, cache[p].answer)
  /\ UNCHANGED <<cache, bucket, calls>>

AskProvider(r, p, chat) ==
  /\ Ask(r, p, chat)
  /\ ~Hit(p)
  /\ Take
  /\ reqs' = [reqs EXCEPT ![r] = [at |-> "asking", prompt |-> p, chat |-> chat]]
  /\ UNCHANGED <<cache, turns, exchanges, table>>

AskTooOften(r, p, chat) ==
  /\ Ask(r, p, chat)
  /\ ~Hit(p)
  /\ TakeFails
  /\ UNCHANGED <<cache, turns, exchanges, table, reqs>>

Answered(r) ==
  /\ reqs[r].at = "asking"
  /\ \E a \in scene.answers : Cached(reqs[r].prompt, a) /\ Reply(r, reqs[r].chat, a)
  /\ UNCHANGED <<scene, now, edits, bucket, calls, cfg>>

\* The provider fails, or the client goes away.
AskFails(r) ==
  /\ reqs[r].at = "asking"
  /\ reqs' = [reqs EXCEPT ![r] = AtRest]
  /\ UNCHANGED <<scene, now, edits, advisor, table, cfg>>

\* Advisor.SetConfig: a new bucket only for a new limit.
SetAdvisorConfig(limit) ==
  /\ edits < MaxEdits
  /\ edits' = edits + 1
  /\ IF limit = bucket.max THEN UNCHANGED <<bucket, calls>>
     ELSE bucket' = NewBucket(limit) /\ calls' = <<>>
  /\ UNCHANGED <<scene, now, cache, turns, exchanges, table, cfg, reqs>>

-----------------------------------------------------------------------------
(* Executing                                                               *)

Taken(id) == [items EXCEPT ![id] = None]

\* consume: the suggestion goes before it is executed, whatever comes of it.
Granted(s) == Unexpired(s.id) # None /\ items[s.id].s = s

Consume(s) ==
  /\ Granted(s)
  /\ items' = Taken(s.id)
  /\ ran' = [ran EXCEPT ![<<s.id, items[s.id].n>>] = Append(@, s)]
  /\ UNCHANGED <<issues, made>>

\* Not found, expired or not what was issued: nothing runs.
Refuse(r, s) ==
  /\ reqs[r] = AtRest
  /\ ~Granted(s)
  /\ items' = [id \in Ids |-> Unexpired(id)]
  /\ UNCHANGED <<scene, now, edits, advisor, issues, made, ran, cfg, reqs>>

\* Kill and suspend go to the controller.
Act(r, s) ==
  /\ reqs[r] = AtRest
  /\ s.type \in {"kill", "suspend"}
  /\ Consume(s)
  /\ UNCHANGED <<scene, now, edits, advisor, cfg, reqs>>

\* mutateConfig clones the server's config under its lock ...
Clone(r, op) == reqs' = [reqs EXCEPT ![r] = [at |-> "mutating", op |-> op, base |-> cfg]]

Change(r, s) ==
  /\ reqs[r] = AtRest
  /\ s.type \in Lists \cup {"add_rule"}
  /\ Consume(s)
  /\ Clone(r, [type |-> s.type, arg |-> s.arg, on |-> TRUE])
  /\ UNCHANGED <<scene, now, edits, advisor, cfg>>

\* The switches of the process list do the same without a suggestion.
Toggle(r, list, name, on) ==
  /\ reqs[r] = AtRest
  /\ edits < MaxEdits
  /\ edits' = edits + 1
  /\ Clone(r, [type |-> list, arg |-> name, on |-> on])
  /\ UNCHANGED <<scene, now, advisor, table, cfg>>

\* A rule of that name is in the list.
RuleThere(c, arg) ==
  \E i \in DOMAIN c["add_rule"] : RuleName[c["add_rule"][i]] = RuleName[arg]

AppendUnique(list, x) ==
  IF \E i \in DOMAIN list : list[i] = x THEN list ELSE Append(list, x)

Without(list, x) == SelectSeq(list, LAMBDA y : y # x)

\* What the caller's function does to the clone.
Mutated(c, op) ==
  [c EXCEPT ![op.type] =
    IF op.type = "add_rule" THEN Append(@, op.arg)
    ELSE IF op.on THEN AppendUnique(@, op.arg) ELSE Without(@, op.arg)]

\* ... and puts it in place when it has been saved: what others have put there
\* in between is lost.
Commit(r) ==
  /\ reqs[r].at = "mutating"
  /\ reqs[r].op.type = "add_rule" => ~RuleThere(reqs[r].base, reqs[r].op.arg)
  /\ cfg' = Mutated(reqs[r].base, reqs[r].op)
  /\ reqs' = [reqs EXCEPT ![r] = AtRest]
  /\ UNCHANGED <<scene, now, edits, advisor, table>>

\* The rule is there already, the result does not validate, or saving fails.
ChangeFails(r) ==
  /\ reqs[r].at = "mutating"
  /\ reqs' = [reqs EXCEPT ![r] = AtRest]
  /\ UNCHANGED <<scene, now, edits, advisor, table, cfg>>

-----------------------------------------------------------------------------

SuggestionsInit ==
  /\ scene \in Scenes
  /\ now = 0
  /\ edits = 0
  /\ cache = [p \in {} |-> 0]
  /\ \E limit \in scene.limits : bucket = NewBucket(limit)
  /\ turns = <<>>
  /\ items = [id \in Ids |-> None]
  /\ cfg = [l \in Lists \cup {"add_rule"} |-> <<>>]
  /\ reqs = [r \in Requests |-> AtRest]
  /\ calls = <<>>
  /\ issues = 0
  /\ exchanges = 0
  /\ made = {}
  /\ ran = [o \in Offers |-> <<>>]

TimePasses ==
  /\ now < scene.time
  /\ now' = now + 1
  /\ UNCHANGED <<scene, edits, advisor, table, cfg, reqs>>

SuggestionsNext ==
  \/ \E r \in Requests, p \in Prompts, chat \in scene.chats :
       AskCache(r, p, chat) \/ AskProvider(r, p, chat) \/ AskTooOften(r, p, chat)
  \/ \E r \in Requests : Answered(r) \/ AskFails(r)
  \/ \E limit \in scene.limits : SetAdvisorConfig(limit)
  \/ \E r \in Requests, s \in Suggestions : Refuse(r, s) \/ Act(r, s) \/ Change(r, s)
  \/ \E r \in Requests, list \in Lists, name \in scene.switched, on \in BOOLEAN :
       Toggle(r, list, name, on)
  \/ \E r \in Requests : Commit(r) \/ ChangeFails(r)
  \/ TimePasses

SuggestionsSpec == SuggestionsInit /\ [][SuggestionsNext]_suggestionsVars

-----------------------------------------------------------------------------
(* Properties                                                              *)

SuggestionsTypeOK ==
  /\ scene \in Scenes
  /\ now \in 0..scene.time /\ edits \in 0..MaxEdits
  /\ DOMAIN cache \subseteq Prompts
  /\ \A p \in DOMAIN cache : cache[p] \in [answer : Answers, at : 0..scene.time]
  /\ bucket \in [max : Limits, tokens : Nat, filled : 0..scene.time]
  /\ bucket.tokens <= bucket.max
  /\ turns \in Seq([who : {"user", "assistant"}, n : 1..MaxChats])
  /\ items \in [Ids -> [s : Suggestions, until : Nat, n : 1..MaxIssues] \cup {None}]
  /\ cfg \in [Lists \cup {"add_rule"} -> Seq(Args)]
  /\ reqs \in [Requests ->
       {AtRest} \cup [at : {"asking"}, prompt : Prompts, chat : BOOLEAN]
       \cup [at : {"mutating"}, base : [Lists \cup {"add_rule"} -> Seq(Args)],
             op : [type : Lists \cup {"add_rule"}, arg : Args, on : BOOLEAN]]]
  /\ calls \in Seq(0..scene.time)
  /\ issues \in 0..MaxIssues /\ exchanges \in 0..MaxChats
  /\ made \subseteq Offers
  /\ ran \in [Offers -> Seq(Suggestions)]

\* However asks, answers and quiet times fall, the bucket lets no more than
\* twice the limit through in any minute: a full bucket and what it gains.
RateKept ==
  \A i, j \in DOMAIN calls :
    i <= j /\ calls[j] - calls[i] < Minute => j - i + 1 <= 2 * bucket.max

\* Chats that overlap leave the history as the latest exchanges, as many as fit:
\* each question with its answer, in order, none lost and the newest last.
TurnsArePaired ==
  /\ Len(turns) = Min2(2 * exchanges, MaxTurns)
  /\ turns # <<>> => turns[Len(turns)].n = exchanges
  /\ \A i \in DOMAIN turns :
       IF i % 2 = 1
       THEN turns[i].who = "user" /\ i + 1 \in DOMAIN turns
            /\ turns[i + 1] = [turns[i] EXCEPT !.who = "assistant"]
       ELSE i + 1 \in DOMAIN turns => turns[i + 1].n = turns[i].n + 1

\* A rule suggested again, out of the cache or while another request adds it,
\* never puts a second rule of its name into the list.
RuleNamesDiffer ==
  \A i, j \in DOMAIN cfg["add_rule"] :
    RuleName[cfg["add_rule"][i]] = RuleName[cfg["add_rule"][j]] => i = j

\* A suggestion is an offer: what runs is what was issued, at most once for
\* each time it was issued, and before it expires.
OpenOffers ==
  {<<id, items[id].n>> : id \in {id \in Ids : Unexpired(id) # None}}

A == INSTANCE Approval WITH
  clock <- now,
  Owners <- Suggestions,
  open <- [o \in OpenOffers |-> [owner |-> items[o[1]].s, until |-> items[o[1]].until]],
  usedBy <- ran

Approves == A!Spec

=============================================================================
