-------------------------------- MODULE Settings --------------------------------
(***************************************************************************)
(* What happens to the values of a config on their way between the file,   *)
(* the server and the settings page: defaults under the file, migration,   *)
(* validation, masking of secrets, and the update endpoints.               *)
(*                                                                         *)
(* Requests and reloads are single steps here; ConfigReload has their      *)
(* interleavings.  Of the fields there is one for each treatment: `tuning' *)
(* is the anomaly block without its ignore list, `interval' a value        *)
(* Validate refuses, `ttl' one it raises to a least value.                 *)
(***************************************************************************)
EXTENDS Integers, Sequences, FiniteSets

CONSTANTS
  Names, Lower,      \* names of processes, and their lower case
  RuleNames, Trim,   \* names of rules as typed, and without spaces
  NoName, Blank,     \* the empty name, an empty field
  Broken, Missing,   \* a file that does not parse, and none: no fields of a config
  Secrets,           \* API keys, bot tokens, values of headers
  Headers,           \* keys of headers that are sensitive
  MaxDuration,       \* the longest a Duration holds, in ms
  Documents,         \* files a user writes: functions of some of the fields
  RuleLists,         \* lists of rules a client posts
  Default,           \* DefaultConfig
  Current,           \* CurrentSchemaVersion
  MinInterval, MinTtl, MinTokens, MaxFor,
  Numbers,           \* numbers a user enters
  MaxChanges           \* bound: what users enter

Masks == {[last4 |-> s] : s \in Secrets}
Values == Secrets \cup Masks \cup {Blank}
Tunings == {"default", "own"}
Rules == [name : RuleNames, ms : Int, coolMs : Int]
RuleDTOs == [name : RuleNames, for : Int, cool : Int]
Fields == {"schema", "tuning", "ignore", "ports", "interval", "ttl", "maxTokens",
           "reserved", "types", "key", "headers", "token", "rules"}

\* A document has some of the fields of a config; those have their types.
WellTyped(doc) ==
  LET typed == [schema |-> Nat, tuning |-> Tunings, ignore |-> Seq(Names),
                interval |-> Int, ttl |-> Int, maxTokens |-> Int, reserved |-> Int,
                key |-> Values, token |-> Values, rules |-> Seq(Rules)]
  IN /\ DOMAIN doc \subseteq Fields
     /\ \A f \in DOMAIN doc \cap DOMAIN typed : doc[f] \in typed[f]

\* Documents and posted lists are typed, since anything else does not parse; what
\* is trimmed stays as it is; a `for' of a rule is short enough for a Duration;
\* the defaults are within the limits of Validate.
ASSUME SettingsAssumption ==
  /\ DOMAIN Lower = Names /\ DOMAIN Trim = RuleNames
  /\ \A n \in RuleNames : Trim[n] # NoName => Trim[n] \in RuleNames /\ Trim[Trim[n]] = Trim[n]
  /\ \A d \in {Broken, Missing} : ~(DOMAIN d \subseteq Fields)
  /\ \A d \in Documents \ {Broken, Missing} : WellTyped(d)
  /\ RuleLists \subseteq Seq(RuleDTOs) /\ Numbers \subseteq Int
  /\ {Current, MinInterval, MinTtl, MinTokens, MaxFor, MaxDuration, MaxChanges} \subseteq Nat
  /\ 1000 * MaxFor <= MaxDuration
  /\ WellTyped(Default) /\ Default = [f \in Fields |-> Default[f]]
  /\ Default.schema = Current /\ Default.tuning = "default"
  /\ Default.interval >= MinInterval /\ Default.ttl >= MinTtl
  /\ Default.maxTokens >= MinTokens /\ Default.reserved >= Default.maxTokens
  /\ Default.types # {}

VARIABLES
  document, \* the file at the path of the config
  unseen,   \* the file has changed since the watcher looked
  mem,      \* Server.cfg, which every component follows
  page,     \* what the settings page was given
  changes,
  saved,    \* ghost: the file is one that Save wrote, perhaps tuned by hand since
  tuned,    \* ghost: the tuning in force, as the user left it
  wanted,   \* ghost: lower-case names whose alerts the user ignores
  posted    \* ghost: the rules came through the endpoint for rules, their
            \* cooldowns short enough for a Duration

settingsVars == <<document, unseen, mem, page, changes, saved, tuned, wanted, posted>>

Max2(a, b) == IF a < b THEN b ELSE a
Folded(names) == {Lower[names[i]] : i \in DOMAIN names}
Used == changes < MaxChanges /\ changes' = changes + 1

-----------------------------------------------------------------------------
(* Mutants, used by the sensitivity checks only.                           *)

\* A budget raised to the tokens of before they are raised themselves.
RaisedInOrder(c) == Max2(c.reserved, c.maxTokens)
\* A migration that does not note the version it migrated to.
NotStamped(c) == c.schema
\* A migration that takes the new list for the user's.
DefaultsOnly(names) == Default.ignore
\* Two names are compared as they were typed.
SameTyped(r, s) == r.name = s.name

-----------------------------------------------------------------------------
(* Load, Save, Validate                                                    *)

\* What stands at the given places, in its order.
Picked(seq, places) ==
  LET Nth(k) == CHOOSE i \in places : Cardinality({j \in places : j <= i}) = k
  IN [k \in 1..Cardinality(places) |-> seq[Nth(k)]]

AppendUniqueFold(names, n) ==
  IF Lower[n] \in Folded(names) THEN names ELSE Append(names, n)

RemoveFold(names, n) == Picked(names, {i \in DOMAIN names : Lower[names[i]] # Lower[n]})

\* mergeUniqueFold: the first of several spellings stays.
UniqueFold(names) ==
  Picked(names, {i \in DOMAIN names : \A j \in 1..(i - 1) : Lower[names[j]] # Lower[names[i]]})

Kept(names) == IF names = <<>> THEN Default.ignore ELSE UniqueFold(Default.ignore \o names)

\* Unmarshalling over the defaults: a map gains entries, all else is replaced.
Read(doc) ==
  [f \in Fields |->
     IF f \notin DOMAIN doc THEN Default[f]
     ELSE IF f = "ports" THEN Default[f] \cup doc[f]
     ELSE doc[f]]

Stamp(c) == Current

Migrated(c) ==
  IF c.schema >= Current THEN c
  ELSE [c EXCEPT !.schema = Stamp(c), !.tuning = Default.tuning, !.ignore = Kept(@)]

Refused(c) == c.interval < MinInterval

Raised(c) == Max2(c.reserved, Max2(c.maxTokens, MinTokens))

Validated(c) ==
  [c EXCEPT !.ttl = Max2(@, MinTtl), !.maxTokens = Max2(@, MinTokens),
            !.reserved = Raised(c), !.types = IF @ = {} THEN Default.types ELSE @]

Readable == document \notin {Broken, Missing}
Migrates == Readable /\ Read(document).schema < Current
Loads == document = Missing \/ (Readable /\ ~Refused(Read(document)))

\* What Load leaves in the file, and what it returns.
Stored ==
  IF document = Missing THEN Default
  ELSE IF Migrates THEN Migrated(Read(document)) ELSE document

Loaded == IF document = Missing THEN Default ELSE Validated(Migrated(Read(document)))

\* The ghosts note what the user wrote before anything is made of it.
NoteLoaded ==
  /\ posted' = (posted /\ saved)
  /\ IF saved
     THEN tuned' = Read(document).tuning /\ UNCHANGED wanted
     ELSE /\ tuned' = IF Readable /\ ~Migrates THEN Read(document).tuning ELSE Default.tuning
          /\ wanted' = IF Readable THEN Folded(Read(document).ignore) ELSE Folded(Default.ignore)

TakeLoaded ==
  /\ document' = Stored
  /\ saved' = (saved \/ document' # document)
  /\ mem' = Loaded
  /\ NoteLoaded

\* The watcher leaves a missing file alone; one that Load migrates is new again.
Reload ==
  /\ unseen /\ Readable /\ Loads
  /\ TakeLoaded
  /\ unseen' = Migrates
  /\ UNCHANGED <<page, changes>>

\* The file does not load: Validate refuses after a migration has been saved.
ReloadFails ==
  /\ unseen /\ document # Missing
  /\ \/ /\ Readable /\ ~Loads
        /\ document' = Stored /\ saved' = (saved \/ Migrates)
        /\ unseen' = Migrates
     \/ /\ document = Broken \/ Migrates
        /\ unseen' = FALSE
        /\ UNCHANGED <<document, saved>>
  /\ UNCHANGED <<mem, page, changes, tuned, wanted, posted>>

\* WTM starts again, unless the file stops it; the page stays open.
Restart ==
  /\ Loads
  /\ TakeLoaded
  /\ unseen' = FALSE
  /\ UNCHANGED <<page, changes>>

-----------------------------------------------------------------------------
(* The settings page and the update endpoints                              *)

Mask(value) == IF value \in Secrets THEN [last4 |-> value] ELSE value

\* Durations in seconds, rounded towards zero.
Seconds(ms) == IF ms < 0 THEN -((-ms) \div 1000) ELSE ms \div 1000

RulesToDTO(rules) ==
  [i \in DOMAIN rules |-> [name |-> rules[i].name, for |-> Seconds(rules[i].ms),
                          cool |-> Seconds(rules[i].coolMs)]]

\* dtoFromConfig, telegramDTOFromConfig and rulesToDTO
Given(c) ==
  [key |-> Mask(c.key), token |-> Mask(c.token),
   headers |-> [h \in DOMAIN c.headers |-> Mask(c.headers[h])],
   maxTokens |-> c.maxTokens, ttl |-> c.ttl, types |-> c.types,
   rules |-> RulesToDTO(c.rules)]

OpenPage == page' = Given(mem) /\ UNCHANGED <<document, unseen, mem, changes, saved, tuned, wanted, posted>>

\* Validate, Save, SetConfig and onCfgApply, and the page is filled again.
Commit(next) ==
  /\ ~Refused(next)
  /\ mem' = Validated(next)
  /\ document' = mem'
  /\ saved' = TRUE /\ unseen' = TRUE
  /\ page' = Given(mem')
  /\ UNCHANGED tuned

Entered(field, old) == IF field = Blank THEN old ELSE field

UpdateAI(key, headers, tokens) ==
  /\ Commit([mem EXCEPT !.key = Entered(key, @), !.headers = headers,
                        !.maxTokens = IF tokens > 0 THEN tokens ELSE @])
  /\ UNCHANGED <<wanted, posted>>

UpdateTelegram(token, ttl, types) ==
  /\ Commit([mem EXCEPT !.token = Entered(token, @), !.ttl = ttl, !.types = types])
  /\ UNCHANGED <<wanted, posted>>

\* The user enters one value, or saves the form as the page shows it, which
\* clears the fields for the key and the token when it is filled.  A client of
\* its own may post back all it was given.
SaveAI ==
  /\ Used
  /\ \E field \in {Blank, page.key} \cup Secrets,
        headers \in {page.headers} \cup [Headers -> Secrets],
        tokens \in {page.maxTokens} \cup Numbers : UpdateAI(field, headers, tokens)

SaveTelegram ==
  /\ Used
  /\ \E field \in {Blank, page.token} \cup Secrets, ttl \in {page.ttl} \cup Numbers,
        types \in {page.types, {}} : UpdateTelegram(field, ttl, types)

SaveRuntime ==
  /\ Used
  /\ \E n \in Numbers : Commit([mem EXCEPT !.interval = n])
  /\ UNCHANGED <<wanted, posted>>

SameName(r, s) == Trim[r.name] = Trim[s.name]

\* rulesFromDTO
Accepted(list) ==
  \A i \in DOMAIN list :
    /\ Trim[list[i].name] # NoName
    /\ list[i].for \in 0..MaxFor
    /\ \A j \in 1..(i - 1) : ~SameName(list[i], list[j])

\* time.Duration(seconds) * time.Second, which wraps around.
Duration(seconds) ==
  LET ms == 1000 * seconds
      Span == MaxDuration + 1
  IN IF ms <= MaxDuration THEN ms ELSE ((ms + Span) % (2 * Span)) - Span

Cooldown(cool) == Duration(Max2(cool, 0))

FromDTO(list) ==
  [i \in DOMAIN list |-> [name |-> Trim[list[i].name], ms |-> Duration(list[i].for),
                         coolMs |-> Cooldown(list[i].cool)]]

Fits(list) == \A i \in DOMAIN list : 1000 * list[i].cool <= MaxDuration

SaveRules ==
  /\ Used
  /\ \E list \in {page.rules} \cup RuleLists :
       /\ Accepted(list)
       /\ Commit([mem EXCEPT !.rules = FromDTO(list)])
       /\ posted' = Fits(list)
  /\ UNCHANGED wanted

\* An "ignore" suggestion: mutateConfig with appendUniqueFold.
Ignore ==
  /\ Used
  /\ \E n \in Names :
       /\ Commit([mem EXCEPT !.ignore = AppendUniqueFold(@, n)])
       /\ wanted' = wanted \cup {Lower[n]}
  /\ UNCHANGED posted

\* The toggle for an ignored process: removeFold.
Unignore ==
  /\ Used
  /\ \E n \in Names :
       /\ Commit([mem EXCEPT !.ignore = RemoveFold(@, n)])
       /\ wanted' = wanted \ {Lower[n]}
  /\ UNCHANGED posted

-----------------------------------------------------------------------------
(* The user and the file                                                   *)

WriteFile ==
  /\ Used
  /\ document' \in Documents
  /\ saved' = FALSE /\ unseen' = TRUE
  /\ UNCHANGED <<mem, page, tuned, wanted, posted>>

\* The user tunes a detector in the file as it is.
TuneFile ==
  /\ Used
  /\ Readable
  /\ \E t \in Tunings : document' = [f \in DOMAIN document \cup {"tuning"} |->
                                   IF f = "tuning" THEN t ELSE document[f]]
  /\ unseen' = TRUE
  /\ UNCHANGED <<mem, page, saved, tuned, wanted, posted>>

\* The first start: Load has written the defaults.
SettingsInit ==
  /\ document = Default /\ unseen = FALSE /\ changes = 0
  /\ mem = Default /\ page = Given(mem)
  /\ saved = TRUE /\ posted = FALSE
  /\ tuned = Default.tuning /\ wanted = Folded(Default.ignore)

SettingsNext ==
  \/ Reload \/ ReloadFails \/ Restart \/ OpenPage
  \/ SaveAI \/ SaveTelegram \/ SaveRuntime \/ SaveRules \/ Ignore \/ Unignore
  \/ WriteFile \/ TuneFile

SettingsSpec == SettingsInit /\ [][SettingsNext]_settingsVars

-----------------------------------------------------------------------------
(* Properties                                                              *)

SettingsTypeOK ==
  /\ WellTyped(mem) /\ DOMAIN mem = Fields
  /\ document \in {Broken, Missing} \/ WellTyped(document)
  /\ {page.key, page.token} \subseteq Values /\ {page.maxTokens, page.ttl} \subseteq Int
  /\ page.rules \in Seq(RuleDTOs)
  /\ changes \in 0..MaxChanges
  /\ {unseen, saved, posted} \subseteq BOOLEAN
  /\ tuned \in Tunings
  /\ wanted \subseteq {Lower[n] : n \in Names}

\* The server's config keeps the limits of Validate, whatever requests, files
\* and restarts it comes from: the scheduler's day has room for one analysis.
LimitsHold ==
  /\ mem.interval >= MinInterval /\ mem.ttl >= MinTtl
  /\ mem.reserved >= mem.maxTokens /\ mem.maxTokens >= MinTokens
  /\ mem.types # {}

\* A config that the server saved is the one that Load returns for it: the
\* watcher's reload after a request, and a restart, change nothing.
LoadsAsSaved == document = mem => Loads /\ Loaded = mem

\* A name the user ignores, in the file or by a request, stays ignored over
\* migrations, saves, reloads and restarts until the user takes it back.
IgnoresAreKept == wanted \subseteq Folded(mem.ignore)

\* A migration resets the tuning of the detectors once; what the user tunes in
\* the file afterwards is in force from the next load on.
TuningIsKept == mem.tuning = tuned

\* A mask is for show, and nothing of the config has one for its value.  Nothing
\* in the repository promises it, and it does not hold: the form posts the masks
\* of headers back, and the server takes any key or token that is not empty.
SecretsAreReal ==
  {mem.key, mem.token} \cup {mem.headers[h] : h \in DOMAIN mem.headers} \subseteq Secrets \cup {Blank}

\* The page of rules can be saved as it is: rules the endpoint has taken are
\* taken again, and none of them changes, but for a cooldown that wrapped around.
RulesComeBack ==
  posted => LET list == Given(mem).rules IN Accepted(list) /\ FromDTO(list) = mem.rules

=============================================================================
