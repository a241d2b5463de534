-------------------------------- MODULE Approval --------------------------------
(***************************************************************************)
(* What it means to ask for approval of an action: an offer is made once,  *)
(* to one owner and for a limited time, and it is used at most once, in    *)
(* that time and by nobody else.  TelegramBot implements this with its     *)
(* table of confirmation codes, owned by chats; Suggestions with its table *)
(* of suggestions, where the owner is the action the offer is for.         *)
(***************************************************************************)
EXTENDS Naturals, Sequences

CONSTANTS Offers, Owners

VARIABLES
  clock,  \* the time
  made,   \* offers made so far
  open,   \* those that may still be used, with their owner and the time they end
  usedBy  \* for each offer, who used it, in order

vars == <<clock, made, open, usedBy>>

Terms == [owner : Owners, until : Nat]

Init ==
  /\ clock = 0
  /\ made = {}
  /\ open = [i \in {} |-> 0]
  /\ usedBy = [i \in Offers |-> <<>>]

Keep(S) == [i \in S |-> open[i]]

Make(i) ==
  /\ i \in Offers \ made
  /\ made' = made \cup {i}
  /\ DOMAIN open' = DOMAIN open \cup {i}
  /\ \A j \in DOMAIN open : open'[j] = open[j]
  /\ open'[i] \in Terms /\ open'[i].until > clock
  /\ UNCHANGED <<clock, usedBy>>

\* Several offers at once, which may take the place of earlier ones.
Renew ==
  /\ made \subseteq made' /\ made' # made /\ made' \subseteq Offers
  /\ made' \ made \subseteq DOMAIN open'
  /\ DOMAIN open' \subseteq DOMAIN open \cup (made' \ made)
  /\ \A j \in DOMAIN open' \ (made' \ made) : open'[j] = open[j]
  /\ \A i \in made' \ made : open'[i] \in Terms /\ open'[i].until > clock
  /\ UNCHANGED <<clock, usedBy>>

Use(i) ==
  /\ i \in DOMAIN open
  /\ clock < open[i].until
  /\ usedBy' = [usedBy EXCEPT ![i] = Append(@, open[i].owner)]
  /\ open' = Keep(DOMAIN open \ {i})
  /\ UNCHANGED <<clock, made>>

Withdraw(S) ==
  /\ open' = Keep(DOMAIN open \ S)
  /\ UNCHANGED <<clock, made, usedBy>>

Tick ==
  /\ clock' = clock + 1
  /\ open' = Keep({i \in DOMAIN open : open[i].until > clock'})
  /\ UNCHANGED <<made, usedBy>>

Next ==
  \/ \E i \in Offers : Make(i) \/ Use(i)
  \/ Renew
  \/ \E S \in SUBSET Offers : Withdraw(S)
  \/ Tick

Spec == Init /\ [][Next]_vars

=============================================================================
