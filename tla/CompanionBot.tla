------------------------------- MODULE CompanionBot -------------------------------
(***************************************************************************)
(* The inline menus of v6 modules.  inline.form stages a menu under a      *)
(* random query, asks Telegram for the companion bot's answer to it and    *)
(* sends that answer into the chat (bot_send.rs).  Concurrently the poll   *)
(* loop takes the bot's updates, answers inline queries from the staged    *)
(* menus and hands presses of the signed-in user to the owning module      *)
(* (bot_updates.rs), which may close its menu.                             *)
(*                                                                         *)
(* Telegram is external: it numbers the bot's updates, keeps them until    *)
(* they are confirmed by a later poll, may answer a caller before or after *)
(* the bot does, and may lose a request or its reply.  The program may be  *)
(* restarted at any point; menus already shown stay.                       *)
(*                                                                         *)
(* A definition X_Y that precedes X is a faulty variant of X.              *)
(***************************************************************************)
EXTENDS Integers, Sequences, SequencesExt, FiniteSets

CONSTANTS
  Mods,          \* modules
  Forms,         \* inline.form calls, each made at most once
  Owners,        \* the assignments of forms to modules that are examined
  MenuCap,       \* INLINE_MENU_CAP
  PubCap,        \* MENU_PUBLICATIONS_CAP
  MaxPresses,    \* bound on presses
  MaxLives       \* bound on starts of the program

ASSUME BotAssumption ==
  /\ IsFiniteSet(Forms) /\ Owners \subseteq [Forms -> Mods]
  /\ MenuCap \in Nat \ {0} /\ PubCap \in Nat \ {0}
  /\ MaxPresses \in Nat /\ MaxLives \in Nat \ {0}

VARIABLES
  ownerOf,     \* [Forms -> Mods]: fixed
  form,        \* [Forms -> stage of the call and its attempt]
  staged,      \* InlineMenuRegistry: menus by their call and time of insertion
  answers,     \* answerInlineQuery requests under way
  menu,        \* [Forms -> the menu in the chat]
  pubs,        \* MenuPublications
  queue,       \* updates Telegram keeps for the bot
  sent,        \* id of the newest update
  offset, batch, handled,   \* the poll loop: handled is a history of this life
  callbacks,   \* presses handed to modules in this life
  born,        \* [life, sent]: number of this life, and sent when it began
  presses

pollVars == <<offset, batch, handled>>
lifeVars == <<born, ownerOf>>
botVars == <<ownerOf, form, staged, answers, menu, pubs, queue, sent, pollVars, callbacks, born, presses>>

Pending == {"resolving", "asking", "sending"}
FirstOffset == -1

BotInit ==
  /\ ownerOf \in Owners
  /\ form = [f \in Forms |-> [at |-> "idle", n |-> 0]]
  /\ staged = {} /\ answers = {} /\ menu = [f \in Forms |-> "none"]
  /\ pubs = [m \in Mods |-> <<>>] /\ callbacks = {}
  /\ queue = <<>> /\ sent = 0 /\ offset = FirstOffset /\ batch = <<>> /\ handled = <<>>
  /\ born = [life |-> 1, sent |-> 0] /\ presses = 0

-----------------------------------------------------------------------------
(* The staged menus.                                                         *)

\* Instant::now() in the registry: the number of calls made so far.
Instant == Cardinality({f \in Forms : form[f].at # "idle"})

Fresh == {e \in staged : e.fresh}

Oldest(menus) == CHOOSE e \in menus : \A d \in menus : e.inserted <= d.inserted

EvictOldest(menus) == IF Cardinality(menus) >= MenuCap THEN menus \ {Oldest(menus)} ELSE menus

RegistryInsert(f) == EvictOldest(Fresh) \cup {[form |-> f, fresh |-> TRUE, inserted |-> Instant]}

RegistryTake(f) == {e \in staged : e.form # f}

Answerable(f) == \E e \in staged : e.form = f /\ e.fresh

\* INLINE_MENU_TTL (120 s) passes.  The timed waits of a call (four of 10 s) are shorter
\* together, so this is the menu of a call that was dropped.
MenuExpires ==
  /\ \E e \in staged :
       /\ e.fresh /\ form[e.form].at \notin Pending
       /\ staged' = (staged \ {e}) \cup {[e EXCEPT !.fresh = FALSE]}
  /\ UNCHANGED <<form, answers, menu, pubs, queue, sent, pollVars, callbacks, lifeVars, presses>>

-----------------------------------------------------------------------------
(* inline.form.                                                              *)

Enqueue(u) == queue' = Append(queue, [u EXCEPT !.id = sent + 1]) /\ sent' = sent + 1
Query(f, n) == [id |-> 0, kind |-> "query", form |-> f, n |-> n, from |-> "self"]

Form(f) ==
  /\ form[f].at = "idle"
  /\ staged' = RegistryInsert(f)
  /\ form' = [form EXCEPT ![f] = [at |-> "resolving", n |-> 0]]
  /\ UNCHANGED <<answers, menu, pubs, queue, sent, pollVars, callbacks, lifeVars, presses>>

\* GetInlineBotResults: Telegram puts the query to the bot.
Ask(f, n) == Enqueue(Query(f, n)) /\ form' = [form EXCEPT ![f] = [at |-> "asking", n |-> n]]

ResolveBot(f) ==
  /\ form[f].at = "resolving" /\ Ask(f, 1)
  /\ UNCHANGED <<staged, answers, menu, pubs, pollVars, callbacks, lifeVars, presses>>

\* The call fails: the menu is unstaged.
FormFails(f) == staged' = RegistryTake(f) /\ form' = [form EXCEPT ![f].at = "failed"]

ResolveFails(f) ==
  /\ form[f].at = "resolving" /\ FormFails(f)
  /\ UNCHANGED <<answers, menu, pubs, queue, sent, pollVars, callbacks, lifeVars, presses>>

\* One attempt brought no result: ask once more, then give up.
AttemptFails(f) ==
  IF form[f].n = 1 THEN Ask(f, 2) /\ UNCHANGED staged
  ELSE FormFails(f) /\ UNCHANGED <<queue, sent>>

AskTimesOut_NoTimer(f) == FALSE

\* INLINE_CALL_TIMEOUT, or an error of Telegram's.
AskTimesOut(f) ==
  /\ form[f].at = "asking" /\ AttemptFails(f)
  /\ UNCHANGED <<answers, menu, pubs, pollVars, callbacks, lifeVars, presses>>

\* The bot's answer arrives; one that is not waited for any more has no effect.
AnswerArrives ==
  \E a \in answers :
    /\ answers' = answers \ {a}
    /\ IF form[a.form] # [at |-> "asking", n |-> a.n] THEN UNCHANGED <<form, staged, queue, sent>>
       ELSE IF a.full THEN form' = [form EXCEPT ![a.form].at = "sending"] /\ UNCHANGED <<staged, queue, sent>>
       ELSE AttemptFails(a.form)
    /\ UNCHANGED <<menu, pubs, pollVars, callbacks, lifeVars, presses>>

Record(f) ==
  LET m == ownerOf[f]
      ring == pubs[m] IN
  [pubs EXCEPT ![m] = Append(IF Len(ring) >= PubCap THEN Tail(ring) ELSE ring, f)]

\* SendInlineBotResult: done (extract_message_ids may find no message in the
\* reply), rejected, or timed out, in which case the menu may be shown.
SendReturns(f) ==
  /\ form[f].at = "sending"
  /\ \/ /\ menu' = [menu EXCEPT ![f] = "shown"] /\ form' = [form EXCEPT ![f].at = "ok"]
        /\ \/ pubs' = Record(f)
           \/ UNCHANGED pubs
        /\ UNCHANGED staged
     \/ /\ FormFails(f) /\ UNCHANGED pubs
        /\ \/ menu' = [menu EXCEPT ![f] = "shown"]
           \/ UNCHANGED menu
  /\ UNCHANGED <<answers, queue, sent, pollVars, callbacks, lifeVars, presses>>

\* The module's process ends and its host call is dropped.
FormDropped(f) ==
  /\ form[f].at \in Pending /\ form' = [form EXCEPT ![f].at = "dropped"]
  /\ UNCHANGED <<staged, answers, menu, pubs, queue, sent, pollVars, callbacks, lifeVars, presses>>

-----------------------------------------------------------------------------
(* The poll loop.                                                            *)

\* getUpdates: an offset confirms what is before it; -1 confirms all but the newest.
Confirmed == Cardinality({i \in DOMAIN queue : queue[i].id < offset})
Kept == IF offset = -1 THEN (IF queue = <<>> THEN <<>> ELSE <<Last(queue)>>)
        ELSE SubSeq(queue, Confirmed + 1, Len(queue))

NextOffset_Max(got) == Last(got).id

NextOffset(got) == Last(got).id + 1

\* The offset advances before the batch is handled.
Poll ==
  /\ batch = <<>> /\ queue # <<>> /\ queue' = Kept
  /\ batch' = Kept
  /\ offset' = IF Kept = <<>> THEN offset ELSE NextOffset(Kept)
  /\ UNCHANGED <<form, staged, answers, menu, pubs, sent, handled, callbacks, lifeVars, presses>>

\* Telegram took the request, but no batch came of it: no token, a transport error,
\* a bad status or a body that is too large or malformed.
PollFails ==
  /\ batch = <<>> /\ queue # Kept /\ queue' = Kept
  /\ UNCHANGED <<form, staged, answers, menu, pubs, sent, pollVars, callbacks, lifeVars, presses>>

AnswerInlineQuery(u) ==
  /\ answers' = answers \cup {[form |-> u.form, n |-> u.n, full |-> Answerable(u.form)]}
  /\ staged' = RegistryTake(u.form)
  /\ UNCHANGED callbacks

\* Only a press of the signed-in user is handed on.
HandleCallback(u) ==
  /\ callbacks' = IF u.from = "self" THEN callbacks \cup {[id |-> u.id, mod |-> ownerOf[u.form]]} ELSE callbacks
  /\ UNCHANGED <<answers, staged>>

HandleUpdate ==
  /\ batch # <<>>
  /\ LET u == Head(batch) IN
     /\ IF u.kind = "query" THEN AnswerInlineQuery(u) ELSE HandleCallback(u)
     /\ handled' = Append(handled, u.id)
  /\ batch' = Tail(batch)
  /\ UNCHANGED <<form, menu, pubs, queue, sent, offset, lifeVars, presses>>

-----------------------------------------------------------------------------
(* Presses, and message.deleteBot, which any module may call.                *)

Press(f) ==
  /\ presses < MaxPresses /\ menu[f] = "shown" /\ presses' = presses + 1
  /\ \E who \in {"self", "other"} :
       Enqueue([id |-> 0, kind |-> "press", form |-> f, n |-> 0, from |-> who])
  /\ UNCHANGED <<form, staged, answers, menu, pubs, pollVars, callbacks, lifeVars>>

\* delete_by_peer: the user's session deletes the message, or the call fails.
DeleteByPeer(f) == menu' = [menu EXCEPT ![f] = "deleted"] \/ UNCHANGED menu

\* A chat and a message name the message: no module and no publication is looked up.
DeleteAddressed ==
  /\ \E f \in Forms : menu[f] = "shown" /\ DeleteByPeer(f)
  /\ UNCHANGED <<form, staged, answers, pubs, queue, sent, pollVars, callbacks, lifeVars, presses>>

TakeLatest(m) == m

\* An inline_message_id, as a press carries it, does not: the module's latest publication is
\* taken for it, and is taken whether or not the deletion then succeeds.
DeleteCorrelated ==
  \E c \in callbacks :
    LET m == TakeLatest(c.mod) IN
    /\ pubs[m] # <<>> /\ pubs' = [pubs EXCEPT ![m] = Front(@)]
    /\ DeleteByPeer(Last(pubs[m]))
    /\ UNCHANGED <<form, staged, answers, queue, sent, pollVars, callbacks, lifeVars, presses>>

\* A restart: everything but Telegram's part begins anew.
Restart ==
  /\ born.life < MaxLives /\ born' = [life |-> born.life + 1, sent |-> sent]
  /\ form' = [f \in Forms |-> IF form[f].at \in Pending THEN [form[f] EXCEPT !.at = "dropped"] ELSE form[f]]
  /\ staged' = {} /\ answers' = {} /\ pubs' = [m \in Mods |-> <<>>] /\ callbacks' = {}
  /\ offset' = FirstOffset /\ batch' = <<>> /\ handled' = <<>>
  /\ UNCHANGED <<ownerOf, menu, queue, sent, presses>>

FormStep(f) == ResolveBot(f) \/ ResolveFails(f) \/ AskTimesOut(f) \/ SendReturns(f)

BotNext ==
  \/ \E f \in Forms : Form(f) \/ FormStep(f) \/ FormDropped(f) \/ Press(f)
  \/ MenuExpires \/ AnswerArrives \/ Poll \/ PollFails \/ HandleUpdate
  \/ DeleteAddressed \/ DeleteCorrelated \/ Restart

\* Every wait of inline.form has a timer, which runs out in the end.
BotFairness == \A f \in Forms : WF_botVars(FormStep(f))
BotSpec == BotInit /\ [][BotNext]_botVars /\ BotFairness

-----------------------------------------------------------------------------
(* Properties.                                                               *)

BotUpdates ==
  [id : Nat, kind : {"query"}, form : Forms, n : 1 .. 2, from : {"self"}]
    \cup [id : Nat, kind : {"press"}, form : Forms, n : {0}, from : {"self", "other"}]

\* Types, and the bounds of the registry and of each publication ring.
BotTypeOK ==
  /\ form \in [Forms -> [at : {"idle", "ok", "failed", "dropped"} \cup Pending, n : 0 .. 2]]
  /\ staged \subseteq [form : Forms, fresh : BOOLEAN, inserted : Nat]
  /\ IsFiniteSet(staged) /\ Cardinality(staged) <= MenuCap
  /\ answers \subseteq [form : Forms, n : 1 .. 2, full : BOOLEAN]
  /\ menu \in [Forms -> {"none", "shown", "deleted"}]
  /\ DOMAIN pubs = Mods /\ \A m \in Mods : pubs[m] \in Seq(Forms) /\ Len(pubs[m]) <= PubCap
  /\ queue \in Seq(BotUpdates) /\ batch \in Seq(BotUpdates) /\ handled \in Seq(Nat)
  /\ callbacks \subseteq [id : Nat, mod : Mods]
  /\ sent \in Nat /\ offset \in -1 .. sent + 1
  /\ ownerOf \in Owners /\ born \in [life : 1 .. MaxLives, sent : 0 .. sent]
  /\ presses \in 0 .. MaxPresses

Ids(us) == [i \in DOMAIN us |-> us[i].id]

\* Within one life of the program the poll loop handles consecutive updates, each once and in
\* order, up to the offset it confirms next: polls that fail, batches of several updates
\* and updates that arrive meanwhile never make it repeat or pass over one.
HandledInOrder ==
  LET all == handled \o Ids(batch) IN
  /\ \A i \in 1 .. Len(all) - 1 : all[i + 1] = all[i] + 1
  /\ all # <<>> => offset = Last(all) + 1

\* After a restart the backlog is skipped: at most one update from before the start
\* is dispatched.
BacklogSkipped == Cardinality({i \in DOMAIN handled : handled[i] <= born.sent}) <= 1

\* A menu is staged only for a call that still waits for it (or was dropped midway and
\* leaves it to the timer): whichever way a call ends, it leaves nothing behind.
StagedIsAwaited == \A e \in staged : form[e.form].at \in Pending \cup {"dropped"}

\* The publication guessed for a close that names no message is a menu of the module that
\* asked: no step takes a record of one module and changes a menu of another.  A close that
\* does name its message has no such bound.
GuessesOwnMenu ==
  [][\A m \in Mods, f \in Forms :
        Len(pubs'[m]) < Len(pubs[m]) /\ menu'[f] # menu[f] => ownerOf[f] = m]_botVars

\* inline.form comes to an end although the bot may never answer.
FormEnds == \A f \in Forms : form[f].at \in Pending ~> form[f].at \notin Pending

\* The invariant of the companion bot: updates are handled in order and once, the backlog is
\* skipped, and every staged menu has a caller that waits for it.
BotInv == BotTypeOK /\ HandledInOrder /\ BacklogSkipped /\ StagedIsAwaited

\* Every call of inline.form ends, and a guessed close is of the module's own menu: see
\* GuessesOwnMenu and FormEnds.
MenuContract == GuessesOwnMenu /\ FormEnds

=============================================================================
