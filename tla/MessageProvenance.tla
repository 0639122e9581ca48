-------------------------- MODULE MessageProvenance --------------------------
(***************************************************************************)
(* How Lavis tells its own edits from the user's.  Every edit Lavis makes  *)
(* comes back through the Telegram update stream as a self-authored edit.  *)
(* The editors (the run loop answering a command, and the host calls of    *)
(* v6 modules, which run concurrently) enter what they expect in the       *)
(* ledgers of message_provenance.rs; process_update drops the updates that *)
(* the ledgers claim and routes the rest as user input.                    *)
(*                                                                         *)
(* Telegram is external: an edit may be applied, rejected with an RPC      *)
(* error, or fail ambiguously and be applied all the same, even after the  *)
(* editor gave up.  Updates arrive once and in the order of application.   *)
(*                                                                         *)
(* A definition X_Y that precedes X is a faulty variant of X.              *)
(***************************************************************************)
EXTENDS Integers, Sequences, SequencesExt, FiniteSets

CONSTANTS
  Msgs,         \* messages in dialogs of the user
  Ops,          \* edits Lavis may make, each at most once
  Kind,         \* [Ops -> OpKinds]
  Target,       \* [Ops -> Msgs]
  Text,         \* [Ops -> Texts]: the text the edit writes
  Texts,        \* texts written by Lavis and its modules
  UserText,     \* what the user writes: never a text Lavis writes
  Absent,       \* "text" of a message that does not exist yet
  NoOp,
  User,         \* the origin of an update that is not Lavis's
  MaxEntries,   \* MAX_ENTRIES
  MaxUserEdits  \* bound on the user's messages and edits

\* "text", "photo": the run loop's response edits (a rejected photo is followed
\* by a text edit); "host": message.edit; "bot", "inline": message.editBot of a
\* message named by chat and id, or by inline_message_id only; "form": the
\* via-bot menu that inline.form publishes.
OpKinds == {"text", "photo", "host", "bot", "inline", "form"}

ASSUME ProvenanceAssumption ==
  /\ Kind \in [Ops -> OpKinds] /\ Target \in [Ops -> Msgs] /\ Text \in [Ops -> Texts]
  /\ IsFiniteSet(Ops)
  /\ UserText \notin Texts /\ Absent \notin Texts \cup {UserText}
  /\ NoOp \notin Ops /\ User \notin Ops
  /\ MaxEntries \in Nat \ {0} /\ MaxUserEdits \in Nat

VARIABLES
  server,   \* [Msgs -> text Telegram holds]
  stream,   \* updates not yet taken by the run loop
  ledger,   \* SharedSelfEditLedger: a bounded sequence of <<message, text>>
  forms,    \* SharedBotFormLedger: the bounded ring of menu messages
  op,       \* [Ops -> OpStates]
  loop,     \* the edit the run loop awaits, or NoOp
  routed,   \* history: origins of the updates routed as user input
  typed     \* messages and edits the user has made (bounded by MaxUserEdits)

vars == <<server, stream, ledger, forms, op, loop, routed, typed>>

\* "sent": awaited, not applied yet; "applied": applied, result not seen yet;
\* "late": given up by the editor, but Telegram may still apply it; "lost":
\* given up and never applied; "done": ended in any other way.
OpStates == {"idle", "sent", "applied", "late", "lost", "done"}

Keys == Msgs \X Texts
KeyOf(o) == <<Target[o], Text[o]>>

Update(m, t, edited, from) == [msg |-> m, text |-> t, edited |-> edited, from |-> from]

Init ==
  /\ server \in [Msgs -> {Absent, UserText}]
  /\ \A o \in Ops : Kind[o] = "form" => server[Target[o]] = Absent
  /\ stream = <<>> /\ ledger = <<>> /\ forms = <<>>
  /\ op = [o \in Ops |-> "idle"] /\ loop = NoOp
  /\ routed = {} /\ typed = 0

-----------------------------------------------------------------------------
(* The ledgers.                                                              *)

LedgerFull(led) == Len(led) >= MaxEntries

\* consume and remove take out the first equal entry, if there is one.
Without(led, k) == RemoveFirst(led, k)

\* SharedBotFormLedger::register evicts the oldest entry of a full ring.
FormsWith(m) ==
  Append(IF Len(forms) >= MaxEntries THEN Tail(forms) ELSE forms, m)

FormSuppresses(m) == \E i \in DOMAIN forms : forms[i] = m

-----------------------------------------------------------------------------
(* Telegram and the user.                                                    *)

UserWrites(m) ==
  /\ typed < MaxUserEdits
  /\ server[m] # UserText
  /\ \A o \in Ops : Kind[o] = "form" => Target[o] # m   \* menus are not the user's
  /\ server' = [server EXCEPT ![m] = UserText]
  /\ stream' = Append(stream, Update(m, UserText, server[m] # Absent, User))
  /\ typed' = typed + 1
  /\ UNCHANGED <<ledger, forms, op, loop, routed>>

\* Telegram applies an edit (or publishes a menu), whether or not the editor
\* still waits for the result.
Apply(o) ==
  /\ op[o] \in {"sent", "late"}
  /\ server[Target[o]] # Text[o]
  /\ (Kind[o] = "form") = (server[Target[o]] = Absent)
  /\ server' = [server EXCEPT ![Target[o]] = Text[o]]
  /\ stream' = Append(stream, Update(Target[o], Text[o], Kind[o] # "form", o))
  /\ op' = [op EXCEPT ![o] = IF @ = "sent" THEN "applied" ELSE "done"]
  /\ UNCHANGED <<ledger, forms, loop, routed, typed>>

\* A request the editor gave up on is dropped for good.
Lose(o) ==
  /\ op[o] = "late"
  /\ op' = [op EXCEPT ![o] = "lost"]
  /\ UNCHANGED <<server, stream, ledger, forms, loop, routed, typed>>

-----------------------------------------------------------------------------
(* The editors.                                                              *)

\* Register, then send: with a full ledger the edit is not made at all.
Register(o, led) ==
  /\ op' = [op EXCEPT ![o] = IF LedgerFull(led) THEN "done" ELSE "sent"]
  /\ ledger' = IF LedgerFull(led) THEN led ELSE Append(led, KeyOf(o))

\* execute_edit: a module edits a message through its handle.
HostBegin(o) ==
  /\ Kind[o] = "host" /\ op[o] = "idle" /\ server[Target[o]] # Absent
  /\ Register(o, ledger)
  /\ UNCHANGED <<server, stream, forms, loop, routed, typed>>

\* execute_message_edit_bot: the edit is made even if the ledger is full, and a
\* message known only by its inline_message_id has no peer to register.
BotBegin(o) ==
  /\ Kind[o] \in {"bot", "inline"} /\ op[o] = "idle" /\ server[Target[o]] # Absent
  /\ ledger' = IF Kind[o] = "inline" \/ LedgerFull(ledger) THEN ledger
               ELSE Append(ledger, KeyOf(o))
  /\ op' = [op EXCEPT ![o] = "sent"]
  /\ UNCHANGED <<server, stream, forms, loop, routed, typed>>

\* send_inline_form asks Telegram to publish the menu.
FormBegin(o) ==
  /\ Kind[o] = "form" /\ op[o] = "idle"
  /\ op' = [op EXCEPT ![o] = "sent"]
  /\ UNCHANGED <<server, stream, ledger, forms, loop, routed, typed>>

\* The edit ends for its editor.  deliver_media_with_suppression follows a
\* failed photo edit with a text edit of the same text; otherwise the run loop
\* returns to the update stream.
Fallback(o) == {t \in Ops : Kind[t] = "text" /\ KeyOf(t) = KeyOf(o) /\ op[t] = "idle"}

End(o, state, led) ==
  /\ op' = [op EXCEPT ![o] = state]
  /\ ledger' = led
  /\ loop' = IF loop = o THEN NoOp ELSE loop

FailEdit(o, state, led) ==
  IF loop = o /\ Kind[o] = "photo" /\ Fallback(o) # {}
  THEN \E t \in Fallback(o) :
         /\ op' = [op EXCEPT ![o] = state, ![t] = IF LedgerFull(led) THEN "done" ELSE "sent"]
         /\ ledger' = IF LedgerFull(led) THEN led ELSE Append(led, KeyOf(t))
         /\ loop' = IF LedgerFull(led) THEN NoOp ELSE t
  ELSE End(o, state, led)

\* The editor sees its edit succeed; only now is a published menu registered.
Succeed(o) ==
  /\ op[o] = "applied"
  /\ End(o, "done", ledger)
  /\ forms' = IF Kind[o] = "form" THEN FormsWith(Target[o]) ELSE forms
  /\ UNCHANGED <<server, stream, routed, typed>>

\* Telegram rejects the edit with an RPC error (MESSAGE_NOT_MODIFIED included):
\* it was not applied and its entry is taken back.
AfterReject_Keep(o) == ledger

AfterReject(o) == IF Kind[o] \in {"inline", "form"} THEN ledger ELSE Without(ledger, KeyOf(o))

Reject(o) ==
  /\ op[o] = "sent"
  /\ FailEdit(o, "done", AfterReject(o))
  /\ UNCHANGED <<server, stream, forms, routed, typed>>

\* The edit fails ambiguously: a broken connection, or a timeout.  The entry is
\* kept, except by message.editBot, which removes it after any failure.
AfterAmbiguity_Remove(o) == Without(ledger, KeyOf(o))

AfterAmbiguity(o) == IF Kind[o] = "bot" THEN Without(ledger, KeyOf(o)) ELSE ledger

GiveUp(o) ==
  /\ op[o] \in {"sent", "applied"}
  /\ FailEdit(o, IF op[o] = "sent" THEN "late" ELSE "done", AfterAmbiguity(o))
  /\ UNCHANGED <<server, stream, forms, routed, typed>>

\* The setup deadline drops process_update while it awaits an edit.
Cancel ==
  /\ loop # NoOp
  /\ End(loop, IF op[loop] = "sent" THEN "late" ELSE "done", ledger)
  /\ UNCHANGED <<server, stream, forms, routed, typed>>

-----------------------------------------------------------------------------
(* The run loop: process_update.                                             *)

\* The ledgers are asked in this order; only the second is consumed.
Suppressed(u) == FormSuppresses(u.msg)

Expected(u) == u.edited /\ Contains(ledger, <<u.msg, u.text>>)

Process ==
  /\ loop = NoOp /\ stream # <<>>
  /\ stream' = Tail(stream)
  /\ LET u == Head(stream) IN
     \/ /\ Suppressed(u)
        /\ UNCHANGED <<ledger, op, loop, routed>>
     \/ /\ ~Suppressed(u) /\ Expected(u)
        /\ ledger' = Without(ledger, <<u.msg, u.text>>)
        /\ UNCHANGED <<op, loop, routed>>
     \/ /\ ~Suppressed(u) /\ ~Expected(u)
        /\ routed' = routed \cup {u.from}
        /\ \/ UNCHANGED <<ledger, op, loop>>           \* no command, or no response
           \/ \E o \in Ops :
                /\ Kind[o] \in {"text", "photo"} /\ Target[o] = u.msg /\ op[o] = "idle"
                /\ Register(o, ledger)
                /\ loop' = IF LedgerFull(ledger) THEN NoOp ELSE o
  /\ UNCHANGED <<server, forms, typed>>

Next ==
  \/ Process \/ Cancel
  \/ \E m \in Msgs : UserWrites(m)
  \/ \E o \in Ops :
       \/ HostBegin(o) \/ BotBegin(o) \/ FormBegin(o)
       \/ Apply(o) \/ Lose(o) \/ Succeed(o) \/ Reject(o) \/ GiveUp(o)

Spec == Init /\ [][Next]_vars

-----------------------------------------------------------------------------
(* Properties.                                                               *)

Updates == [msg : Msgs, text : Texts \cup {UserText}, edited : BOOLEAN, from : Ops \cup {User}]

TypeOK ==
  /\ server \in [Msgs -> Texts \cup {UserText, Absent}]
  /\ stream \in Seq(Updates)
  /\ ledger \in Seq(Keys) /\ Len(ledger) <= MaxEntries
  /\ forms \in Seq(Msgs) /\ Len(forms) <= MaxEntries
  /\ op \in [Ops -> OpStates]
  /\ loop \in {o \in Ops : Kind[o] \in {"text", "photo"}} \cup {NoOp}
  /\ routed \subseteq Ops \cup {User}
  /\ typed \in 0..MaxUserEdits

Armed == {"text", "photo", "host"}

\* What the run loop and message.edit write into a message, and message.editBot
\* does not.  (A failed bot edit of the same text would take back an entry that
\* may be another editor's.)
ArmedKey(k) == \A o \in Ops : KeyOf(o) = k => Kind[o] \in Armed

\* No response edit of the run loop and no message.edit of a module is ever
\* routed as the user's input, whatever fails, is cancelled or is applied late,
\* and however its update overtakes its result.
OwnEditNeverRouted == \A o \in Ops : ArmedKey(KeyOf(o)) => o \notin routed

\* The edits that may still be applied, and the updates that are still to come.
Unsettled(k) == {o \in Ops : KeyOf(o) = k /\ op[o] \in {"sent", "late", "lost"}}
Unseen(k) == {i \in DOMAIN stream : stream[i].from \in Ops /\ KeyOf(stream[i].from) = k}
EntriesOf(k) == {i \in DOMAIN ledger : ledger[i] = k}

\* The ledger holds exactly one entry for every edit that may still come back:
\* an entry is left behind only by an edit that failed ambiguously and was
\* never applied.  (Such entries never expire: MaxEntries of them and no
\* response can be edited in any more.)  The edits of a menu are excepted: the
\* menu ring claims their updates, and their entries stay.
LedgerExact ==
  \A k \in Keys :
    ArmedKey(k) /\ (\A o \in Ops : Kind[o] = "form" => Target[o] # k[1]) =>
      Cardinality(EntriesOf(k)) = Cardinality(Unsettled(k)) + Cardinality(Unseen(k))

\* The invariant of the two ledgers: bounded, and holding exactly the edits still under way or unseen.
ProvenanceInv == TypeOK /\ LedgerExact

=============================================================================
