--------------------------------- MODULE BotWire ---------------------------------
(***************************************************************************)
(* What crosses the companion bot's boundaries: the parameters of host     *)
(* calls (v6_host.rs), the namespace of callback data, replies of the Bot  *)
(* API (bot_api.rs, bot_updates.rs), and BotFather's texts (setup.rs).     *)
(*                                                                         *)
(* A text is [units, nul]: its UTF-16 length and whether it has a NUL.     *)
(* Module ids and callback data are sequences of characters.  Zero stands  *)
(* for an absent id.  A definition X_Y that precedes X is a faulty variant *)
(* of X.                                                                   *)
(***************************************************************************)
EXTENDS Integers, Sequences, SequencesExt, FiniteSets, FiniteSetsExt

MAX_INLINE_BUTTON_DATA_BYTES == 32
MAX_INLINE_ROWS == 16
MAX_INLINE_BUTTONS_PER_ROW == 8
CallbackDataLimit == 64        \* of the Bot API

(***************************************************************************)
(* Host call parameters.                                                   *)
(***************************************************************************)
TextValid(t, max) == t.units \in 1 .. max /\ ~t.nul
ValidateEdit(p) == p.message # "" /\ TextValid(p.text, 4096)
ValidateSendBot(p) == p.chat_id # 0 /\ p.thread >= 0 /\ TextValid(p.text, 4096)
ValidateButton(b, prefixLen) ==
  /\ b.text \in 1 .. 64
  /\ b.data # <<>> /\ Len(b.data) + prefixLen + 1 <= MAX_INLINE_BUTTON_DATA_BYTES * 2
ValidateButtonRows(rows, prefixLen) ==
  /\ Len(rows) <= MAX_INLINE_ROWS
  /\ \A i \in DOMAIN rows : /\ Len(rows[i]) \in 1 .. MAX_INLINE_BUTTONS_PER_ROW
                            /\ \A j \in DOMAIN rows[i] : ValidateButton(rows[i][j], prefixLen)
ValidateForm(p, prefixLen) ==
  p.message # "" /\ TextValid(p.text, 4096) /\ ValidateButtonRows(p.buttons, prefixLen)
ValidateAnswer(p) == p.callback_id \in 1 .. 128 /\ ~p.text.nul /\ p.text.units <= 200
ValidateEditBot(p, prefixLen) ==
  /\ p.inline_message_id # 0 \/ (p.chat_id # 0 /\ p.message_id > 0)
  /\ TextValid(p.text, 4096) /\ ValidateButtonRows(p.buttons, prefixLen)
ValidateDeleteBot(p) == p.inline_message_id # 0 \/ (p.chat_id # 0 /\ p.message_id > 0)

(***************************************************************************)
(* Callback data: "<module id>|<data>".                                    *)
(***************************************************************************)
Separator == "bar"   \* '|'
DataPrefix(id) == Append(id, Separator)
ModuleIdFromDataPrefix(prefix) ==
  LET id == Front(prefix) IN
  IF prefix # <<>> /\ Last(prefix) = Separator /\ id # <<>> /\ ~Contains(id, Separator) THEN id ELSE <<>>
PrefixedRows(rows, prefix) ==
  [i \in DOMAIN rows |-> [j \in DOMAIN rows[i] |-> [text |-> rows[i][j].text, data |-> prefix \o rows[i][j].data]]]

Bars(data) == {i \in DOMAIN data : data[i] = Separator}
SplitAt(data, i) == [module |-> SubSeq(data, 1, i - 1), data |-> SubSeq(data, i + 1, Len(data))]
SplitOnce(data) == SplitAt(data, Min(Bars(data)))

\* handle_callback_query: the press of another user is refused; data of no module
\* is ignored; otherwise the module gets its own part of the data.
Ignored == [kind |-> "ignored"]
HandleCallbackQuery(query, self) ==
  IF query.from # self THEN [kind |-> "refused"]
  ELSE IF Bars(query.data) = {} THEN Ignored
  ELSE [kind |-> "dispatched", event |-> SplitOnce(query.data), chat_id |-> query.chat_id,
        message_id |-> query.message_id, inline_message_id |-> query.inline_message_id]

(***************************************************************************)
(* Bot API chat ids and MTProto peers.  ChannelBase stands for 10^12.      *)
(***************************************************************************)
ChannelBase == 1000
Peer(kind, id) == IF id > 0 THEN [kind |-> kind, id |-> id] ELSE [kind |-> "none", id |-> 0]
PeerIdFromBotChatId(chat) ==
  CASE chat >= 0 -> Peer("user", chat)
    [] chat <= -ChannelBase -> Peer("channel", -(chat + ChannelBase))
    [] OTHER -> Peer("chat", -chat)
\* What grammers makes of a peer in the other direction (bot_api_dialog_id).
BotApiDialogId(peer) ==
  CASE peer.kind = "user" -> peer.id [] peer.kind = "chat" -> -peer.id [] OTHER -> -(ChannelBase + peer.id)

\* delete_bot_message: which message a close names.
DeleteTarget(p) ==
  IF p.chat_id # 0 /\ p.message_id > 0
  THEN IF PeerIdFromBotChatId(p.chat_id).kind = "none" THEN "unavailable" ELSE "addressed"
  ELSE IF p.inline_message_id # 0 THEN "correlated" ELSE "unavailable"

(***************************************************************************)
(* Bot API replies: [sent, success, declared, chunks, json, ok, ...].      *)
(* declared is the Content-Length, -1 if there is none.                    *)
(***************************************************************************)
MAX_GET_ME_BODY_BYTES == 65536
MAX_UPDATES_BODY_BYTES == 262144
Fine(value) == [ok |-> TRUE, value |-> value]
Fault(category) == [ok |-> FALSE, value |-> category]

RequestError(r) == Fault(IF r.sent = "timeout" THEN "timeout" ELSE "transport")
AppendBodyChunk(len, chunk, max) == IF len + chunk > max THEN -1 ELSE len + chunk
BodyLength(chunks, max) ==
  FoldLeft(LAMBDA len, chunk : IF len = -1 THEN -1 ELSE AppendBodyChunk(len, chunk, max), 0, chunks)
ReadBoundedBody(r, max) ==
  IF r.declared > max THEN Fault("oversized")
  ELSE LET length == BodyLength(r.chunks, max) IN
       IF length = -1 THEN Fault("oversized") ELSE Fine(length)
ParseSendBody(r) == IF ~r.json THEN Fault("malformed") ELSE IF r.ok THEN Fine(r.id) ELSE Fault("rejected")

\* A username is [bytes, word, bot]: its length, whether all bytes are letters, digits
\* or "_", and whether it ends in "bot" in any case.
ValidateUsername(u) ==
  IF ~u.bot THEN Fault("suffix") ELSE IF u.bytes \in 5 .. 32 /\ u.word THEN Fine(u) ELSE Fault("characters")
ParseGetMeBody(r) ==
  CASE ~r.json -> Fault("malformed")
    [] r.json /\ ~(r.ok /\ r.result) -> Fault("rejected")
    [] r.json /\ r.ok /\ r.result /\ ~r.is_bot -> Fault("not_bot")
    [] OTHER -> IF ValidateUsername(r.username).ok THEN Fine(r.id) ELSE Fault("wrong_username")

Exchange(r, Parse(_)) ==
  IF r.sent # "ok" THEN RequestError(r)
  ELSE IF ~r.success THEN Fault("rejected")
  ELSE LET body == ReadBoundedBody(r, MAX_GET_ME_BODY_BYTES) IN IF body.ok THEN Parse(r) ELSE body
GetMe(r) == Exchange(r, ParseGetMeBody)
SendMessage(r) == Exchange(r, ParseSendBody)
AnswerCallback(r) == Exchange(r, ParseSendBody)
EditMessageText(r) == Exchange(r, ParseSendBody)
\* The message an edit names: the inline id wins over chat and message.
EditAddress_ChatOnly(m) == <<m.chat_id, m.message_id>>
EditAddress(m) == IF m.inline_message_id # 0 THEN <<m.inline_message_id>> ELSE <<m.chat_id, m.message_id>>
SanitizedError(fault) == IF fault.value \in {"rejected", "timeout"} THEN fault.value ELSE "unavailable"

\* What a module is told of a host call that went to the Bot API with its parameters p; r is
\* the reply.  An edit is entered in the edit ledger first, and taken out again if it fails.
BotCall(valid, call) ==
  IF ~valid THEN Fault("invalid") ELSE IF call.ok THEN Fine("null") ELSE Fault(SanitizedError(call))
ExecuteSendBot(p, r) == BotCall(ValidateSendBot(p), SendMessage(r))
ExecuteInlineAnswer(p, r) == BotCall(ValidateAnswer(p), AnswerCallback(r))
ExecuteMessageEditBot(p, prefixLen, r) ==
  LET told == BotCall(ValidateEditBot(p, prefixLen), EditMessageText(r))
      peer == PeerIdFromBotChatId(p.chat_id) IN
  [told |-> told, edited |-> EditAddress(p), ledger |-> IF told.ok /\ peer.kind # "none" THEN {<<peer, p.message_id>>} ELSE {}]

\* getUpdates: the body has a larger bound, and "ok": false is no batch.
ParseUpdates(r) == IF r.json /\ r.ok THEN Fine(r.id) ELSE Fault("malformed")
GetUpdates(r) ==
  IF r.sent # "ok" THEN RequestError(r)
  ELSE IF ~r.success THEN Fault("rejected")
  ELSE LET body == ReadBoundedBody(r, MAX_UPDATES_BODY_BYTES) IN IF body.ok THEN ParseUpdates(r) ELSE body

(***************************************************************************)
(* BotFather's texts: runs [c, n] of n characters of a class; a "wide"     *)
(* character takes two bytes.                                              *)
(***************************************************************************)
MAX_RESPONSE_BYTES == 4096
TokenChars == {"digit", "letter", "dash", "colon"}
Width(run) == IF run.c = "wide" THEN 2 * run.n ELSE run.n
Size(runs) == FoldLeft(LAMBDA s, run : s + Width(run), 0, runs)
TokenChar(c) == c \in TokenChars

\* bounded_prefix cuts at a character boundary.
BoundedPrefix(runs, max) ==
  LET start(i) == Size(SubSeq(runs, 1, i - 1))
      cut(run, room) == [run EXCEPT !.n = IF run.c = "wide" THEN room \div 2 ELSE room]
      kept == {i \in DOMAIN runs : start(i) < max} IN
  [i \in 1 .. Cardinality(kept) |->
     IF start(i) + Width(runs[i]) <= max THEN runs[i] ELSE cut(runs[i], max - start(i))]

IsTokenShape(piece) ==
  \E k \in DOMAIN piece :
    LET id == SubSeq(piece, 1, k - 1)
        secret == SubSeq(piece, k + 1, Len(piece)) IN
    /\ piece[k] = [c |-> "colon", n |-> 1]
    /\ \A i \in DOMAIN id : id[i].c = "digit"
    /\ \A i \in DOMAIN secret : secret[i].c # "colon"
    /\ Size(id) \in 6 .. 12 /\ Size(secret) \in 20 .. 64

\* The pieces between characters that no token has, and the first of token shape.
Pieces(runs) ==
  {p \in (DOMAIN runs) \X (DOMAIN runs) :
     /\ p[1] <= p[2] /\ \A k \in p[1] .. p[2] : TokenChar(runs[k].c)
     /\ (p[1] > 1 => ~TokenChar(runs[p[1] - 1].c))
     /\ (p[2] < Len(runs) => ~TokenChar(runs[p[2] + 1].c))}
NoToken == <<>>
ExtractToken(response) ==
  LET runs == BoundedPrefix(response, MAX_RESPONSE_BYTES)
      shaped == {p \in Pieces(runs) : IsTokenShape(SubSeq(runs, p[1], p[2]))} IN
  IF shaped = {} THEN NoToken
  ELSE LET first == CHOOSE p \in shaped : \A q \in shaped : p[1] <= q[1] IN SubSeq(runs, first[1], first[2])

\* classify_botfather_response: a token decides; otherwise the first known phrase.
ClassifyBotfatherResponse(response, phrases) ==
  CASE ExtractToken(response) # NoToken -> "Success"
    [] OTHER -> LET order == <<"UsernameOccupied", "UsernameInvalid", "LimitReached", "FloodWait">>
                    said == {i \in DOMAIN order : order[i] \in phrases} IN
                IF said = {} THEN "Unexpected" ELSE order[Min(said)]
=============================================================================
