--------------------------------- MODULE MCInputs ---------------------------------
(***************************************************************************)
(* The pure algorithms against what they promise, over bounded inputs.     *)
(* A behaviour picks one input and evaluates the code on it.               *)
(***************************************************************************)
EXTENDS SourceInspection, CommandRouting, BotWire

VARIABLES job,  \* the kind of input and the input
          out   \* what the code makes of it
vars == <<job, out>>

Pending == [kind |-> "pending"]

(***************************************************************************)
(* Inputs.                                                                 *)
(***************************************************************************)
Id(len) == [len |-> len, word |-> TRUE, digits |-> TRUE]
Measure(depth) == [depth |-> depth, items |-> 1, str |-> 10, bytes |-> 100]
Line(type, version, fields, len, depth, text) ==
  [type |-> type, version |-> version, fields |-> fields, request_id |-> Id(len), call_id |-> Id(len),
   text |-> text, params |-> Measure(depth), bytes |-> 200, actions |-> <<>>]

Calls ==
  {Line(type, version, fields, len, depth, 20) :
     type \in {"host.invoke", "telegram.invoke"}, version \in {5, 6},
     fields \in {InvokeFields, InvokeFields \cup {"request_id"}, {"call_id"}},
     len \in {0, 1, 64, 65}, depth \in {0, 6, 7, 8, 9}}
Events == {"message.created", "message.edited", "telegram.result"}

Bytes == UNION {[1 .. n -> {0, 1, 15, 255}] : n \in 0 .. 4}
TwoQuads(a, b) == a \o b
Texts == [1 .. 4 -> {0, 1, 16, 63, Pad, 65}]
         \cup {TwoQuads(a, b) : a \in [1 .. 4 -> {1, Pad}], b \in [1 .. 4 -> {16, Pad}]}
BodyLengths == {4, 8, 12, 5376, 40952, 40956, 40960, 40964, 41000}

Params ==
  {[json |-> Measure(d), fields |-> f, hash |-> [len |-> h, decimal |-> TRUE, fits |-> TRUE], limit |-> l, peer |-> "self",
    chunks |-> <<12>>, padding |-> 1, dc |-> dc, home |-> 2] :
     d \in {1, 9}, f \in BOOLEAN, h \in {0, 1, 21}, l \in {0, 1, 100, 101}, dc \in {0, 1, 101}}

Emoji(n) == [type |-> "emoji", text |-> [len |-> n, plain |-> TRUE, digits |-> FALSE, fits |-> FALSE]]
Actions ==
  {[type |-> "message.react", single |-> s, ref |-> 1, note |-> n, reactions |-> [i \in 1 .. k |-> Emoji(i)]] :
     s \in BOOLEAN, n \in {0, 128}, k \in 0 .. 4}
Reactor(v) == [id |-> "mod", schema |-> v, actions |-> <<"message.react">>, capabilities |-> <<"message.react">>]
Reply(v, action) == [Line("event_result", v, {"request_id", "actions"}, 1, 0, 5) EXCEPT !.actions = <<action>>]
ReadReply(v, action) == IF v = 6 THEN ParseV6InboundFrame(Reply(v, action), 5) ELSE ParseModuleLine(Reply(v, action), v)

Word(name) == [text |-> name, len |-> 5, lowerFirst |-> TRUE, slug |-> TRUE, line |-> TRUE,
               clean |-> TRUE, first |-> "<args>"]
GoodFile == [kind |-> "file", groupWrite |-> FALSE, worldWrite |-> FALSE, bytes |-> 10, exec |-> TRUE, inside |-> TRUE]
GoodFiles ==
  [parent |-> [GoodFile EXCEPT !.kind = "dir"], manifest |-> GoodFile, json |-> TRUE, entry |-> GoodFile,
   entrypoint |-> [empty |-> FALSE, dotdot |-> FALSE, absolute |-> FALSE, url |-> FALSE]]
\* A manifest of one command, well-formed but for its schema, revision, capabilities, methods and subscriptions.
ManifestOf(s, r, c, m, b) ==
  [schema |-> s, revision |-> r, hasMethods |-> m # {}, id |-> Word("mod"), name |-> Word("Mod"),
   version |-> Word("1"), author |-> Word("me"), capabilities |-> SetToSeq(c), methods |-> SetToSeq(m),
   subscriptions |-> SetToSeq(b), actions |-> <<>>, default |-> "none",
   commands |-> <<[name |-> Word("cmd"), summary |-> Word("s"), description |-> Word("d"),
                   usage |-> Word("u"), examples |-> <<>>]>>]
SomeCapabilities ==
  {"message.read", "message.peer_id", "telegram.account.status", "telegram.raw", "message.send_bot"}
SomeMethods == {"account.updateStatus", "raw.invoke", "messages.getHistory"}
Manifests ==
  {ManifestOf(s, r, c, m, b) : s \in 2 .. 6, r \in {0, 2, 3, 5}, c \in SUBSET SomeCapabilities,
                               m \in SUBSET SomeMethods, b \in SUBSET Subscriptions}

Installed(m) == [dir |-> TRUE, utf8 |-> TRUE, name |-> m.id, manifest |-> m, files |-> GoodFiles]

Spellings ==
  UNION {{p \in [1 .. n -> {"a", "module.json", NoName}] : p[n] # NoName} : n \in 1 .. 3}
Entry(path, dir) ==
  [path |-> path, dir |-> dir, pathBytes |-> 12, mode |-> IF dir THEN "dir" ELSE "file", special |-> FALSE,
   utf8 |-> TRUE, encrypted |-> FALSE, stored |-> TRUE, compressed |-> IF dir THEN 0 ELSE 4,
   expanded |-> IF dir THEN 0 ELSE 4, localMatches |-> TRUE, inBounds |-> TRUE]
ArchiveOf(p, dp, q, dq) ==
  [eocd |-> TRUE, oneDisk |-> TRUE, exact |-> TRUE, directoryEnd |-> 90, eocdAt |-> 90, count |-> 3,
   entries |-> <<Entry(<<"module.json">>, FALSE), Entry(p, dp), Entry(q, dq)>>]
Archives == {ArchiveOf(p, dp, q, dq) : p \in Spellings, q \in Spellings, dp \in BOOLEAN, dq \in BOOLEAN}

Names == {<<>>, <<1>>, <<1, 1>>}
Lists == {<<>>, << <<1>> >>, << <<1>>, <<1>> >>}
PlanOf(v, i, w, e, d, c, s) ==
  FromDescriptor([protocol |-> v, revision |-> IF v = 6 THEN 5 ELSE 0, id |-> <<2>>, version |-> w, entrypoint |-> e,
                  default |-> d, capabilities |-> c, subscriptions |-> s, methods |-> <<>>, actions |-> <<>>],
                 i, 7, [files |-> 1, expanded |-> 4])
Plans ==
  {PlanOf(v, i, w, e, d, c, s) :
     v \in {5, 6}, i \in Lists \ {<< <<1>> >>}, w \in Names, e \in Names \ {<<>>},
     d \in Lists \ {<< <<1>>, <<1>> >>}, c \in Lists, s \in Lists \ {<< <<1>>, <<1>> >>}}

Vocabulary == {"lm", "install", "reboot", "ping", "info", "setup", "fun", "fun.run"}
Wording == UNION {[1 .. n -> Vocabulary] : n \in 1 .. 2}
             \cup {<<"lm", w, "APPR-0000-0000-0001">> : w \in {"confirm", "enable", "info"}}
Sent ==
  {[words |-> w, prefixed |-> TRUE, sender |-> a, outgoing |-> o, edited |-> e, peer |-> c, id |-> i] :
     w \in Wording, a \in {"self", "owner", "other"}, o \in BOOLEAN, e \in BOOLEAN, c \in {"saved", "chat"}, i \in {0, 1}}
Halves == {Limits.archive \div 2, 1 + (Limits.archive \div 2)}
Documents ==
  [lmod : BOOLEAN, declared : {NoSize, Limits.archive, 1 + Limits.archive},
   chunks : UNION {[1 .. n -> Halves \cup {0, Broken}] : n \in 0 .. 3}]
Posted == [sender : {"self", "owner", "other", "unknown"}, outgoing : BOOLEAN, edited : BOOLEAN,
           peer : {"saved", "chat"}, id : {0, 1}]
Snapshots == {[commands |-> {}, defaults |-> {}, modules |-> {}],
              [commands |-> {"fun.run"}, defaults |-> {"fun", "info"}, modules |-> {"fun", "info"}]}
AliasSets == {{}} \cup {{[name |-> x.name, target |-> x.target, args |-> x.args]} :
               x \in {y \in [name : {"fun", "ping"}, target : {"ping", "info", "lm", "reboot"}, args : {<<>>, <<"install">>}] :
                        AliasAccepted(y.name, y.target, y.args)}}

ModuleIds == {[i \in 1 .. n |-> "m"] : n \in {1, 31, 32}}
ButtonData == {[i \in 1 .. n |-> IF i = k THEN Separator ELSE "d"] : n \in {0, 1, 29, 30, 31, 32, 61, 62, 63, 64}, k \in {0, 1, 2, 29}}
SomePeers == [kind : {"user", "chat", "channel"}, id : {1, 2, ChannelBase - 1}] \cup [kind : {"user", "channel"}, id : {ChannelBase, 2 * ChannelBase}]
Framings == {<<>>, <<65536>>, <<65537>>, <<1, 65536>>, <<65536, 1>>, <<65535, 1>>, <<32768, 32768, 1>>, <<65536, 0, 1>>, <<262144>>, <<262144, 1>>}
Names5 == [bytes : {4, 5, 32, 33}, word : BOOLEAN, bot : BOOLEAN]
Replies ==
  {[sent |-> s, success |-> st, declared |-> d, chunks |-> c, json |-> j, ok |-> k, result |-> r, is_bot |-> b, username |-> u, id |-> 7] :
     s \in {"ok", "timeout", "broken"}, st \in BOOLEAN, d \in {-1, 65537}, c \in Framings, j \in BOOLEAN, k \in BOOLEAN,
     r \in BOOLEAN, b \in BOOLEAN, u \in {x \in Names5 : x.bytes \in {4, 32} /\ (x.word \/ x.bot)}}
Presses ==
  {[chat_id |-> BotApiDialogId(peer), message_id |-> 3, inline_message_id |-> 0] : peer \in SomePeers}
    \cup {[chat_id |-> 0, message_id |-> 0, inline_message_id |-> 5]}
Answers ==
  {r \in Replies : r.declared = -1 /\ r.result /\ r.is_bot /\ r.username.bytes = 32 /\ r.username.word /\ r.username.bot
                   /\ r.chunks \in {<<65536>>, <<65536, 1>>}}
Run(c, n) == [c |-> c, n |-> n]
Tokens == {<<Run("digit", i), Run("colon", 1), Run("letter", 20)>> : i \in {6, 12}}
          \cup {<<Run("digit", i), Run("colon", 1), Run("letter", 30), Run("dash", 1), Run("digit", 33)>> : i \in {6, 12}}
Lookalikes == {<<Run("digit", i), Run("colon", 1), Run("letter", n)>> : i \in {5, 13}, n \in {19, 30, 65}}
              \cup {<<Run("letter", 1), Run("digit", 6), Run("colon", 1), Run("letter", 30)>>}
Edges == {<<>>, <<Run("other", 1)>>, <<Run("wide", 4)>>, <<Run("letter", 3), Run("other", 2)>>, <<Run("other", 4000)>>}
AnswerOf(a, l, t, z) == [before |-> a \o l \o <<Run("other", 1)>>, token |-> t, after |-> <<Run("other", 1)>> \o z]
Answered == {AnswerOf(a, l, t, z) : a \in Edges, l \in Lookalikes \cup {<<>>}, t \in Tokens \cup {NoToken}, z \in Edges}

Written == {<<"p">> \o x : x \in UNION {[1 .. n -> {"s", "c", "e"}] : n \in 1 .. 6}}
Before(text, i) == Utf16(SubSeq(text, 1, i - 1))
\* The entity over the characters i to j.
EntityAt(text, i, j) == [offset |-> Before(text, i), length |-> Before(text, j + 1) - Before(text, i)]

(***************************************************************************)
(* One action per algorithm.                                               *)
(***************************************************************************)
Init ==
  /\ out = Pending
  /\ \/ \E line \in Calls, r \in 1 .. 6 : job = [kind |-> "call", line |-> line, revision |-> r]
     \/ \E e \in Events, v \in 2 .. 6 : job = [kind |-> "event", event |-> e, version |-> v]
     \/ \E b \in Bytes : job = [kind |-> "encode", bytes |-> b]
     \/ \E t \in Texts : job = [kind |-> "decode", text |-> t]
     \/ \E n \in BodyLengths : job = [kind |-> "raw", body |-> n]
     \/ \E m \in V6Methods, p \in Params, r \in {"ok", "not_modified", "flood", "broken"} :
          job = [kind |-> "rpc", method |-> m, params |-> p, reply |-> r]
     \/ \E v \in 3 .. 6, a \in Actions : job = [kind |-> "react", version |-> v, action |-> a]
     \/ \E m \in Manifests : job = [kind |-> "manifest", manifest |-> m]
     \/ \E z \in Archives : job = [kind |-> "archive", zip |-> z]
     \/ \E m \in Posted, d \in Documents : job = [kind |-> "acquire", message |-> m, document |-> d]
     \/ \E p \in Plans : job = [kind |-> "plan", plan |-> p]
     \/ \E m \in Sent, s \in Snapshots, a \in AliasSets :
          job = [kind |-> "command", message |-> m, snapshot |-> s, aliases |-> a]
     \/ \E t \in Written : \E i \in DOMAIN t : \E j \in i .. Len(t) :
          job = [kind |-> "entity", text |-> t, entity |-> EntityAt(t, i, j)]
     \/ \E m \in ModuleIds, d \in ButtonData : job = [kind |-> "button", module |-> m, data |-> d]
     \/ \E p \in SomePeers : job = [kind |-> "peer", peer |-> p]
     \/ \E r \in Replies : job = [kind |-> "reply", reply |-> r]
     \/ \E p \in Presses, t \in {0, 1, 4096, 4097}, r \in Answers :
          job = [kind |-> "press", press |-> p, text |-> [units |-> t, nul |-> FALSE], reply |-> r]
     \/ \E a \in Answered : job = [kind |-> "botfather", answer |-> a]

Say(a) == a.before \o a.token \o a.after

Finish(kind, result) == /\ job.kind = kind /\ out = Pending
                        /\ out' = [kind |-> kind, result |-> result] /\ UNCHANGED job

EvalCall == Finish("call", ParseV6InboundFrame(job.line, job.revision))
EvalEvent == Finish("event", IF job.version = 6 THEN V6OutboundSerialize(job.event, Id(1), 100)
                             ELSE SerializeFor(job.event, job.version))
EvalEncode == Finish("encode", EncodeBase64(job.bytes))
EvalDecode == Finish("decode", DecodeBase64(job.text))
EvalRaw == Finish("raw", RawTlResult(job.body))
EvalRpc == Finish("rpc", Execute(job.method, job.params, job.reply))
EvalReact == Finish("react", ReadReply(job.version, job.action))
EvalManifest == Finish("manifest", ValidateManifestAt(job.manifest, GoodFiles, "mod"))
EvalArchive == Finish("archive", InspectInto(job.zip))
EvalAcquire == Finish("acquire", Acquire(job.message, job.document))
EvalPlan == Finish("plan", CanonicalFingerprint(job.plan))
EvalCommand == Finish("command", RouteText(job.message, job.snapshot, job.aliases))
EvalEntity == Finish("entity", CommandArgumentEntities(job.text, {job.entity}))
\* What the Bot API is told of a module's only button: nothing if the button is refused.
ButtonSent(module, data) ==
  LET prefix == DataPrefix(module)
      rows == << <<[text |-> 1, data |-> data]>> >> IN
  IF ValidateButtonRows(rows, Len(prefix)) THEN PrefixedRows(rows, prefix)[1][1].data ELSE <<>>
EvalButton == Finish("button", ButtonSent(job.module, job.data))
EvalPeer == Finish("peer", PeerIdFromBotChatId(BotApiDialogId(job.peer)))
ReadReplies(r) == [send |-> SendMessage(r), me |-> GetMe(r), updates |-> GetUpdates(r)]
EvalReply == Finish("reply", ReadReplies(job.reply))
\* A module answers a press with a text: it edits the message and sets the notice.
AnswerPress(press, text, reply) ==
  LET query == [from |-> "self", data |-> <<"m", Separator, "d">>, chat_id |-> press.chat_id,
                message_id |-> press.message_id, inline_message_id |-> press.inline_message_id]
      event == HandleCallbackQuery(query, "self") IN
  [edit |-> ExecuteMessageEditBot([chat_id |-> event.chat_id, message_id |-> event.message_id, text |-> text,
                                   inline_message_id |-> event.inline_message_id, buttons |-> <<>>], 2, reply),
   answer |-> ExecuteInlineAnswer([callback_id |-> 20, text |-> text], reply),
   send |-> ExecuteSendBot([chat_id |-> event.chat_id, thread |-> 0, text |-> text], reply)]
EvalPress == Finish("press", AnswerPress(job.press, job.text, job.reply))
EvalBotFather == Finish("botfather", ExtractToken(Say(job.answer)))
Done == out # Pending /\ UNCHANGED vars

Next == \/ EvalCall \/ EvalEvent \/ EvalEncode \/ EvalDecode \/ EvalRaw \/ EvalRpc \/ EvalReact
        \/ EvalManifest \/ EvalAcquire \/ EvalArchive \/ EvalPlan \/ EvalCommand \/ EvalEntity
        \/ EvalButton \/ EvalPeer \/ EvalReply \/ EvalPress \/ EvalBotFather \/ Done

Spec == Init /\ [][Next]_vars

(***************************************************************************)
(* Properties.                                                             *)
(***************************************************************************)
ResultType == [x \in {"host.invoke", "telegram.invoke"} |-> IF x = "host.invoke" THEN "host.result" ELSE "telegram.result"]

CallAnswered(line, revision, result) ==
  /\ result.ok =>
       LET sent == SerializeV6CoreResult(ResultType[line.type], line.call_id, Accepted(Measure(2))) IN
       sent.ok /\ ParseV6CoreFrame(sent.value, revision).ok
  /\ ParseV6ModuleFrame(line, revision) = result
OtherHalfRead(event, version) ==
  LET type == IF event = "telegram.result" THEN "telegram.invoke" ELSE "event_result" IN
  IF version < 6
  THEN ParseModuleLine(Line(type, version, LegacyFields(type, version), 1, 0, 5), version).ok
  ELSE ParseV6InboundFrame(Line(type, 6, IF type = "event_result" THEN LifecycleFields[type] ELSE InvokeFields,
                                1, 0, 5), V6_CURRENT_CONTRACT_REVISION).ok

\* Every exchange can be completed in the revision it was opened in: the result of a call that
\* parse_v6_inbound_frame accepted is serialised and accepted by parse_v6_core_frame at the same
\* revision, and what Lavis sends in a version belongs to an exchange whose other half it reads
\* in that version.
ExchangesComplete ==
  /\ out.kind = "call" => CallAnswered(job.line, job.revision, out.result)
  /\ out.kind = "event" /\ out.result => OtherHalfRead(job.event, job.version)

\* encode_base64 and decode_base64 are inverse: nothing is lost, and one body has one spelling,
\* so a padded quad with stray bits is refused.
Base64Exact ==
  /\ out.kind = "encode" /\ job.bytes # <<>> => DecodeBase64(out.result) = Accepted(job.bytes)
  /\ out.kind = "decode" /\ out.result.ok => EncodeBase64(out.result.value) = job.text

Padding(body) == (3 - (body % 3)) % 3

\* The error of a failed call as large as it gets.
FailedCall == [ok |-> FALSE, value |-> [kind |-> 9, message |-> 256]]
Reaches(result) == SerializeV6CoreResult("telegram.result", Id(64), IF result.ok THEN result ELSE FailedCall).ok
RawReaches(body, result) ==
  body <= MAX_RAW_TL_BODY_BYTES =>
    /\ result.ok /\ Reaches(result)
    /\ DecodeRawTlBody(RawChunks(Ceil(body, 3) * 4), Padding(body)) = Accepted(body)

\* Whatever V6TelegramExecutor::execute returns reaches the module as a line of its own: a summary or
\* raw reply passes the guards of serialize_v6_core_result, and so does the error of a failed call.
\* A raw reply of at most MAX_RAW_TL_BODY_BYTES reaches the module although V6RpcOutput::raw skips the
\* JSON guards, and its chunks are themselves a body decode_raw_tl_body takes back.
RepliesDelivered == /\ out.kind = "rpc" => Reaches(out.result)
                    /\ out.kind = "raw" => RawReaches(job.body, out.result)

\* The wire and the validator agree on reactions: a well-formed reaction that parse_event_action lets
\* through in a module's protocol version is never refused afterwards by validate_reaction_action.
ReactionLayersAgree ==
  out.kind = "react" /\ out.result.ok =>
    ValidateReactionAction(Reactor(job.version), [module |-> "mod", request |-> 1, ref |-> 1], 1, job.action)

\* What the running host honours of a manifest d: every declared method passes validate_invoke, and
\* an event of every declared subscription is delivered.
Honoured(d) ==
  /\ d.schema = 6 => \A m \in Range(d.methods) : ValidateInvoke(d, m, TRUE) = "ok"
  /\ \A s \in Range(d.subscriptions) : Delivered(d, s)

\* What validate_manifest_at accepts the running host honours: validate_invoke lets every declared
\* method through, and an event of every declared subscription is delivered.  The next start finds
\* the module again exactly when it was accepted.
GrantsHonoured ==
  out.kind = "manifest" =>
    /\ out.result.ok <=> DiscoverModules({Installed(job.manifest)}) = Accepted({Installed(job.manifest)})
    /\ out.result.ok => Honoured(out.result.value)

\* An archive that inspect_into accepts is staged exactly: every file entry stands at its own host
\* path although paths have several spellings, below directories only, with one root manifest; a refused archive leaves no stage.
StagedAs(zip, result) ==
  /\ result.ok <=> InspectPending(zip, 100, TRUE, TRUE, TRUE).stage = "owned"
  /\ result.ok =>
    LET tree == result.value.tree
        entries == zip.entries
        files == {i \in DOMAIN entries : ~entries[i].dir} IN
    /\ \A i \in files : tree[Components(entries[i].path)] = [entry |-> i]
    /\ Cardinality({p \in DOMAIN tree : tree[p] # Directory}) = result.value.files
    /\ \A p \in DOMAIN tree : \A n \in 1 .. Len(p) - 1 : tree[SubSeq(p, 1, n)] = Directory
    /\ \A p \in DOMAIN tree : Last(p) = "module.json" /\ tree[p] # Directory => p = <<"module.json">>
StagedTreeExact == out.kind = "archive" => StagedAs(job.zip, out.result)

\* The runtime's policy and the acquirer judge one message by two rules: what authorize_sensitive_message
\* lets through, acquire never calls a stranger's, and nothing is acquired from a message the policy
\* would refuse but for being edited.  What is acquired is every byte of the document, however it was
\* declared and framed, and inspect_pending never refuses it for its size.
AcquiredAs(m, document, result) ==
  LET zip == CHOOSE z \in Archives : TRUE IN
  /\ AuthorizeSensitiveMessage("ModuleMutation", m) => result.ok \/ result.error # "NotSavedMessage"
  /\ result.ok => /\ AuthorizeSensitiveMessage("ModuleMutation", [m EXCEPT !.edited = FALSE])
                  /\ Broken \notin Range(document.chunks)
                  /\ result.value = Total(document.chunks)
                  /\ InspectPending(zip, result.value, TRUE, TRUE, TRUE) = InspectPending(zip, 0, TRUE, TRUE, TRUE)
AcquiredWhole == out.kind = "acquire" => AcquiredAs(job.message, job.document, out.result)

\* Two plans that differ in anything the owner reviews have different canonical bytes, so an approval
\* bound to a fingerprint stands for one plan.
FingerprintInjective ==
  out.kind = "plan" =>
    \A p \in Plans : p # job.plan => CanonicalFingerprint(p) # out.result

Harmless == {"ReadOnly", "RestrictedProcess"}
Fresh(m) == ~m.edited /\ m.id > 0 /\ (m.sender = "owner" \/ (m.sender = "self" /\ m.outgoing))
\* An action has the authority of the message m that it was routed from.
Authorised(m, action) ==
  LET effect == ExecuteAction(m, action) IN
  /\ action.kind = "builtin" /\ action.name = "lm" /\ LmRequestMutates(effect) => Fresh(m) /\ m.peer = "saved"
  /\ effect = "reboot" => Fresh(m)
  /\ action.kind = "builtin" /\ Risk[action.name] \notin Harmless => m.words[1] = action.name
  /\ action # NoAction /\ DispatchCommand(m.words[1], Tail(m.words)) # NoAction =>
       action.kind = "builtin" /\ action.name = m.words[1]

\* Only a fresh message of the owner changes modules (and only in Saved Messages) or reboots; a
\* command that changes anything is reached by its own name alone, never through an alias; and no
\* module or alias takes the place of a built-in command.
AuthorityKept == out.kind = "command" => Authorised(job.message, out.result)

Covered(text, e) == {i \in DOMAIN text : Before(text, i) >= e.offset /\ Before(text, i + 1) <= e.offset + e.length}
Aligned(text, entity, reported) ==
  LET span == ArgumentSpan(text)
      covered == Covered(text, entity) IN
  IF span[1] # 0 /\ covered \subseteq span[1] .. span[2]
  THEN \E f \in reported : /\ reported = {f}
                            /\ Covered(ArgumentText(text), f) = {i - span[1] + 1 : i \in covered}
  ELSE reported = {}
\* A custom emoji inside a module command's argument is reported at the same characters of the
\* argument, whatever precedes it takes one or two UTF-16 units; any other is left out.
EntitiesAligned == out.kind = "entity" => Aligned(job.text, job.entity, out.result)

\* A press comes back to the module that made the button with the data it gave, although module data
\* may hold the separator; and the data of every accepted button fits the Bot API's limit.
PressedAs(module, data, sent) ==
  sent # <<>> =>
    LET press(user) == [from |-> user, data |-> sent, chat_id |-> 0, message_id |-> 0, inline_message_id |-> 1]
        handled == HandleCallbackQuery(press("self"), "self") IN
    /\ Len(sent) <= CallbackDataLimit
    /\ handled.kind = "dispatched" /\ handled.event = [module |-> module, data |-> data]
    /\ ModuleIdFromDataPrefix(DataPrefix(module)) = handled.event.module
    /\ HandleCallbackQuery(press("other"), "self").kind = "refused"
PressRoundTrip == out.kind = "button" => PressedAs(job.module, job.data, out.result)

\* The chat id a module is given names the same peer when the module hands it back: a bot edit
\* is entered in the ledger, and a menu deleted, where the command came from.
ChatIdOf(peer, named) ==
  /\ named = peer
  /\ DeleteTarget([chat_id |-> BotApiDialogId(peer), message_id |-> 1, inline_message_id |-> 0]) = "addressed"
ChatIdRoundTrip == out.kind = "peer" => ChatIdOf(job.peer, out.result)

\* However a Bot API reply is framed, no more than its bound is read, a reply of at most the bound is
\* judged by its content alone, and an identity is believed only if it is that of a bot with a valid name.
ReadAs(r, read) ==
  LET arrived == r.sent = "ok" /\ r.success /\ r.declared = -1 IN
  /\ read.send.ok \/ read.me.ok => Total(r.chunks) <= MAX_GET_ME_BODY_BYTES
  /\ read.updates.ok => Total(r.chunks) <= MAX_UPDATES_BODY_BYTES
  /\ arrived /\ Total(r.chunks) <= MAX_GET_ME_BODY_BYTES =>
       (read.send.ok <=> r.json /\ r.ok) /\ (read.updates.ok <=> r.json /\ r.ok)
  /\ read.me.ok => read.send.ok /\ r.is_bot /\ r.username.bot /\ r.username.word /\ r.username.bytes \in 5 .. 32
ReplyBounded == out.kind = "reply" => ReadAs(job.reply, out.result)

\* A module that answers a press with what the press carried edits the message that was pressed, be it
\* a chat's or an inline one, and the edit ledger names that message or nothing.  It is told of success
\* exactly when the Bot API confirmed the call, and of a rejection only when the Bot API answered.
EditedAs(known, p, text, r, result) ==
  LET sent == text.units \in 1 .. 4096
      confirmed == r.sent = "ok" /\ r.success /\ r.json /\ r.ok /\ Total(r.chunks) <= MAX_GET_ME_BODY_BYTES
      peers == {x \in known : BotApiDialogId(x) = p.chat_id} IN
  /\ result.edit.told.ok <=> sent /\ confirmed
  /\ result.answer.ok <=> text.units <= 200 /\ confirmed
  /\ result.send.ok <=> sent /\ confirmed /\ p.inline_message_id = 0
  /\ \A told \in {result.edit.told, result.answer, result.send} :
       told.value = "rejected" => r.sent = "ok" /\ ~(r.success /\ r.ok)
  /\ result.edit.edited = IF p.inline_message_id # 0 THEN <<p.inline_message_id>> ELSE <<p.chat_id, p.message_id>>
  /\ result.edit.told.ok => result.edit.ledger = {<<x, p.message_id>> : x \in peers}
  /\ ~result.edit.told.ok => result.edit.ledger = {}
PressedMessageEdited == out.kind = "press" => EditedAs(SomePeers, job.press, job.text, job.reply, out.result)

TakenFrom(answer, result) ==
  Size(answer.before \o answer.token) <= MAX_RESPONSE_BYTES =>
    /\ result = answer.token
    /\ ClassifyBotfatherResponse(Say(answer), {"FloodWait"}) = "Success" <=> answer.token # NoToken
\* The token in BotFather's answer is taken whole, whatever stands around it, and nothing else is taken for one.
TokenWhole == out.kind = "botfather" => TakenFrom(job.answer, out.result)

\* What the codecs and the executor promise one another, exchange by exchange and byte by byte, and
\* what crosses to the Bot API and to BotFather comes back to the module, chat and message it was for.
CodecInv ==
  /\ ExchangesComplete /\ Base64Exact /\ RepliesDelivered /\ ReactionLayersAgree
  /\ PressRoundTrip /\ ChatIdRoundTrip /\ ReplyBounded /\ PressedMessageEdited /\ TokenWhole

\* What the owner approves is what is installed: the document is acquired whole, the staged tree is the
\* archive, and one fingerprint stands for one plan.
SourceInv == AcquiredWhole /\ StagedTreeExact /\ FingerprintInjective

\* A command runs with the authority of its message, and its entities stay on their characters.
RoutingInv == AuthorityKept /\ EntitiesAligned

=============================================================================
