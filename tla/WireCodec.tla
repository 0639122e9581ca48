-------------------------------- MODULE WireCodec --------------------------------
(***************************************************************************)
(* The JSON lines Lavis and its modules exchange: the strict v6 codec, the *)
(* v2-v5 codec, the base64 framing of raw Telegram bodies and the checks   *)
(* on the reactions a module asks for.                                     *)
(*                                                                         *)
(* Text is kept as its length and character class, a JSON value as the     *)
(* four measures the guards look at, a line as its fields.  The limits are *)
(* the code's own numbers.  A definition X_Y that precedes X is a faulty   *)
(* variant of X.                                                           *)
(***************************************************************************)
EXTENDS Integers, Sequences, SequencesExt, FiniteSets, FiniteSetsExt

MAX_LINE_BYTES == 64 * 1024
MAX_RESULT_BYTES == 32 * 1024
MAX_ERROR_MESSAGE_CHARS == 256
MAX_LOG_MESSAGE_CHARS == 1024
MAX_EVENT_ACTIONS == 1
MAX_REACTIONS_PER_ACTION == 3
MAX_ACTION_NOTE_CHARS == 128
MAX_EMOJI_CHARS == 32
V6_MAX_JSON_DEPTH == 8
V6_MAX_JSON_STRING_BYTES == 8 * 1024
V6_MAX_JSON_COLLECTION_ITEMS == 64
V6_ALPHA_CONTRACT_REVISION == 2
V6_HOST_CONTRACT_REVISION == 3
V6_INLINE_SINCE == 5
V6_CURRENT_CONTRACT_REVISION == 5
MAX_RAW_TL_BODY_BYTES == 40 * 1024
RAW_BASE64_CHUNK_CHARS == 7 * 1024

Refused(error) == [ok |-> FALSE, error |-> error]
Accepted(value) == [ok |-> TRUE, value |-> value]

(***************************************************************************)
(* JSON values: nesting depth, longest collection, longest string, bytes.  *)
(***************************************************************************)
Total(lengths) == FoldLeft(LAMBDA sum, n : sum + n, 0, lengths)
Scalar(bytes) == [depth |-> 0, items |-> 0, str |-> bytes, bytes |-> bytes]
\* An object or array of these members, with `extra' bytes of punctuation and names.
Nest(members, extra) ==
  [depth |-> 1 + Max({0} \cup {m.depth : m \in Range(members)}),
   items |-> Max({Len(members)} \cup {m.items : m \in Range(members)}),
   str |-> Max({0} \cup {m.str : m \in Range(members)}),
   bytes |-> extra + Total([i \in DOMAIN members |-> members[i].bytes])]

GuardV6Json(value, at) ==
  /\ at + value.depth <= V6_MAX_JSON_DEPTH
  /\ value.str <= V6_MAX_JSON_STRING_BYTES
  /\ value.items <= V6_MAX_JSON_COLLECTION_ITEMS

ParseV6Value(line) ==
  IF line.bytes > MAX_LINE_BYTES THEN Refused("LineTooLarge")
  ELSE IF GuardV6Json(line, 0) THEN Accepted(line) ELSE Refused("ProtocolDecode")

ValidateV6Output(value) == GuardV6Json(value, 0) /\ value.bytes <= MAX_RESULT_BYTES

(***************************************************************************)
(* Identifiers: length, decimal digits only, letters-digits-dashes only.   *)
(***************************************************************************)
IsV6CallId(id) == id.len \in 1 .. 64 /\ id.word
IsV6RequestId(id) == id.len \in 1 .. 64 /\ id.digits
ValidateRequestId(line) == "request_id" \in line.fields /\ IsV6RequestId(line.request_id)

ValidateV6ContractRevision(revision) ==
  revision \in V6_ALPHA_CONTRACT_REVISION .. V6_CURRENT_CONTRACT_REVISION

(***************************************************************************)
(* A line from a module: version, type, the fields it holds besides these, *)
(* the two ids, the length of its text, its parameters and its actions.    *)
(***************************************************************************)
LifecycleFields ==
  [initialized |-> {"request_id", "module_id"}, result |-> {"request_id"},
   error |-> {"request_id", "code", "message"}, health |-> {"request_id"},
   log |-> {"request_id", "level", "message"}, event_result |-> {"request_id", "actions"}]
InvokeFields == {"call_id", "method", "params"}
OptionalFields(type) == IF type = "result" THEN {"text"} ELSE {}
Message(line) == [type |-> line.type, request_id |-> line.request_id, call_id |-> line.call_id]

ParseReaction(r) == r.type \in {"emoji", "custom_emoji"}

ParseEventAction(action, version) ==
  /\ action.type = "message.react"
  /\ \/ version = 3 /\ action.single /\ Len(action.reactions) = 1
     \/ version >= 4 /\ ~action.single /\ Len(action.reactions) <= MAX_REACTIONS_PER_ACTION
  /\ \A i \in DOMAIN action.reactions : ParseReaction(action.reactions[i])

V6Lifecycle(line) ==
  /\ line.version = 6 /\ IsV6RequestId(line.request_id)
  /\ line.type = "error" => line.text <= MAX_ERROR_MESSAGE_CHARS
  /\ line.type = "log" => line.text <= MAX_LOG_MESSAGE_CHARS
  /\ line.type = "event_result" => /\ Len(line.actions) <= MAX_EVENT_ACTIONS
                                   /\ \A i \in DOMAIN line.actions : ParseEventAction(line.actions[i], 6)

\* parse_v6_wire guards the line's own strings too; deny_unknown_fields: every
\* required field, and no field the type does not have.
ParseV6Wire(line) ==
  /\ line.text <= V6_MAX_JSON_STRING_BYTES
  /\ \A i \in DOMAIN line.actions : line.actions[i].note <= V6_MAX_JSON_STRING_BYTES
  /\ line.type \in DOMAIN LifecycleFields
  /\ LifecycleFields[line.type] \subseteq line.fields
  /\ line.fields \subseteq LifecycleFields[line.type] \cup OptionalFields(line.type)

V6WireInvoke(line) ==
  /\ line.version = 6 /\ line.fields = InvokeFields
  /\ IsV6CallId(line.call_id) /\ line.text > 0
  /\ GuardV6Json(line.params, 0)

\* The first revision that has this call.
InvokeRevision(line) ==
  IF line.type = "host.invoke" THEN V6_HOST_CONTRACT_REVISION ELSE V6_ALPHA_CONTRACT_REVISION

ParseV6InboundFrame(line, revision) ==
  LET guarded == ParseV6Value(Nest(<<line.params>>, line.bytes - line.params.bytes)) IN
  IF ~ValidateV6ContractRevision(revision) THEN Refused("ProtocolDecode")
  ELSE IF ~guarded.ok THEN guarded
  ELSE IF \/ /\ line.type \in {"host.invoke", "telegram.invoke"}
             /\ revision >= InvokeRevision(line) /\ V6WireInvoke(line)
          \/ /\ line.type \notin {"host.invoke", "telegram.invoke"}
             /\ ParseV6Wire(line) /\ V6Lifecycle(line)
  THEN Accepted(Message(line)) ELSE Refused("ProtocolDecode")

\* Module calls only, as the conformance tool reads them.
ParseV6ModuleFrame(line, revision) ==
  LET frame == ParseV6InboundFrame(line, revision) IN
  IF frame.ok /\ frame.value.type \in {"host.invoke", "telegram.invoke"}
  THEN frame ELSE Refused("ProtocolDecode")

(***************************************************************************)
(* Results Lavis sends to a module: value on success, otherwise an error   *)
(* of some kind.                                                           *)
(***************************************************************************)
ErrorJson(error) == Nest(<<Scalar(error.kind), Scalar(error.message)>>, 80)
ResultLine(type, id, r) ==
  [type |-> type, call_id |-> id, ok |-> r.ok, field |-> IF r.ok THEN "result" ELSE "error",
   body |-> r.value,
   json |-> Nest(<<IF r.ok THEN r.value ELSE ErrorJson(r.value), Scalar(id.len)>>, 80)]

SerializeV6CoreResult(type, id, r) ==
  LET line == ResultLine(type, id, r) IN
  IF /\ IsV6CallId(id) /\ (r.ok \/ r.value.kind > 0)
     /\ GuardV6Json(line.json, 0) /\ line.json.bytes <= MAX_LINE_BYTES
  THEN Accepted(line) ELSE Refused("ProtocolEncode")

ParseV6HostResult(line) ==
  IF /\ line.field = (IF line.ok THEN "result" ELSE "error")
     /\ IsV6CallId(line.call_id) /\ (line.ok \/ line.body.kind > 0)
  THEN Accepted([type |-> line.type, call_id |-> line.call_id, ok |-> line.ok, value |-> line.body])
  ELSE Refused("ProtocolDecode")

ParseV6CoreFrame(line, revision) ==
  LET guarded == ParseV6Value(line.json) IN
  IF ~ValidateV6ContractRevision(revision) THEN Refused("ProtocolDecode")
  ELSE IF ~guarded.ok THEN guarded
  ELSE IF \/ line.type = "telegram.result"
          \/ line.type = "host.result" /\ revision >= V6_HOST_CONTRACT_REVISION
  THEN ParseV6HostResult(line) ELSE Refused("ProtocolDecode")

(***************************************************************************)
(* Protocols 2 to 5: what Lavis may send in a version, and what it reads.  *)
(***************************************************************************)
SerializeFor(message, version) ==
  CASE message = "message.created" -> version >= 3
    [] message = "message.edited" -> version >= 4
    [] message = "telegram.result" -> version = 5
    [] OTHER -> TRUE

V6OutboundSerialize(message, id, bytes) == IsV6RequestId(id) /\ bytes <= MAX_LINE_BYTES

LegacyFields(type, version) ==
  CASE type = "result" -> {"request_id", "text"}
    [] type = "event_result" -> {"request_id"} \cup (IF version >= 4 THEN {} ELSE {"actions"})
    [] type = "telegram.invoke" -> {"request_id"} \cup InvokeFields
    [] OTHER -> LifecycleFields[type]

LegacyType(type, version) ==
  CASE type = "event_result" -> version >= 3
    [] type = "telegram.invoke" -> version = 5
    [] OTHER -> type \in {"initialized", "result", "error", "health", "log"}

LegacyText(line) ==
  CASE line.type = "result" -> line.text <= MAX_RESULT_BYTES
    [] line.type = "error" -> line.text <= MAX_ERROR_MESSAGE_CHARS
    [] line.type = "log" -> line.text <= MAX_LOG_MESSAGE_CHARS
    [] OTHER -> TRUE

ParseModuleLine(line, version) ==
  IF line.bytes > MAX_LINE_BYTES THEN Refused("LineTooLarge")
  ELSE IF line.version # version THEN Refused("ProtocolVersionMismatch")
  ELSE IF ~LegacyType(line.type, version) THEN Refused("ProtocolDecode")
  ELSE IF ~(ValidateRequestId(line) /\ LegacyFields(line.type, version) \subseteq line.fields) THEN Refused("ProtocolDecode")
  ELSE IF ~LegacyText(line) THEN Refused("ResultTooLarge")
  ELSE IF /\ line.type = "telegram.invoke" => IsV6CallId(line.call_id)
          /\ line.type = "event_result" /\ "actions" \in line.fields =>
               /\ Len(line.actions) <= MAX_EVENT_ACTIONS
               /\ \A i \in DOMAIN line.actions : ParseEventAction(line.actions[i], version)
  THEN Accepted(Message(line)) ELSE Refused("ProtocolDecode")

(***************************************************************************)
(* Base64 over sextets 0..63; Pad is '=', any larger number another byte.  *)
(***************************************************************************)
Pad == 64
Base64Value(byte) == IF byte \in 0 .. 63 THEN byte ELSE -1

EncodeBase64(input) ==
  LET Byte(i) == IF i \in DOMAIN input THEN input[i] ELSE 0
      Quad(k) ==
        LET value == Byte(3*k - 2) * 65536 + Byte(3*k - 1) * 256 + Byte(3*k)
            left == Len(input) - 3 * (k - 1) IN
        << (value \div 262144) % 64, (value \div 4096) % 64,
           IF left >= 2 THEN (value \div 64) % 64 ELSE Pad,
           IF left >= 3 THEN value % 64 ELSE Pad >> IN
  FlattenSeq([k \in 1 .. (Len(input) + 2) \div 3 |-> Quad(k)])

\* The bits a padded quad does not use must be zero.
CanonicalTail(b, c, cPad, dPad) ==
  /\ cPad => b % 16 = 0
  /\ (dPad /\ ~cPad) => c % 4 = 0

DecodeBase64(s) ==
  LET quads == Len(s) \div 4
      At(k, i) == s[4 * (k - 1) + i]
      Value(k, i) == IF At(k, i) = Pad THEN 0 ELSE Base64Value(At(k, i))
      QuadOk(k) ==
        /\ Base64Value(At(k, 1)) >= 0 /\ Base64Value(At(k, 2)) >= 0
        /\ Value(k, 3) >= 0 /\ Value(k, 4) >= 0
        /\ ~(k # quads /\ At(k, 4) = Pad) /\ ~(At(k, 3) = Pad /\ At(k, 4) # Pad)
        /\ CanonicalTail(Value(k, 2), Value(k, 3), At(k, 3) = Pad, At(k, 4) = Pad)
      Quad(k) ==
        << (Value(k, 1) * 4 + Value(k, 2) \div 16) % 256 >>
        \o (IF At(k, 3) = Pad THEN <<>> ELSE << (Value(k, 2) * 16 + Value(k, 3) \div 4) % 256 >>)
        \o (IF At(k, 4) = Pad THEN <<>> ELSE << (Value(k, 3) * 64 + Value(k, 4)) % 256 >>) IN
  IF s # <<>> /\ Len(s) % 4 = 0 /\ \A k \in 1 .. quads : QuadOk(k)
  THEN Accepted(FlattenSeq([k \in 1 .. quads |-> Quad(k)]))
  ELSE Refused("InvalidParams")

(***************************************************************************)
(* Raw Telegram bodies: only lengths matter.  Chunks is the sequence of    *)
(* chunk lengths, padding the number of '=' at the end.                    *)
(***************************************************************************)
Ceil(n, d) == (n + d - 1) \div d

DecodeRawTlBody(chunks, padding) ==
  LET encoded == Total(chunks)
      body == (encoded \div 4) * 3 - padding IN
  IF /\ chunks # <<>>
     /\ \A i \in DOMAIN chunks : chunks[i] \in 1 .. RAW_BASE64_CHUNK_CHARS
     /\ encoded <= Ceil(MAX_RAW_TL_BODY_BYTES, 3) * 4 /\ encoded % 4 = 0
     /\ body \in 4 .. MAX_RAW_TL_BODY_BYTES /\ body % 4 = 0
  THEN Accepted(body) ELSE Refused("InvalidParams")

RawChunks_Wide(encoded) == [i \in 1 .. Ceil(encoded, 9000) |-> IF i * 9000 <= encoded THEN 9000 ELSE encoded % 9000]

RawChunks(encoded) ==
  [i \in 1 .. Ceil(encoded, RAW_BASE64_CHUNK_CHARS) |->
     IF i * RAW_BASE64_CHUNK_CHARS <= encoded THEN RAW_BASE64_CHUNK_CHARS ELSE encoded % RAW_BASE64_CHUNK_CHARS]

\* V6RpcOutput::raw: no depth, string or collection guard, only the size.
V6RpcOutputRaw(value) ==
  IF value.bytes <= MAX_LINE_BYTES - 1024 THEN Accepted(value) ELSE Refused("InvalidResponse")

V6RpcOutputNew(value) ==
  IF ValidateV6Output(value) THEN Accepted(value) ELSE Refused("InvalidResponse")

RawTlResult(bytes) ==
  LET chunks == RawChunks(Ceil(bytes, 3) * 4)
      texts == [i \in DOMAIN chunks |-> Scalar(chunks[i] + 3)]
      array == IF texts = <<>> THEN [Scalar(0) EXCEPT !.depth = 1] ELSE Nest(texts, 2) IN
  IF bytes > MAX_RAW_TL_BODY_BYTES THEN Refused("InvalidResponse")
  ELSE V6RpcOutputRaw(Nest(<<Scalar(8), Scalar(3), array>>, 60))

RawInvokePipeline(chunks, padding, dc, home) ==
  LET body == DecodeRawTlBody(chunks, padding)
      target == IF dc = 0 THEN home ELSE dc IN
  IF ~body.ok THEN body
  ELSE IF dc # 0 /\ dc \notin 1 .. 100 THEN Refused("InvalidParams")
  ELSE IF target = 0 THEN Refused("Transport") ELSE Accepted([dc |-> target, body |-> body.value])

(***************************************************************************)
(* The typed methods: parameters and the bounded summaries they return.    *)
(***************************************************************************)
MAX_PAGE_LIMIT == 100
ValidateLimit(limit) == limit \in 1 .. MAX_PAGE_LIMIT
ParseDecimalI64(text) == text.len \in 1 .. 20 /\ text.decimal /\ text.fits
\* Only counts leave the host, never users, chats or access hashes.
Summary(counts) == V6RpcOutputNew(Nest([i \in 1 .. counts |-> Scalar(20)], 20 * counts))
NotModifiedResult == V6RpcOutputNew(Nest(<<Scalar(12)>>, 10))
ContactsSummary(reply) == IF reply = "not_modified" THEN NotModifiedResult ELSE Summary(5)
HistorySummary(reply) == IF reply = "not_modified" THEN NotModifiedResult ELSE Summary(6)
DialogsSummary(reply) == IF reply = "not_modified" THEN NotModifiedResult ELSE Summary(6)

\* decode::<Params>: the guards once more, then the exact fields.
DecodeParams(p) == GuardV6Json(p.json, 0) /\ p.fields
MapRpcError(name, value) == [error |-> "Rpc", retry |-> IF name = "FLOOD_WAIT" THEN value ELSE 0]
MapInvocationError(reply) == IF reply = "flood" THEN MapRpcError("FLOOD_WAIT", 30) ELSE [error |-> "Transport", retry |-> 0]
Failed(reply) == reply \in {"flood", "broken"}
Answer(reply, summary) == IF Failed(reply) THEN Refused(MapInvocationError(reply).error) ELSE summary

UpdateStatus(p, reply) == Answer(reply, V6RpcOutputNew(Scalar(5)))
GetContacts(p, reply) ==
  IF ParseDecimalI64(p.hash) THEN Answer(reply, ContactsSummary(reply)) ELSE Refused("InvalidParams")
GetHistory(p, reply) ==
  IF p.peer = "self" /\ ValidateLimit(p.limit) /\ ParseDecimalI64(p.hash)
  THEN Answer(reply, HistorySummary(reply)) ELSE Refused("InvalidParams")
GetDialogs(p, reply) ==
  IF ValidateLimit(p.limit) /\ ParseDecimalI64(p.hash)
  THEN Answer(reply, DialogsSummary(reply)) ELSE Refused("InvalidParams")
RawInvoke(p, reply) ==
  LET sent == RawInvokePipeline(p.chunks, p.padding, p.dc, p.home) IN
  IF sent.ok THEN Answer(reply, RawTlResult(sent.value.body)) ELSE sent

\* The bytes that come back are modelled as as many as were sent.
Execute(method, p, reply) ==
  IF ~DecodeParams(p) THEN Refused("InvalidParams") ELSE
  CASE method = "account.updateStatus" -> UpdateStatus(p, reply)
    [] method = "contacts.getContacts" -> GetContacts(p, reply)
    [] method = "messages.getHistory" -> GetHistory(p, reply)
    [] method = "messages.getDialogs" -> GetDialogs(p, reply)
    [] method = "raw.invoke" -> RawInvoke(p, reply)

(***************************************************************************)
(* Reactions.                                                              *)
(***************************************************************************)
EventScopeValidate(scope, module, request, action) ==
  scope.module = module /\ scope.request = request /\ scope.ref = action.ref

ValidReaction(r) ==
  IF r.type = "emoji" THEN r.text.len \in 1 .. MAX_EMOJI_CHARS /\ r.text.plain
                      ELSE r.text.len >= 1 /\ r.text.digits /\ r.text.fits

ValidateReactionAction(d, scope, request, action) ==
  /\ "message.react" \in Range(d.actions) /\ "message.react" \in Range(d.capabilities)
  /\ EventScopeValidate(scope, d.id, request, action)
  /\ action.note <= MAX_ACTION_NOTE_CHARS
  /\ Len(action.reactions) <= MAX_REACTIONS_PER_ACTION
  /\ d.schema = 3 => Len(action.reactions) = 1
  /\ IsInjective(action.reactions)
  /\ \A i \in DOMAIN action.reactions : ValidReaction(action.reactions[i])

ModuleCanReceiveEvent(d, event) ==
  /\ d.schema >= 3 /\ (event = "message.created" \/ d.schema >= 4)
  /\ event \in Range(d.subscriptions) /\ "message.read" \in Range(d.capabilities)

=============================================================================
