----------------------------- MODULE CodecProofs -----------------------------
(***************************************************************************)
(* The wires of Lavis, for every input: the frames of the module protocols *)
(* and the exchanges they belong to, base64, the replies of the executor,  *)
(* reactions; and the companion bot's callbacks, chat ids and replies, and *)
(* BotFather's token.  At the end, what the run checks in every state.     *)
(***************************************************************************)
EXTENDS ProtocolProofs

(***************************************************************************)
(* The companion bot's boundaries.                                         *)
(***************************************************************************)
\* A peer as grammers has it: a user, a chat whose id is below the channels', or a channel.
AnyPeers ==
  {p \in [kind : {"user", "chat", "channel"}, id : Nat \ {0}] : p.kind = "chat" => p.id < ChannelBase}

\* The chat id a peer is told by names the same peer, and no id is zero.
LEMMA DialogIdNamesPeer ==
  ASSUME NEW p \in AnyPeers
  PROVE  /\ BotApiDialogId(p) \in Int /\ BotApiDialogId(p) # 0
         /\ PeerIdFromBotChatId(BotApiDialogId(p)) = p
<1>1. p.kind \in {"user", "chat", "channel"} /\ p.id \in Nat /\ p.id > 0 /\ p = [kind |-> p.kind, id |-> p.id]
      /\ (p.kind = "chat" => p.id < ChannelBase)
  BY DEF AnyPeers
<1>2. CASE p.kind = "user"
  BY <1>1, <1>2 DEF BotApiDialogId, PeerIdFromBotChatId, Peer, ChannelBase
<1>3. CASE p.kind = "chat"
  BY <1>1, <1>3 DEF BotApiDialogId, PeerIdFromBotChatId, Peer, ChannelBase
<1>4. CASE p.kind = "channel"
  BY <1>1, <1>4 DEF BotApiDialogId, PeerIdFromBotChatId, Peer, ChannelBase
<1> QED BY <1>1, <1>2, <1>3, <1>4

\* For every peer: the chat id a module is given names that peer when the module hands it back, and
\* with a message the message is addressed.
THEOREM ChatIdsComeBack ==
  ASSUME NEW p \in AnyPeers
  PROVE  ChatIdOf(p, PeerIdFromBotChatId(BotApiDialogId(p)))
<1>1. /\ BotApiDialogId(p) \in Int /\ BotApiDialogId(p) # 0
      /\ PeerIdFromBotChatId(BotApiDialogId(p)) = p
  BY DialogIdNamesPeer
<1>2. p.kind # "none"
  BY DEF AnyPeers
<1> QED BY <1>1, <1>2 DEF ChatIdOf, DeleteTarget

\* A part of a sequence, and two sequences one after the other.
LEMMA PartOf ==
  ASSUME NEW X, NEW s \in Seq(X), NEW a \in Nat \ {0}, NEW b \in Nat, a <= b + 1, b <= Len(s)
  PROVE  /\ SubSeq(s, a, b) \in Seq(X) /\ Len(SubSeq(s, a, b)) = b - a + 1
         /\ \A i \in 1 .. (b - a + 1) : SubSeq(s, a, b)[i] = s[a + i - 1]
<1>1. Len(s) \in Nat /\ a \in Int /\ b \in Int
  BY LenProperties
<1>2. ASSUME NEW i \in a .. b PROVE s[i] \in X
  <2>1. i \in 1 .. Len(s)
    BY <1>1
  <2> QED BY <2>1, ElementOfSeq
<1>3. /\ SubSeq(s, a, b) \in Seq(X)
      /\ Len(SubSeq(s, a, b)) = IF a <= b THEN b - a + 1 ELSE 0
      /\ \A i \in 1 .. b - a + 1 : SubSeq(s, a, b)[i] = s[a + i - 1]
  BY <1>1, <1>2, SubSeqProperties
<1>4. (IF a <= b THEN b - a + 1 ELSE 0) = b - a + 1
  BY <1>1
<1> QED BY <1>3, <1>4

LEMMA Joined ==
  ASSUME NEW X, NEW s \in Seq(X), NEW t \in Seq(X), NEW whole, whole = s \o t
  PROVE  /\ Len(s) \in Nat /\ Len(t) \in Nat
         /\ whole \in Seq(X) /\ Len(whole) = Len(s) + Len(t) /\ DOMAIN whole = 1 .. (Len(s) + Len(t))
         /\ \A i \in 1 .. Len(s) : whole[i] = s[i]
         /\ \A i \in 1 .. Len(t) : whole[Len(s) + i] = t[i]
<1>1. Len(s) \in Nat /\ Len(t) \in Nat
  BY LenProperties
<1> DEFINE n == Len(s)
           m == Len(t)
<1>2. /\ whole \in Seq(X) /\ Len(whole) = n + m
      /\ \A i \in 1 .. n + m : whole[i] = IF i <= n THEN s[i] ELSE t[i - n]
  BY ConcatProperties
<1>3. DOMAIN whole = 1 .. (n + m)
  BY <1>2, LenProperties
<1>4. ASSUME NEW i \in 1 .. m PROVE whole[n + i] = t[i]
  <2> DEFINE k == n + i
  <2>1. k \in 1 .. n + m /\ ~(k <= n) /\ k - n = i
    BY <1>1
  <2> HIDE DEF n, m, k
  <2>2. whole[k] = t[i]
    BY <1>2, <2>1
  <2> QED BY <2>2 DEF k
<1>5. ASSUME NEW i \in 1 .. n PROVE whole[i] = s[i]
  <2>1. i \in 1 .. n + m /\ i <= n
    BY <1>1
  <2> HIDE DEF n, m
  <2> QED BY <1>2, <2>1
<1> QED BY <1>1, <1>2, <1>3, <1>4, <1>5

\* A split at the first separator: what was put before it, and what was put after it.
LEMMA FirstBarSplits ==
  ASSUME NEW C, Separator \in C, NEW id \in Seq(C), NEW data \in Seq(C), \A i \in DOMAIN id : id[i] # Separator
  PROVE  LET whole == DataPrefix(id) \o data IN
         /\ Bars(whole) # {}
         /\ SplitOnce(whole) = [module |-> id, data |-> data]
         /\ Len(whole) = Len(id) + 1 + Len(data)
<1> DEFINE bar == Separator
           whole == DataPrefix(id) \o data
           n == Len(id)
<1>1. n \in Nat /\ Len(data) \in Nat /\ DOMAIN id = 1 .. n /\ DOMAIN data = 1 .. Len(data)
  BY LenProperties
<1>2. bar \in C /\ \A i \in 1 .. n : id[i] # bar
  BY <1>1
<1> DEFINE prefix == Append(id, bar)
<1>3. DataPrefix(id) = prefix /\ Bars(whole) = {i \in DOMAIN whole : whole[i] = bar}
  BY DEF DataPrefix, Bars
<1> HIDE DEF bar
<1>4. /\ prefix \in Seq(C) /\ Len(prefix) = n + 1 /\ prefix[n + 1] = bar
      /\ \A i \in 1 .. n : prefix[i] = id[i]
  BY <1>1, <1>2, AppendProperties
<1> HIDE DEF prefix
<1>5. /\ whole \in Seq(C) /\ Len(whole) = n + 1 + Len(data) /\ DOMAIN whole = 1 .. (n + 1 + Len(data))
      /\ \A i \in 1 .. n + 1 : whole[i] = prefix[i]
      /\ \A i \in 1 .. Len(data) : whole[n + 1 + i] = data[i]
  <2>1. whole = prefix \o data
    BY <1>3
  <2> HIDE DEF whole
  <2>2. /\ whole \in Seq(C) /\ Len(whole) = Len(prefix) + Len(data)
        /\ DOMAIN whole = 1 .. (Len(prefix) + Len(data))
        /\ \A i \in 1 .. Len(prefix) : whole[i] = prefix[i]
        /\ \A i \in 1 .. Len(data) : whole[Len(prefix) + i] = data[i]
    <3>1. prefix \in Seq(C)
      BY <1>4
    <3> QED BY <2>1, <3>1, Joined
  <2> QED BY <1>4, <2>2
<1> HIDE DEF whole
<1>6. n + 1 \in Bars(whole) /\ \A i \in Bars(whole) : i >= n + 1
  <2>1. n + 1 \in 1 .. (n + 1 + Len(data)) /\ n + 1 \in 1 .. n + 1
    BY <1>1
  <2>2. whole[n + 1] = bar
    BY <1>4, <1>5, <2>1
  <2>3. ASSUME NEW i \in Bars(whole), ~(i >= n + 1) PROVE FALSE
    <3>1. i \in 1 .. n /\ whole[i] = bar
      BY <1>1, <1>3, <1>5, <2>3
    <3>2. i \in 1 .. n + 1
      BY <1>1, <3>1
    <3> QED BY <1>2, <1>4, <1>5, <3>1, <3>2
  <2> QED BY <1>3, <1>5, <2>1, <2>2, <2>3
<1>7. Min(Bars(whole)) = n + 1
  <2>1. Bars(whole) \subseteq Int
    BY <1>1, <1>3, <1>5
  <2> HIDE DEF n
  <2> QED BY <1>1, <1>6, <2>1 DEF Min
<1>8. SubSeq(whole, 1, n) = id
  <2> DEFINE a == SubSeq(whole, 1, n)
  <2>1. a \in Seq(C) /\ Len(a) = n /\ \A i \in 1 .. n : a[i] = whole[i]
    <3>1. /\ a \in Seq(C) /\ Len(a) = n - 1 + 1
          /\ \A i \in 1 .. (n - 1 + 1) : a[i] = whole[1 + i - 1]
      BY <1>1, <1>5, PartOf
    <3>2. n - 1 + 1 = n /\ \A i \in 1 .. n : 1 + i - 1 = i
      BY <1>1
    <3> HIDE DEF a, n
    <3> QED BY <3>1, <3>2
  <2>2. \A i \in 1 .. n : a[i] = id[i]
    BY <1>1, <1>4, <1>5, <2>1
  <2> HIDE DEF a
  <2>3. a = id
    BY <2>1, <2>2, SeqEqual
  <2> QED BY <2>3 DEF a
<1>9. SubSeq(whole, n + 2, Len(whole)) = data
  <2> DEFINE m == Len(whole)
             b == n + 2
             a == SubSeq(whole, b, m)
  <2>1. b \in Nat \ {0} /\ m \in Nat /\ b <= m + 1 /\ m <= Len(whole) /\ m - b + 1 = Len(data)
    BY <1>1, <1>5
  <2>2. \A i \in 1 .. Len(data) : b + i - 1 = n + 1 + i
    BY <1>1
  <2> HIDE DEF m, b
  <2>3. /\ a \in Seq(C) /\ Len(a) = m - b + 1
        /\ \A i \in 1 .. (m - b + 1) : a[i] = whole[b + i - 1]
    BY <1>5, <2>1, PartOf
  <2> HIDE DEF a
  <2>4. \A i \in 1 .. Len(data) : a[i] = data[i]
    BY <1>5, <2>1, <2>2, <2>3
  <2>5. a = data
    BY <2>1, <2>3, <2>4, SeqEqual
  <2> QED BY <2>5 DEF a, b, m
<1>10. SplitOnce(whole) = [module |-> id, data |-> data]
  <2>1. n + 1 - 1 = n /\ n + 1 + 1 = n + 2
    BY <1>1
  <2>2. SplitOnce(whole) = [module |-> SubSeq(whole, 1, n + 1 - 1), data |-> SubSeq(whole, n + 1 + 1, Len(whole))]
    BY <1>7 DEF SplitOnce, SplitAt
  <2> QED BY <1>8, <1>9, <2>1, <2>2
<1> QED BY <1>5, <1>6, <1>10 DEF whole

\* For every module and all data: a button that is accepted comes back, when its owner presses it, to
\* the module that made it with the data it gave, which may hold the separator itself.
THEOREM PressesComeBack ==
  ASSUME NEW C, Separator \in C, NEW id \in Seq(C), NEW data \in Seq(C), \A i \in DOMAIN id : id[i] # Separator, id # <<>>
  PROVE  PressedAs(id, data, ButtonSent(id, data))
<1> DEFINE prefix == DataPrefix(id)
           rows == << <<[text |-> 1, data |-> data]>> >>
           sent == prefix \o data
           press(user) == [from |-> user, data |-> sent, chat_id |-> 0, message_id |-> 0, inline_message_id |-> 1]
<1>1. PrefixedRows(rows, prefix)[1][1].data = sent
  BY DEF PrefixedRows
<1>2. ButtonSent(id, data) = IF ValidateButtonRows(rows, Len(prefix)) THEN sent ELSE <<>>
  BY <1>1 DEF ButtonSent
<1>3. /\ Bars(sent) # {} /\ SplitOnce(sent) = [module |-> id, data |-> data]
      /\ Len(sent) = Len(id) + 1 + Len(data)
  BY FirstBarSplits
<1>4. prefix \in Seq(C) /\ Len(prefix) = Len(id) + 1 /\ prefix[Len(id) + 1] = Separator /\ \A i \in 1 .. Len(id) : prefix[i] = id[i]
  <2> DEFINE bar == Separator
  <2>1. prefix = Append(id, bar) /\ bar \in C
    BY DEF DataPrefix
  <2> HIDE DEF bar, prefix
  <2>2. prefix \in Seq(C) /\ Len(prefix) = Len(id) + 1 /\ prefix[Len(id) + 1] = bar /\ \A i \in 1 .. Len(id) : prefix[i] = id[i]
    BY <2>1, AppendProperties
  <2> QED BY <2>2 DEF bar
<1>5. Len(id) \in Nat /\ Len(data) \in Nat /\ DOMAIN id = 1 .. Len(id)
  BY LenProperties
<1>6. ModuleIdFromDataPrefix(prefix) = id
  <2> HIDE DEF prefix
  <2>1. Front(prefix) = id
    <3> DEFINE a == SubSeq(prefix, 1, Len(id))
    <3>1. /\ a \in Seq(C) /\ Len(a) = Len(id) - 1 + 1
          /\ \A i \in 1 .. (Len(id) - 1 + 1) : a[i] = prefix[1 + i - 1]
      BY <1>4, <1>5, PartOf
    <3>2. Len(id) - 1 + 1 = Len(id) /\ (\A i \in 1 .. Len(id) : 1 + i - 1 = i) /\ Len(prefix) - 1 = Len(id)
      BY <1>4, <1>5
    <3>3. Front(prefix) = a
      BY <3>2 DEF Front
    <3> HIDE DEF a
    <3>4. a = id
      BY <1>4, <3>1, <3>2, SeqEqual
    <3> QED BY <3>3, <3>4
  <2>2. Last(prefix) = Separator /\ prefix # <<>>
    BY <1>4, <1>5 DEF Last
  <2>3. ~Contains(id, Separator)
    BY <1>5 DEF Contains
  <2> QED BY <2>1, <2>2, <2>3 DEF ModuleIdFromDataPrefix
<1>7. ASSUME ValidateButtonRows(rows, Len(prefix)) PROVE Len(sent) <= CallbackDataLimit
  <2>1. Len(data) + Len(prefix) + 1 <= MAX_INLINE_BUTTON_DATA_BYTES * 2
    <3>1. ValidateButton(rows[1][1], Len(prefix))
      BY <1>7 DEF ValidateButtonRows
    <3>2. rows[1][1].data = data
      OBVIOUS
    <3> HIDE DEF rows, prefix
    <3> QED BY <3>1, <3>2 DEF ValidateButton
  <2> HIDE DEF prefix
  <2> QED BY <1>3, <1>4, <1>5, <2>1 DEF MAX_INLINE_BUTTON_DATA_BYTES, CallbackDataLimit
<1>8. HandleCallbackQuery(press("other"), "self").kind = "refused"
  BY DEF HandleCallbackQuery
<1>9. /\ HandleCallbackQuery(press("self"), "self").kind = "dispatched"
      /\ HandleCallbackQuery(press("self"), "self").event = [module |-> id, data |-> data]
  <2> HIDE DEF sent
  <2> QED BY <1>3 DEF HandleCallbackQuery
<1>10. ASSUME ValidateButtonRows(rows, Len(prefix)) PROVE PressedAs(id, data, sent)
  <2>1. ModuleIdFromDataPrefix(prefix) = HandleCallbackQuery(press("self"), "self").event.module
    BY <1>6, <1>9
  <2> QED BY <1>7, <1>8, <1>9, <1>10, <2>1 DEF PressedAs
<1>11. PressedAs(id, data, <<>>)
  BY DEF PressedAs
<1> QED BY <1>2, <1>10, <1>11

\* A body is read up to its bound: the length is the sum of the chunks, or -1 once it passes the bound.
Lengths == Nat \cup {-1}
NextLength(len, chunk, max) == IF len = -1 THEN -1 ELSE AppendBodyChunk(len, chunk, max)

LEMMA BodyPrefixes ==
  ASSUME NEW chunks \in Seq(Nat), NEW max \in Nat
  PROVE  \E t \in [0 .. Len(chunks) -> Lengths] :
           /\ t[0] = 0 /\ t[Len(chunks)] = BodyLength(chunks, max)
           /\ \A k \in 1 .. Len(chunks) : t[k] = NextLength(t[k - 1], chunks[k], max)
<1> DEFINE n == Len(chunks)
           D == DOMAIN chunks
           Body(f) == [s \in SUBSET D |-> IF s = {} THEN 0 ELSE NextLength(f[s \ {Max(s)}], chunks[Max(s)], max)]
           iter == CHOOSE f : f = Body(f)
           G == [k \in 1 .. n |-> [v \in Lengths |-> NextLength(v, chunks[k], max)]]
<1>1. BodyLength(chunks, max) = iter[D]
  BY DEF BodyLength, NextLength, FoldLeft, MapThenFoldSet
<1>2. D = 1 .. n /\ n \in Nat /\ \A k \in 1 .. n : chunks[k] \in Nat
  BY LenProperties, ElementOfSeq
<1>3. G \in [1 .. n -> [Lengths -> Lengths]]
  <2>1. ASSUME NEW v \in Lengths, NEW c \in Nat PROVE NextLength(v, c, max) \in Lengths
    BY DEF Lengths, NextLength, AppendBodyChunk
  <2> QED BY <1>2, <2>1
<1> HIDE DEF n, D
<1>4. 0 \in Lengths
  BY DEF Lengths
<1>5. PICK f \in [SUBSET (1 .. n) -> Lengths] : FoldsWith(f, 1 .. n, 0, G)
  <2> HIDE DEF G
  <2> QED BY <1>2, <1>3, <1>4, FoldExists
<1>6. ASSUME NEW s \in SUBSET (1 .. n), s # {} PROVE Max(s) \in 1 .. n /\ s \ {Max(s)} \in SUBSET (1 .. n)
  BY <1>2, <1>6, WithoutLast
<1>7. f = Body(f)
  <2>1. ASSUME NEW s \in SUBSET D PROVE f[s] = Body(f)[s]
    <3>1. f[s] = IF s = {} THEN 0 ELSE G[Max(s)][f[s \ {Max(s)}]]
      BY <1>2, <1>5 DEF FoldsWith
    <3>2. s # {} => Max(s) \in 1 .. n /\ f[s \ {Max(s)}] \in Lengths
      BY <1>2, <1>6
    <3> QED BY <3>1, <3>2
  <2> QED BY <1>2, <2>1
<1>8. iter = Body(iter)
  <2> HIDE DEF Body
  <2> QED BY <1>7
<1> HIDE DEF iter
<1>9. iter[{}] = 0
  BY <1>8
<1>10. ASSUME NEW s \in SUBSET (1 .. n), s # {}, iter[s \ {Max(s)}] \in Lengths
       PROVE  iter[s] = G[Max(s)][iter[s \ {Max(s)}]]
  BY <1>2, <1>6, <1>8, <1>10
<1>11. StepsIn(iter, n, Lengths, 0, G)
  BY <1>9, <1>10 DEF StepsIn
<1>12. PICK t \in [0 .. n -> Lengths] : PrefixesOf(t, n, 0, G, iter[1 .. n])
  <2> HIDE DEF G
  <2> QED BY <1>2, <1>3, <1>4, <1>11, FoldPrefixes
<1>13. ASSUME NEW k \in 1 .. n PROVE t[k] = NextLength(t[k - 1], chunks[k], max)
  <2>1. k - 1 \in 0 .. n
    BY <1>2
  <2> QED BY <1>12, <2>1 DEF PrefixesOf
<1>14. t[0] = 0 /\ t[n] = iter[1 .. n]
  BY <1>12 DEF PrefixesOf
<1> QED BY <1>1, <1>2, <1>13, <1>14 DEF n

LEMMA BodyLengthIs ==
  ASSUME NEW chunks \in Seq(Nat), NEW max \in Nat
  PROVE  /\ Total(chunks) \in Nat
         /\ BodyLength(chunks, max) = IF Total(chunks) <= max THEN Total(chunks) ELSE -1
<1> DEFINE n == Len(chunks)
<1>1. n \in Nat /\ \A k \in 1 .. n : chunks[k] \in Nat
  BY LenProperties, ElementOfSeq
<1>2. chunks \in Seq(Int)
  <2>1. chunks \in [1 .. n -> Int]
    BY <1>1, LenProperties
  <2> QED BY <1>1, <2>1, SeqDef
<1>3. PICK u \in [0 .. n -> Int] : u[0] = 0 /\ u[n] = Total(chunks) /\ \A k \in 1 .. n : u[k] = u[k - 1] + chunks[k]
  BY <1>2, TotalPrefixes
<1>4. PICK t \in [0 .. n -> Lengths] :
        /\ t[0] = 0 /\ t[n] = BodyLength(chunks, max)
        /\ \A k \in 1 .. n : t[k] = NextLength(t[k - 1], chunks[k], max)
  BY BodyPrefixes
<1> DEFINE S == {k \in Nat : u[k] \in Nat /\ t[k] = IF u[k] <= max THEN u[k] ELSE -1}
<1> HIDE DEF n
<1>5. 0 \in S
  BY <1>3, <1>4
<1>6. ASSUME NEW k \in Nat, k \in S, k < n PROVE k + 1 \in S
  <2>1. k + 1 \in 1 .. n /\ (k + 1) - 1 = k
    BY <1>1, <1>6
  <2>2. t[k + 1] = NextLength(t[k], chunks[k + 1], max) /\ u[k + 1] = u[k] + chunks[k + 1] /\ chunks[k + 1] \in Nat
    BY <1>1, <1>3, <1>4, <2>1
  <2>3. u[k] \in Nat /\ t[k] = IF u[k] <= max THEN u[k] ELSE -1
    BY <1>6
  <2> QED BY <2>2, <2>3 DEF NextLength, AppendBodyChunk
<1>7. n \in S
  <2> HIDE DEF S
  <2>1. 0 .. n \subseteq S
    BY <1>1, <1>5, <1>6, UpTo
  <2> QED BY <1>1, <2>1
<1> QED BY <1>3, <1>4, <1>7 DEF n

\* The replies of the Bot API, however they are framed.
AnyReplies(U) ==
  [sent : {"ok", "timeout", "broken"}, success : BOOLEAN, declared : Int, chunks : Seq(Nat), json : BOOLEAN,
   ok : BOOLEAN, result : BOOLEAN, is_bot : BOOLEAN, username : U, id : Nat]

\* A body is read when it declares at most its bound and has no more.
LEMMA BoundedBodyRead ==
  ASSUME NEW r, r.chunks \in Seq(Nat), r.declared \in Int, NEW max \in Nat
  PROVE  /\ ReadBoundedBody(r, max).ok <=> r.declared <= max /\ Total(r.chunks) <= max
         /\ ~ReadBoundedBody(r, max).ok => ReadBoundedBody(r, max) = Fault("oversized")
<1> DEFINE length == BodyLength(r.chunks, max)
           total == Total(r.chunks)
<1>1. total \in Nat /\ length = IF total <= max THEN total ELSE -1
  BY BodyLengthIs
<1> HIDE DEF length, total
<1>2. ReadBoundedBody(r, max) = IF r.declared > max THEN Fault("oversized")
                                ELSE IF length = -1 THEN Fault("oversized") ELSE Fine(length)
  BY DEF ReadBoundedBody, length
<1>3. Fault("oversized").ok = FALSE /\ Fine(length).ok = TRUE
  BY DEF Fault, Fine
<1>4. CASE r.declared > max
  BY <1>2, <1>3, <1>4
<1>5. CASE r.declared <= max /\ total <= max
  BY <1>1, <1>2, <1>3, <1>5 DEF total
<1>6. CASE r.declared <= max /\ ~(total <= max)
  BY <1>1, <1>2, <1>3, <1>6 DEF total
<1> QED BY <1>4, <1>5, <1>6

\* What an exchange gives.
LEMMA SendMessageRead ==
  ASSUME NEW U, NEW r \in AnyReplies(U)
  PROVE  LET fits == r.declared <= MAX_GET_ME_BODY_BYTES /\ Total(r.chunks) <= MAX_GET_ME_BODY_BYTES IN
         /\ SendMessage(r).ok <=> r.sent = "ok" /\ r.success /\ fits /\ r.json /\ r.ok
         /\ ~SendMessage(r).ok /\ SendMessage(r).value = "rejected" => r.sent = "ok" /\ (~r.success \/ ~r.ok)
         /\ AnswerCallback(r) = SendMessage(r) /\ EditMessageText(r) = SendMessage(r)
<1> DEFINE max == MAX_GET_ME_BODY_BYTES
           body == ReadBoundedBody(r, max)
           fits == r.declared <= max /\ Total(r.chunks) <= max
<1>1. max \in Nat
  BY DEF MAX_GET_ME_BODY_BYTES
<1>2. r.chunks \in Seq(Nat) /\ r.declared \in Int /\ r.id \in Nat
      /\ r.success \in BOOLEAN /\ r.json \in BOOLEAN /\ r.ok \in BOOLEAN /\ r.sent \in {"ok", "timeout", "broken"}
  BY DEF AnyReplies
<1> HIDE DEF max
<1>3. (body.ok <=> fits) /\ (~body.ok => body = Fault("oversized"))
  BY <1>1, <1>2, BoundedBodyRead
<1>4. AnswerCallback(r) = SendMessage(r) /\ EditMessageText(r) = SendMessage(r)
  BY DEF AnswerCallback, EditMessageText, SendMessage
<1>5. SendMessage(r) = IF r.sent # "ok" THEN RequestError(r) ELSE IF ~r.success THEN Fault("rejected")
                       ELSE IF body.ok THEN ParseSendBody(r) ELSE body
  BY DEF SendMessage, Exchange, max
<1> HIDE DEF body, fits
<1>6. CASE r.sent # "ok"
  <2>1. SendMessage(r).ok = FALSE /\ SendMessage(r).value # "rejected"
    BY <1>5, <1>6 DEF RequestError, Fault
  <2> QED BY <1>4, <1>6, <2>1
<1>7. CASE r.sent = "ok" /\ ~r.success
  <2>1. SendMessage(r).ok = FALSE
    BY <1>5, <1>7 DEF Fault
  <2> QED BY <1>4, <1>7, <2>1
<1>8. CASE r.sent = "ok" /\ r.success /\ ~body.ok
  <2>1. SendMessage(r).ok = FALSE /\ SendMessage(r).value # "rejected"
    BY <1>3, <1>5, <1>8 DEF Fault
  <2> QED BY <1>3, <1>4, <1>8, <2>1 DEF fits, max
<1>9. CASE r.sent = "ok" /\ r.success /\ body.ok
  <2>1. SendMessage(r) = ParseSendBody(r)
    BY <1>5, <1>9
  <2>2. CASE ~r.json
    <3>1. SendMessage(r).ok = FALSE /\ SendMessage(r).value # "rejected"
      BY <2>1, <2>2 DEF ParseSendBody, Fault
    <3> QED BY <1>4, <2>2, <3>1
  <2>3. CASE r.json /\ r.ok
    <3>1. SendMessage(r).ok = TRUE
      BY <2>1, <2>3 DEF ParseSendBody, Fine
    <3> QED BY <1>2, <1>3, <1>4, <1>9, <2>3, <3>1 DEF fits, max
  <2>4. CASE r.json /\ ~r.ok
    <3>1. SendMessage(r).ok = FALSE
      BY <2>1, <2>4 DEF ParseSendBody, Fault
    <3> QED BY <1>4, <1>9, <2>4, <3>1
  <2> QED BY <1>2, <2>2, <2>3, <2>4
<1> QED BY <1>2, <1>6, <1>7, <1>8, <1>9

LEMMA GetMeRead ==
  ASSUME NEW U, NEW r \in AnyReplies(U), GetMe(r).ok
  PROVE  /\ SendMessage(r).ok
         /\ r.is_bot /\ r.username.bot /\ r.username.word /\ r.username.bytes \in 5 .. 32
<1> DEFINE max == MAX_GET_ME_BODY_BYTES
           body == ReadBoundedBody(r, max)
<1>1. max \in Nat
  BY DEF MAX_GET_ME_BODY_BYTES
<1>2. r.chunks \in Seq(Nat) /\ r.declared \in Int
  BY DEF AnyReplies
<1> HIDE DEF max
<1>3. ~body.ok => body.ok = FALSE
  <2>1. ~body.ok => body = Fault("oversized")
    BY <1>1, <1>2, BoundedBodyRead
  <2> HIDE DEF body
  <2> QED BY <2>1 DEF Fault
<1>4. /\ GetMe(r) = IF r.sent # "ok" THEN RequestError(r) ELSE IF ~r.success THEN Fault("rejected")
                    ELSE IF body.ok THEN ParseGetMeBody(r) ELSE body
      /\ SendMessage(r) = IF r.sent # "ok" THEN RequestError(r) ELSE IF ~r.success THEN Fault("rejected")
                          ELSE IF body.ok THEN ParseSendBody(r) ELSE body
  BY DEF GetMe, SendMessage, Exchange, max
<1> HIDE DEF body
<1>5. r.sent = "ok" /\ r.success /\ body.ok
  <2>1. RequestError(r).ok = FALSE /\ Fault("rejected").ok = FALSE
    BY DEF RequestError, Fault
  <2> QED BY <1>3, <1>4, <2>1
<1>6. GetMe(r) = ParseGetMeBody(r) /\ SendMessage(r) = ParseSendBody(r)
  BY <1>4, <1>5
<1>7. ~r.json => ParseGetMeBody(r).ok = FALSE
  BY DEF ParseGetMeBody, Fault
<1>8. r.json /\ ~(r.ok /\ r.result) => ParseGetMeBody(r).ok = FALSE
  BY DEF ParseGetMeBody, Fault
<1>9. r.json /\ r.ok /\ r.result /\ ~r.is_bot => ParseGetMeBody(r).ok = FALSE
  BY DEF ParseGetMeBody, Fault
<1>10. r.json /\ r.ok /\ r.result /\ r.is_bot
  BY <1>6, <1>7, <1>8, <1>9
<1>11. ParseGetMeBody(r) = IF ValidateUsername(r.username).ok THEN Fine(r.id) ELSE Fault("wrong_username")
  BY <1>10 DEF ParseGetMeBody
<1>12. ValidateUsername(r.username).ok
  BY <1>6, <1>11 DEF Fault
<1>13. r.username.bot /\ r.username.bytes \in 5 .. 32 /\ r.username.word
  <2>1. Fault("suffix").ok = FALSE /\ Fault("characters").ok = FALSE
    BY DEF Fault
  <2> QED BY <1>12, <2>1 DEF ValidateUsername
<1>14. SendMessage(r).ok
  BY <1>6, <1>10 DEF ParseSendBody, Fine
<1> QED BY <1>10, <1>13, <1>14

LEMMA GetUpdatesRead ==
  ASSUME NEW U, NEW r \in AnyReplies(U)
  PROVE  GetUpdates(r).ok <=> /\ r.sent = "ok" /\ r.success /\ r.json /\ r.ok
                              /\ r.declared <= MAX_UPDATES_BODY_BYTES /\ Total(r.chunks) <= MAX_UPDATES_BODY_BYTES
<1> DEFINE max == MAX_UPDATES_BODY_BYTES
           body == ReadBoundedBody(r, max)
           fits == r.declared <= max /\ Total(r.chunks) <= max
<1>1. max \in Nat
  BY DEF MAX_UPDATES_BODY_BYTES
<1>2. r.chunks \in Seq(Nat) /\ r.declared \in Int /\ r.success \in BOOLEAN /\ r.json \in BOOLEAN /\ r.ok \in BOOLEAN
  BY DEF AnyReplies
<1> HIDE DEF max
<1>3. (body.ok <=> fits) /\ (~body.ok => body.ok = FALSE)
  <2>1. (body.ok <=> fits) /\ (~body.ok => body = Fault("oversized"))
    BY <1>1, <1>2, BoundedBodyRead
  <2> HIDE DEF body, fits
  <2> QED BY <2>1 DEF Fault
<1>4. GetUpdates(r) = IF r.sent # "ok" THEN RequestError(r) ELSE IF ~r.success THEN Fault("rejected")
                      ELSE IF body.ok THEN ParseUpdates(r) ELSE body
  BY DEF GetUpdates, max
<1>5. RequestError(r).ok = FALSE /\ Fault("rejected").ok = FALSE
  BY DEF RequestError, Fault
<1>6. /\ r.json /\ r.ok => ParseUpdates(r).ok = TRUE
      /\ ~(r.json /\ r.ok) => ParseUpdates(r).ok = FALSE
  BY DEF ParseUpdates, Fine, Fault
<1> HIDE DEF body, fits
<1>7. GetUpdates(r).ok <=> r.sent = "ok" /\ r.success /\ r.json /\ r.ok /\ fits
  BY <1>2, <1>3, <1>4, <1>5, <1>6
<1> QED BY <1>7 DEF fits, max

\* For every reply, however it is framed: no more than the bound is read, within it the content
\* alone decides, and an identity is believed only if it is a bot's with a valid name.
THEOREM RepliesAreBounded ==
  ASSUME NEW U, NEW r \in AnyReplies(U)
  PROVE  ReadAs(r, ReadReplies(r))
<1> DEFINE read == ReadReplies(r)
           small == Total(r.chunks) <= MAX_GET_ME_BODY_BYTES
           large == Total(r.chunks) <= MAX_UPDATES_BODY_BYTES
           arrived == r.sent = "ok" /\ r.success /\ r.declared = -1
<1>1. read.send = SendMessage(r) /\ read.me = GetMe(r) /\ read.updates = GetUpdates(r)
  <2> DEFINE a == SendMessage(r)
             b == GetMe(r)
             c == GetUpdates(r)
  <2>1. read = [send |-> a, me |-> b, updates |-> c]
    BY DEF ReadReplies
  <2> HIDE DEF a, b, c, read
  <2>2. read.send = a /\ read.me = b /\ read.updates = c
    BY <2>1
  <2> QED BY <2>2 DEF a, b, c
<1>2. read.send.ok <=> r.sent = "ok" /\ r.success /\ r.declared <= MAX_GET_ME_BODY_BYTES /\ small /\ r.json /\ r.ok
  BY <1>1, SendMessageRead
<1>3. read.updates.ok <=> r.sent = "ok" /\ r.success /\ r.declared <= MAX_UPDATES_BODY_BYTES /\ large /\ r.json /\ r.ok
  BY <1>1, GetUpdatesRead
<1>4. read.me.ok => /\ read.send.ok
                    /\ r.is_bot /\ r.username.bot /\ r.username.word /\ r.username.bytes \in 5 .. 32
  BY <1>1, GetMeRead
<1>5. small => large
  <2>1. Total(r.chunks) \in Nat
    <3>1. r.chunks \in Seq(Nat) /\ 0 \in Nat
      BY DEF AnyReplies
    <3> QED BY <3>1, BodyLengthIs
  <2> QED BY <2>1 DEF MAX_GET_ME_BODY_BYTES, MAX_UPDATES_BODY_BYTES
<1>6. r.declared = -1 => r.declared <= MAX_GET_ME_BODY_BYTES /\ r.declared <= MAX_UPDATES_BODY_BYTES
  BY DEF MAX_GET_ME_BODY_BYTES, MAX_UPDATES_BODY_BYTES
<1> HIDE DEF read, small, large
<1>7. ReadAs(r, read)
  BY <1>2, <1>3, <1>4, <1>5, <1>6 DEF ReadAs, small, large
<1> QED BY <1>7 DEF read

\* What a module is told of a call.
LEMMA BotCallTold ==
  ASSUME NEW valid \in BOOLEAN, NEW call
  PROVE  /\ BotCall(valid, call).ok <=> valid /\ call.ok
         /\ BotCall(valid, call).value = "rejected" => valid /\ ~call.ok /\ call.value = "rejected"
<1>1. CASE ~valid
  <2>1. BotCall(valid, call) = Fault("invalid")
    BY <1>1 DEF BotCall
  <2>2. BotCall(valid, call).ok = FALSE /\ BotCall(valid, call).value = "invalid"
    BY <2>1 DEF Fault
  <2> QED BY <1>1, <2>2
<1>2. CASE valid /\ call.ok
  <2>1. BotCall(valid, call) = Fine("null")
    BY <1>2 DEF BotCall
  <2>2. BotCall(valid, call).ok = TRUE /\ BotCall(valid, call).value = "null"
    BY <2>1 DEF Fine
  <2> QED BY <1>2, <2>2
<1>3. CASE valid /\ ~call.ok
  <2>1. BotCall(valid, call) = Fault(SanitizedError(call))
    BY <1>3 DEF BotCall
  <2>2. BotCall(valid, call).ok = FALSE /\ BotCall(valid, call).value = SanitizedError(call)
    BY <2>1 DEF Fault
  <2>3. SanitizedError(call) = "rejected" => call.value = "rejected"
    BY DEF SanitizedError
  <2> QED BY <1>3, <2>2, <2>3
<1> QED BY <1>1, <1>2, <1>3

\* The presses of a chat's message and of an inline one.
ChatPress(x, id) == [chat_id |-> BotApiDialogId(x), message_id |-> id, inline_message_id |-> 0]
InlinePress(id) == [chat_id |-> 0, message_id |-> 0, inline_message_id |-> id]
AnyPresses(P) == {ChatPress(x, id) : x \in P, id \in Nat \ {0}} \cup {InlinePress(id) : id \in Nat \ {0}}

\* For every press of a known peer's message or of an inline one, every text and every reply within
\* its declared length: the module edits the message that was pressed and is told the truth of it.
THEOREM PressesEditTheirMessage ==
  ASSUME NEW P \in SUBSET AnyPeers, NEW p \in AnyPresses(P), NEW units \in Nat,
         NEW text, text = [units |-> units, nul |-> FALSE],
         NEW U, NEW r \in AnyReplies(U), r.declared <= MAX_GET_ME_BODY_BYTES
  PROVE  EditedAs(P, p, text, r, AnswerPress(p, text, r))
<1> DEFINE chat == p.chat_id
           message == p.message_id
           inline == p.inline_message_id
           edit == [chat_id |-> chat, message_id |-> message, text |-> text, inline_message_id |-> inline, buttons |-> <<>>]
           send == [chat_id |-> chat, thread |-> 0, text |-> text]
           answer == [callback_id |-> 20, text |-> text]
           call == SendMessage(r)
           peers == {x \in P : BotApiDialogId(x) = chat}
           result == AnswerPress(p, text, r)
           query == [from |-> "self", data |-> <<"m", Separator, "d">>, chat_id |-> chat,
                     message_id |-> message, inline_message_id |-> inline]
           event == HandleCallbackQuery(query, "self")
<1>1. chat \in Int /\ message \in Nat /\ inline \in Nat
      /\ \/ inline = 0 /\ message # 0 /\ \E x \in P : chat = BotApiDialogId(x)
         \/ inline # 0 /\ message = 0 /\ chat = 0
  <2>1. CASE p \in {ChatPress(x, id) : x \in P, id \in Nat \ {0}}
    <3>1. PICK x \in P, id \in Nat \ {0} : p = ChatPress(x, id)
      BY <2>1
    <3>2. x \in AnyPeers
      OBVIOUS
    <3>3. BotApiDialogId(x) \in Int
      BY <3>2, DialogIdNamesPeer
    <3> QED BY <3>1, <3>3 DEF ChatPress
  <2>2. CASE p \in {InlinePress(id) : id \in Nat \ {0}}
    BY <2>2 DEF InlinePress
  <2> QED BY <2>1, <2>2 DEF AnyPresses
<1>2. event.chat_id = chat /\ event.message_id = message /\ event.inline_message_id = inline
  <2> DEFINE data == <<"m", Separator, "d">>
  <2>1. query.from = "self" /\ query.data = data /\ query.chat_id = chat /\ query.message_id = message
        /\ query.inline_message_id = inline
    OBVIOUS
  <2>2. Bars(data) # {}
    <3>1. 2 \in DOMAIN data /\ data[2] = Separator
      OBVIOUS
    <3> HIDE DEF data
    <3> QED BY <3>1 DEF Bars
  <2> HIDE DEF query, data, chat, message, inline
  <2> QED BY <2>1, <2>2 DEF HandleCallbackQuery
<1>3. result = [edit |-> ExecuteMessageEditBot(edit, 2, r), answer |-> ExecuteInlineAnswer(answer, r), send |-> ExecuteSendBot(send, r)]
  <2> HIDE DEF query, chat, message, inline
  <2>1. result = [edit |-> ExecuteMessageEditBot([chat_id |-> event.chat_id, message_id |-> event.message_id, text |-> text,
                                   inline_message_id |-> event.inline_message_id, buttons |-> <<>>], 2, r),
                  answer |-> ExecuteInlineAnswer([callback_id |-> 20, text |-> text], r),
                  send |-> ExecuteSendBot([chat_id |-> event.chat_id, thread |-> 0, text |-> text], r)]
    BY DEF AnswerPress, query, chat, message, inline
  <2> HIDE DEF event, result
  <2> QED BY <1>2, <2>1
<1> DEFINE edited == ExecuteMessageEditBot(edit, 2, r)
           answered == ExecuteInlineAnswer(answer, r)
           sentOut == ExecuteSendBot(send, r)
           sent == text.units \in 1 .. 4096
           confirmed == r.sent = "ok" /\ r.success /\ r.json /\ r.ok /\ Total(r.chunks) <= MAX_GET_ME_BODY_BYTES
<1>4. result.edit = edited /\ result.answer = answered /\ result.send = sentOut
  <2> HIDE DEF edited, answered, sentOut, result, edit, send, answer
  <2>1. result = [edit |-> edited, answer |-> answered, send |-> sentOut]
    BY <1>3 DEF edited, answered, sentOut
  <2> QED BY <2>1
<1>5. /\ call.ok <=> confirmed
      /\ ~call.ok /\ call.value = "rejected" => r.sent = "ok" /\ (~r.success \/ ~r.ok)
      /\ AnswerCallback(r) = call /\ EditMessageText(r) = call
  BY SendMessageRead
<1>6. text.units = units /\ text.nul = FALSE
  OBVIOUS
<1>7. ValidateEditBot(edit, 2) <=> sent
  <2>1. edit.chat_id = chat /\ edit.message_id = message /\ edit.text = text /\ edit.inline_message_id = inline /\ edit.buttons = <<>>
    OBVIOUS
  <2>2. inline # 0 \/ (chat # 0 /\ message > 0)
    <3>1. \A x \in P : BotApiDialogId(x) # 0
      BY DialogIdNamesPeer
    <3> HIDE DEF chat, message, inline
    <3> QED BY <1>1, <3>1
  <2>3. ValidateButtonRows(<<>>, 2)
    BY DEF ValidateButtonRows, MAX_INLINE_ROWS
  <2> HIDE DEF edit, chat, message, inline
  <2> QED BY <1>6, <2>1, <2>2, <2>3 DEF ValidateEditBot, TextValid
<1>8. ValidateAnswer(answer) <=> text.units <= 200
  BY <1>6 DEF ValidateAnswer
<1>9. ValidateSendBot(send) <=> sent /\ inline = 0
  <2>1. chat # 0 <=> inline = 0
    <3>1. \A x \in P : BotApiDialogId(x) # 0
      BY DialogIdNamesPeer
    <3> HIDE DEF chat, message, inline
    <3> QED BY <1>1, <3>1
  <2>2. send.chat_id = chat /\ send.thread = 0 /\ send.text = text
    OBVIOUS
  <2> HIDE DEF send, chat, inline
  <2> QED BY <1>6, <2>1, <2>2 DEF ValidateSendBot, TextValid
<1>10. /\ edited.told = BotCall(ValidateEditBot(edit, 2), call)
       /\ answered = BotCall(ValidateAnswer(answer), call)
       /\ sentOut = BotCall(ValidateSendBot(send), call)
  BY <1>5 DEF ExecuteMessageEditBot, ExecuteInlineAnswer, ExecuteSendBot
<1>11. /\ ValidateEditBot(edit, 2) \in BOOLEAN /\ ValidateAnswer(answer) \in BOOLEAN /\ ValidateSendBot(send) \in BOOLEAN
  BY DEF ValidateEditBot, ValidateAnswer, ValidateSendBot
<1>12. edited.edited = EditAddress(edit)
       /\ edited.ledger = LET peer == PeerIdFromBotChatId(chat) IN
                          IF edited.told.ok /\ peer.kind # "none" THEN {<<peer, message>>} ELSE {}
  BY DEF ExecuteMessageEditBot
<1>13. EditAddress(edit) = IF inline # 0 THEN <<inline>> ELSE <<chat, message>>
  <2> HIDE DEF chat, message, inline
  <2> QED BY DEF EditAddress
<1> HIDE DEF call, edit, send, answer, result, edited, answered, sentOut, sent, confirmed
<1>14. (edited.told.ok <=> sent /\ confirmed) /\ (answered.ok <=> text.units <= 200 /\ confirmed)
       /\ (sentOut.ok <=> sent /\ confirmed /\ inline = 0)
  BY <1>5, <1>7, <1>8, <1>9, <1>10, <1>11, BotCallTold
<1>15. \A told \in {edited.told, answered, sentOut} : told.value = "rejected" => r.sent = "ok" /\ ~(r.success /\ r.ok)
  <2>1. \A v \in BOOLEAN : BotCall(v, call).value = "rejected" => r.sent = "ok" /\ ~(r.success /\ r.ok)
    BY <1>5, BotCallTold
  <2> QED BY <1>10, <1>11, <2>1
<1>16. edited.told.ok => edited.ledger = {<<x, message>> : x \in peers}
  <2> SUFFICES ASSUME edited.told.ok PROVE edited.ledger = {<<x, message>> : x \in peers}
    OBVIOUS
  <2>1. \A x \in P : BotApiDialogId(x) # 0 /\ PeerIdFromBotChatId(BotApiDialogId(x)) = x /\ x.kind # "none"
    BY DialogIdNamesPeer DEF AnyPeers
  <2>2. PeerIdFromBotChatId(0).kind = "none"
    <3>1. 0 >= 0 /\ ~(0 <= -ChannelBase)
      BY DEF ChannelBase
    <3>2. PeerIdFromBotChatId(0) = Peer("user", 0)
      BY <3>1 DEF PeerIdFromBotChatId
    <3>3. Peer("user", 0) = [kind |-> "none", id |-> 0]
      BY DEF Peer
    <3> QED BY <3>2, <3>3
  <2> HIDE DEF chat, message, inline
  <2>3. CASE inline # 0
    <3>1. peers = {} /\ edited.ledger = {}
      BY <1>1, <1>12, <2>1, <2>2, <2>3
    <3> QED BY <3>1
  <2>4. CASE inline = 0
    <3>1. PICK x \in P : chat = BotApiDialogId(x)
      BY <1>1, <2>4
    <3>2. edited.ledger = {<<x, message>>}
      BY <1>12, <2>1, <3>1
    <3>3. peers = {x}
      BY <2>1, <3>1
    <3> HIDE DEF peers
    <3> QED BY <3>2, <3>3
  <2> QED BY <2>3, <2>4
<1>17. ~edited.told.ok => edited.ledger = {}
  BY <1>12
<1>18. EditedAs(P, p, text, r, result)
  BY <1>4, <1>12, <1>13, <1>14, <1>15, <1>16, <1>17 DEF EditedAs, sent, confirmed
<1> QED BY <1>18 DEF result

(***************************************************************************)
(* Base64: no byte is lost, and one body has one spelling.                 *)
(***************************************************************************)
\* A concatenation of parts of w characters each, but for the last one.
LEMMA FlatEven ==
  ASSUME NEW parts \in Seq(Text), NEW w \in Nat, NEW n \in Nat, n = Len(parts),
         \A k \in 1 .. n : k < n => Len(parts[k]) = w
  PROVE  /\ FlattenSeq(parts) \in Text
         /\ n # 0 => Len(FlattenSeq(parts)) = w * (n - 1) + Len(parts[n])
         /\ \A k \in 1 .. n : \A i \in 1 .. Len(parts[k]) : FlattenSeq(parts)[w * (k - 1) + i] = parts[k][i]
<1>1. PICK t \in [0 .. n -> Text] : /\ t[0] = <<>> /\ t[n] = FlattenSeq(parts)
                                    /\ \A k \in 1 .. n : t[k] = Cat(t[k - 1], parts[k])
  BY FlatPrefixes
<1>2. \A k \in 1 .. n : parts[k] \in Text
  BY ElementOfSeq
<1> DEFINE S == {k \in Nat : /\ k < n => Len(t[k]) = w * k
                             /\ \A j \in 1 .. k : \A i \in 1 .. Len(parts[j]) : t[k][w * (j - 1) + i] = parts[j][i]
                             /\ k # 0 => Len(t[k]) = w * (k - 1) + Len(parts[k])}
<1>3. 0 \in S
  <2>1. Len(t[0]) = 0
    BY <1>1
  <2>2. w * 0 = 0
    OBVIOUS
  <2> QED BY <2>1, <2>2
<1>4. ASSUME NEW k \in Nat, k \in S, k < n PROVE k + 1 \in S
  <2>1. k + 1 \in 1 .. n /\ (k + 1) - 1 = k /\ k \in 0 .. n
    BY <1>4
  <2> DEFINE a == t[k]
             b == parts[k + 1]
             c == t[k + 1]
  <2>2. a \in Text /\ b \in Text /\ Len(a) = w * k /\ c = a \o b
    BY <1>1, <1>2, <1>4, <2>1 DEF Cat
  <2>3. w * k \in Nat /\ w * (k + 1) = w * k + w
    BY <1>4
  <2>4. Len(c) = w * k + Len(b) /\ (\A x \in 1 .. w * k : c[x] = a[x]) /\ (\A i \in 1 .. Len(b) : c[w * k + i] = b[i])
    <3> HIDE DEF a, b, c
    <3>1. a \in Seq(Nat) /\ b \in Seq(Nat)
      BY <2>2 DEF Text
    <3>2. Len(c) = Len(a) + Len(b)
          /\ \A x \in 1 .. Len(a) + Len(b) : c[x] = IF x <= Len(a) THEN a[x] ELSE b[x - Len(a)]
      BY <2>2, <3>1, ConcatProperties
    <3> DEFINE u == w * k
    <3>3. u \in Nat /\ Len(a) = u /\ Len(b) \in Nat
      BY <2>2, <2>3, <3>1, LenProperties
    <3> HIDE DEF u
    <3>4. Len(c) = u + Len(b) /\ (\A x \in 1 .. u : c[x] = a[x]) /\ (\A i \in 1 .. Len(b) : c[u + i] = b[i])
      BY <3>2, <3>3
    <3> QED BY <3>4 DEF u
  <2>5. k + 1 < n => Len(b) = w
    BY <2>1
  <2>6. ASSUME NEW j \in 1 .. k, NEW i \in 1 .. Len(parts[j]) PROVE c[w * (j - 1) + i] = parts[j][i]
    <3>1. Len(parts[j]) = w
      <4>1. j \in 1 .. n /\ j < n
        BY <1>4, <2>6
      <4> HIDE DEF S
      <4> QED BY <4>1
    <3>2. w * (j - 1) + w <= w * k /\ w * (j - 1) \in Nat
      <4>1. w * (j - 1) + w = w * j
        BY <2>6
      <4>2. k = j + (k - j) /\ k - j \in Nat /\ w * k = w * j + w * (k - j) /\ w * (k - j) \in Nat
        BY <2>6
      <4>3. w * (j - 1) \in Nat
        <5>1. j - 1 \in Nat
          BY <2>6
        <5> QED BY <5>1
      <4>4. w * j \in Nat
        BY <2>6
      <4> HIDE DEF a, b, c
      <4> QED BY <4>1, <4>2, <4>3, <4>4
    <3>3. w * (j - 1) + i \in 1 .. w * k
      <4> DEFINE u == w * (j - 1)
                 v == w * k
      <4>1. u \in Nat /\ v \in Nat /\ u + w <= v /\ i \in 1 .. w
        BY <2>3, <3>1, <3>2, <2>6
      <4> HIDE DEF u, v
      <4>2. u + i \in 1 .. v
        BY <4>1
      <4> QED BY <4>2 DEF u, v
    <3>4. c[w * (j - 1) + i] = a[w * (j - 1) + i]
      <4> HIDE DEF a, b, c
      <4> QED BY <2>4, <3>3
    <3>5. a[w * (j - 1) + i] = parts[j][i]
      BY <1>4, <2>6
    <3> QED BY <3>4, <3>5
  <2>7. \A j \in 1 .. k + 1 : \A i \in 1 .. Len(parts[j]) : c[w * (j - 1) + i] = parts[j][i]
    <3>1. ASSUME NEW j \in 1 .. k + 1, NEW i \in 1 .. Len(parts[j]) PROVE c[w * (j - 1) + i] = parts[j][i]
      <4>1. CASE j \in 1 .. k
        <5> HIDE DEF a, b, c
        <5> QED BY <2>6, <3>1, <4>1
      <4>2. CASE j = k + 1
        <5>1. (j - 1) = k /\ parts[j] = b /\ i \in 1 .. Len(b)
          BY <3>1, <4>2
        <5> HIDE DEF a, b, c
        <5> QED BY <2>4, <5>1
      <4>3. j \in 1 .. k \/ j = k + 1
        BY <3>1, <1>4
      <4> QED BY <4>1, <4>2, <4>3
    <3> HIDE DEF a, b, c
    <3> QED BY <3>1
  <2>8. (k + 1 < n => Len(c) = w * (k + 1)) /\ Len(c) = w * k + Len(b)
    <3> HIDE DEF a, b, c
    <3> QED BY <2>3, <2>4, <2>5
  <2>9. k + 1 \in Nat /\ k + 1 # 0
    BY <1>4
  <2> HIDE DEF a
  <2> QED BY <2>1, <2>7, <2>8, <2>9
<1>5. n \in S
  <2> HIDE DEF S
  <2>1. 0 .. n \subseteq S
    BY <1>3, <1>4, UpTo
  <2> QED BY <2>1
<1>6. t[n] \in Text
  OBVIOUS
<1> QED BY <1>1, <1>5, <1>6

\* One quad of the encoding of three bytes, the last ones of which may be absent, and its decoding.
ByteOf(input, i) == IF i \in DOMAIN input THEN input[i] ELSE 0
QuadOf(b1, b2, b3, left) ==
  LET value == b1 * 65536 + b2 * 256 + b3 IN
  << (value \div 262144) % 64, (value \div 4096) % 64,
     IF left >= 2 THEN (value \div 64) % 64 ELSE Pad,
     IF left >= 3 THEN value % 64 ELSE Pad >>
Sextet(c) == IF c = Pad THEN 0 ELSE Base64Value(c)
Triple(c1, c2, c3, c4) ==
  << (Sextet(c1) * 4 + Sextet(c2) \div 16) % 256 >>
  \o (IF c3 = Pad THEN <<>> ELSE << (Sextet(c2) * 16 + Sextet(c3) \div 4) % 256 >>)
  \o (IF c4 = Pad THEN <<>> ELSE << (Sextet(c3) * 64 + Sextet(c4)) % 256 >>)
QuadAccepted(c1, c2, c3, c4, last) ==
  /\ Base64Value(c1) >= 0 /\ Base64Value(c2) >= 0 /\ Sextet(c3) >= 0 /\ Sextet(c4) >= 0
  /\ ~(~last /\ c4 = Pad) /\ ~(c3 = Pad /\ c4 # Pad)
  /\ CanonicalTail(Sextet(c2), Sextet(c3), c3 = Pad, c4 = Pad)
Octets == 0 .. 255

LEMMA SmallJoins ==
  ASSUME NEW x \in Octets, NEW y \in Octets, NEW z \in Octets
  PROVE  /\ (<<x>> \o <<>>) \o <<>> = <<x>>
         /\ (<<x>> \o <<y>>) \o <<>> = <<x, y>>
         /\ (<<x>> \o <<y>>) \o <<z>> = <<x, y, z>>
<1>0. <<x>> \in Seq(Octets) /\ <<y>> \in Seq(Octets) /\ <<z>> \in Seq(Octets) /\ <<x, y>> \in Seq(Octets) /\ <<x, y, z>> \in Seq(Octets)
  OBVIOUS
<1>1. <<x>> \o <<y>> = <<x, y>> /\ <<x>> \in Seq(Octets) /\ <<x, y>> \in Seq(Octets)
  <2> DEFINE c == <<x>> \o <<y>>
  <2>1. c \in Seq(Octets) /\ Len(c) = 2 /\ c[1] = x /\ c[2] = y
    BY <1>0, ConcatProperties
  <2> HIDE DEF c
  <2>2. c = <<x, y>>
    BY <1>0, <2>1, SeqEqual
  <2> QED BY <1>0, <2>2 DEF c
<1>2. <<x>> \o <<>> = <<x>> /\ <<x, y>> \o <<>> = <<x, y>>
  BY <1>1, ConcatEmptySeq
<1>3. <<x, y>> \o <<z>> = <<x, y, z>>
  <2> DEFINE c == <<x, y>> \o <<z>>
  <2>1. c \in Seq(Octets) /\ Len(c) = 3 /\ c[1] = x /\ c[2] = y /\ c[3] = z
    BY <1>0, ConcatProperties
  <2> HIDE DEF c
  <2>2. c = <<x, y, z>>
    BY <1>0, <2>1, SeqEqual
  <2> QED BY <2>2 DEF c
<1> QED BY <1>1, <1>2, <1>3

LEMMA QuadBits ==
  ASSUME NEW b1 \in Octets, NEW b2 \in Octets, NEW b3 \in Octets
  PROVE  LET value == b1 * 65536 + b2 * 256 + b3 IN
         /\ (value \div 262144) % 64 = b1 \div 4
         /\ (value \div 4096) % 64 = (b1 % 4) * 16 + b2 \div 16
         /\ (value \div 64) % 64 = (b2 % 16) * 4 + b3 \div 64
         /\ value % 64 = b3 % 64
<1> DEFINE value == b1 * 65536 + b2 * 256 + b3
           p == b1 \div 4
           q == b1 % 4
           r == b2 \div 16
           s == b2 % 16
           u == b3 \div 64
           v == b3 % 64
<1>1. /\ p \in 0 .. 63 /\ q \in 0 .. 3 /\ b1 = 4 * p + q
      /\ r \in 0 .. 15 /\ s \in 0 .. 15 /\ b2 = 16 * r + s
      /\ u \in 0 .. 3 /\ v \in 0 .. 63 /\ b3 = 64 * u + v
  BY DEF Octets
<1> HIDE DEF p, q, r, s, u, v
<1>2. value = 262144 * p + 65536 * q + 4096 * r + 256 * s + 64 * u + v
  BY <1>1
<1> HIDE DEF value
<1>3. value \div 262144 = p
  BY <1>1, <1>2
<1>4. value \div 4096 = 64 * p + 16 * q + r
  BY <1>1, <1>2
<1>5. value \div 64 = 4096 * p + 1024 * q + 64 * r + 4 * s + u
  BY <1>1, <1>2
<1>6. value % 64 = v
  BY <1>1, <1>2
<1>7. p % 64 = p /\ (64 * p + 16 * q + r) % 64 = 16 * q + r /\ (4096 * p + 1024 * q + 64 * r + 4 * s + u) % 64 = 4 * s + u
  BY <1>1
<1>8. /\ (value \div 262144) % 64 = p /\ (value \div 4096) % 64 = q * 16 + r
      /\ (value \div 64) % 64 = s * 4 + u /\ value % 64 = v
  BY <1>1, <1>3, <1>4, <1>5, <1>6, <1>7
<1> QED BY <1>8 DEF value, p, q, r, s, u, v

LEMMA QuadIs ==
  ASSUME NEW b1 \in Octets, NEW b2 \in Octets, NEW b3 \in Octets, NEW left \in Nat
  PROVE  QuadOf(b1, b2, b3, left) =
           << b1 \div 4, (b1 % 4) * 16 + b2 \div 16,
              IF left >= 2 THEN (b2 % 16) * 4 + b3 \div 64 ELSE Pad, IF left >= 3 THEN b3 % 64 ELSE Pad >>
BY QuadBits DEF QuadOf

\* The bytes that are there come back.
LEMMA QuadComesBack ==
  ASSUME NEW b1 \in Octets, NEW b2 \in Octets, NEW b3 \in Octets, NEW left \in Nat, left >= 1,
         left < 2 => b2 = 0, left < 3 => b3 = 0, NEW last \in BOOLEAN, left < 3 => last
  PROVE  LET t == QuadOf(b1, b2, b3, left) IN
         /\ t \in Text /\ Len(t) = 4
         /\ QuadAccepted(t[1], t[2], t[3], t[4], last)
         /\ Triple(t[1], t[2], t[3], t[4]) = IF left = 1 THEN <<b1>> ELSE IF left = 2 THEN <<b1, b2>> ELSE <<b1, b2, b3>>
<1> DEFINE c1 == b1 \div 4
           c2 == (b1 % 4) * 16 + b2 \div 16
           c3 == IF left >= 2 THEN (b2 % 16) * 4 + b3 \div 64 ELSE Pad
           c4 == IF left >= 3 THEN b3 % 64 ELSE Pad
           t == QuadOf(b1, b2, b3, left)
<1>1. t = <<c1, c2, c3, c4>>
  BY QuadIs
<1>2. c1 \in 0 .. 63 /\ c2 \in 0 .. 63 /\ (left >= 2 => c3 \in 0 .. 63) /\ (left < 2 => c3 = 64)
      /\ (left >= 3 => c4 \in 0 .. 63) /\ (left < 3 => c4 = 64)
  BY DEF Octets, Pad
<1>3. /\ (c1 * 4 + c2 \div 16) % 256 = b1
      /\ left >= 2 => (c2 * 16 + c3 \div 4) % 256 = b2
      /\ left >= 3 => (c3 * 64 + c4) % 256 = b3
  <2> DEFINE p == b1 \div 4
             q == b1 % 4
             r == b2 \div 16
             s == b2 % 16
             u == b3 \div 64
             v == b3 % 64
  <2>1. /\ p \in 0 .. 63 /\ q \in 0 .. 3 /\ b1 = 4 * p + q
        /\ r \in 0 .. 15 /\ s \in 0 .. 15 /\ b2 = 16 * r + s
        /\ u \in 0 .. 3 /\ v \in 0 .. 63 /\ b3 = 64 * u + v
    BY DEF Octets
  <2>2. c1 = p /\ c2 = q * 16 + r /\ (left >= 2 => c3 = s * 4 + u) /\ (left >= 3 => c4 = v)
    OBVIOUS
  <2> HIDE DEF c1, c2, c3, c4, p, q, r, s, u, v
  <2>3. c2 \div 16 = q /\ (p * 4 + q) % 256 = b1
    BY <2>1, <2>2
  <2>4. left >= 2 => c3 \div 4 = s /\ (c2 * 16 + s) % 256 = b2
    BY <2>1, <2>2
  <2>5. left >= 3 => (c3 * 64 + c4) % 256 = b3
    <3>1. left >= 3 => c3 * 64 + c4 = 256 * s + b3
      BY <2>1, <2>2
    <3>2. (256 * s + b3) % 256 = b3
      BY <2>1 DEF Octets
    <3> QED BY <3>1, <3>2
  <2> QED BY <2>2, <2>3, <2>4, <2>5
<1>4. (left < 2 => c2 % 16 = 0) /\ (left < 3 /\ left >= 2 => c3 % 4 = 0)
  <2> DEFINE q == b1 % 4
             u == b2 % 16
  <2>1. q \in 0 .. 3 /\ u \in 0 .. 15 /\ 0 \div 16 = 0 /\ 0 \div 64 = 0
    BY DEF Octets
  <2> HIDE DEF q, u
  <2>2. (q * 16) % 16 = 0 /\ (u * 4) % 4 = 0
    BY <2>1
  <2>3. (left < 2 => c2 = q * 16) /\ (left < 3 /\ left >= 2 => c3 = u * 4)
    BY <2>1 DEF q, u
  <2> HIDE DEF c2, c3
  <2> QED BY <2>2, <2>3
<1> HIDE DEF c1, c2, c3, c4, t
<1>5. Sextet(c1) = c1 /\ Sextet(c2) = c2 /\ Base64Value(c1) = c1 /\ Base64Value(c2) = c2
      /\ (left >= 2 => Sextet(c3) = c3) /\ (left < 2 => Sextet(c3) = 0)
      /\ (left >= 3 => Sextet(c4) = c4) /\ (left < 3 => Sextet(c4) = 0)
      /\ (c3 = Pad <=> left < 2) /\ (c4 = Pad <=> left < 3)
  BY <1>2 DEF Sextet, Base64Value, Pad
<1>6. QuadAccepted(c1, c2, c3, c4, last)
  BY <1>2, <1>4, <1>5 DEF QuadAccepted, CanonicalTail
<1>7. Triple(c1, c2, c3, c4) = IF left = 1 THEN <<b1>> ELSE IF left = 2 THEN <<b1, b2>> ELSE <<b1, b2, b3>>
  <2> DEFINE h1 == <<(c1 * 4 + c2 \div 16) % 256>>
             h2 == <<(c2 * 16 + c3 \div 4) % 256>>
             h3 == <<(c3 * 64 + c4) % 256>>
  <2>1. h1 = <<b1>> /\ (left >= 2 => h2 = <<b2>>) /\ (left >= 3 => h3 = <<b3>>)
    BY <1>3
  <2>2. Triple(c1, c2, c3, c4) = h1 \o (IF left < 2 THEN <<>> ELSE h2) \o (IF left < 3 THEN <<>> ELSE h3)
    <3>1. CASE left < 2
      BY <1>5, <3>1 DEF Triple
    <3>2. CASE left >= 2 /\ left < 3
      BY <1>5, <3>2 DEF Triple
    <3>3. CASE left >= 3
      BY <1>5, <3>3 DEF Triple
    <3> QED BY <3>1, <3>2, <3>3
  <2> HIDE DEF h1, h2, h3
  <2>3. CASE left = 1
    <3>1. Triple(c1, c2, c3, c4) = (<<b1>> \o <<>>) \o <<>>
      BY <2>1, <2>2, <2>3
    <3> QED BY <2>3, <3>1, SmallJoins
  <2>4. CASE left = 2
    <3>1. Triple(c1, c2, c3, c4) = (<<b1>> \o <<b2>>) \o <<>>
      <4>1. ~(left < 2) /\ left >= 2 /\ left < 3
        BY <2>4
      <4> QED BY <2>1, <2>2, <4>1
    <3>2. left # 1 /\ left = 2
      BY <2>4
    <3>3. (<<b1>> \o <<b2>>) \o <<>> = <<b1, b2>>
      BY SmallJoins
    <3> QED BY <3>1, <3>2, <3>3
  <2>5. CASE left >= 3
    <3>1. Triple(c1, c2, c3, c4) = (<<b1>> \o <<b2>>) \o <<b3>>
      <4>1. ~(left < 2) /\ left >= 2 /\ ~(left < 3)
        BY <2>5
      <4> QED BY <2>1, <2>2, <2>5, <4>1
    <3>2. left # 1 /\ left # 2
      BY <2>5
    <3> QED BY <3>1, <3>2, SmallJoins
  <2>6. left = 1 \/ left = 2 \/ left >= 3
    OBVIOUS
  <2> QED BY <2>3, <2>4, <2>5, <2>6
<1>8. <<c1, c2, c3, c4>> \in Text /\ Len(<<c1, c2, c3, c4>>) = 4
  BY <1>2 DEF Text
<1>9. t[1] = c1 /\ t[2] = c2 /\ t[3] = c3 /\ t[4] = c4
  BY <1>1
<1> QED BY <1>1, <1>6, <1>7, <1>8, <1>9 DEF t

\* An accepted quad is the only spelling of its bytes.
LEMMA TripleComesBack ==
  ASSUME NEW c1 \in Nat, NEW c2 \in Nat, NEW c3 \in Nat, NEW c4 \in Nat, NEW last \in BOOLEAN,
         QuadAccepted(c1, c2, c3, c4, last), NEW b, b = Triple(c1, c2, c3, c4)
  PROVE  /\ b \in Seq(Octets) /\ Len(b) \in 1 .. 3 /\ (~last => Len(b) = 3)
         /\ QuadOf(ByteOf(b, 1), ByteOf(b, 2), ByteOf(b, 3), Len(b)) = <<c1, c2, c3, c4>>
<1> DEFINE b1 == (c1 * 4 + Sextet(c2) \div 16) % 256
           b2 == (c2 * 16 + Sextet(c3) \div 4) % 256
           b3 == (Sextet(c3) * 64 + Sextet(c4)) % 256
           left == IF c3 = Pad THEN 1 ELSE IF c4 = Pad THEN 2 ELSE 3
<1>1. c1 \in 0 .. 63 /\ c2 \in 0 .. 63 /\ c3 \in 0 .. 64 /\ c4 \in 0 .. 64 /\ (c3 = 64 => c4 = 64) /\ (c4 = 64 => last)
      /\ (c3 = 64 => c2 % 16 = 0) /\ (c4 = 64 /\ c3 # 64 => c3 % 4 = 0)
      /\ Sextet(c1) = c1 /\ Sextet(c2) = c2 /\ Sextet(c3) = (IF c3 = 64 THEN 0 ELSE c3) /\ Sextet(c4) = IF c4 = 64 THEN 0 ELSE c4
  BY DEF QuadAccepted, CanonicalTail, Sextet, Base64Value, Pad
<1>2. b1 \in Octets /\ b2 \in Octets /\ b3 \in Octets
  BY <1>1 DEF Octets
<1>3. b = IF c3 = 64 THEN <<b1>> ELSE IF c4 = 64 THEN <<b1, b2>> ELSE <<b1, b2, b3>>
  <2> HIDE DEF b1, b2, b3
  <2>1. b = <<b1>> \o (IF c3 = 64 THEN <<>> ELSE <<b2>>) \o (IF c4 = 64 THEN <<>> ELSE <<b3>>)
    BY <1>1 DEF Triple, Pad, b1, b2, b3
  <2>2. CASE c3 = 64
    <3>1. b = (<<b1>> \o <<>>) \o <<>>
      BY <1>1, <2>1, <2>2
    <3> QED BY <1>2, <2>2, <3>1, SmallJoins
  <2>3. CASE c3 # 64 /\ c4 = 64
    <3>1. b = (<<b1>> \o <<b2>>) \o <<>>
      BY <2>1, <2>3
    <3> QED BY <1>2, <2>3, <3>1, SmallJoins
  <2>4. CASE c3 # 64 /\ c4 # 64
    <3>1. b = (<<b1>> \o <<b2>>) \o <<b3>>
      BY <2>1, <2>4
    <3> QED BY <1>2, <2>4, <3>1, SmallJoins
  <2> QED BY <2>2, <2>3, <2>4
<1>4. left = IF c3 = 64 THEN 1 ELSE IF c4 = 64 THEN 2 ELSE 3
  BY DEF Pad
<1> HIDE DEF left
<1> DEFINE d2 == IF left >= 2 THEN b2 ELSE 0
           d3 == IF left >= 3 THEN b3 ELSE 0
<1>5. Len(b) = left /\ b \in Seq(Octets) /\ ByteOf(b, 1) = b1 /\ ByteOf(b, 2) = d2 /\ ByteOf(b, 3) = d3
  <2> HIDE DEF b1, b2, b3
  <2>1. CASE c3 = 64
    <3>1. b = <<b1>> /\ left = 1
      BY <1>3, <1>4, <2>1
    <3> QED BY <1>2, <3>1 DEF ByteOf
  <2>2. CASE c3 # 64 /\ c4 = 64
    <3>1. b = <<b1, b2>> /\ left = 2
      BY <1>3, <1>4, <2>2
    <3> QED BY <1>2, <3>1 DEF ByteOf
  <2>3. CASE c3 # 64 /\ c4 # 64
    <3>1. b = <<b1, b2, b3>> /\ left = 3
      BY <1>3, <1>4, <2>3
    <3> QED BY <1>2, <3>1 DEF ByteOf
  <2> QED BY <2>1, <2>2, <2>3
<1>6. /\ b1 \div 4 = c1 /\ (b1 % 4) * 16 + d2 \div 16 = c2
      /\ left >= 2 => (d2 % 16) * 4 + d3 \div 64 = c3
      /\ left >= 3 => d3 % 64 = c4
  <2> DEFINE q == c2 \div 16
             r == c2 % 16
             s == c3 \div 4
             u == c3 % 4
  <2>1. q \in 0 .. 3 /\ r \in 0 .. 15 /\ c2 = 16 * q + r /\ s \in 0 .. 16 /\ u \in 0 .. 3 /\ c3 = 4 * s + u
        /\ (c3 # 64 => s \in 0 .. 15)
    BY <1>1
  <2>2. b1 = 4 * c1 + q
    <3>1. b1 = (c1 * 4 + q) % 256
      BY <1>1
    <3> HIDE DEF b1, q
    <3> QED BY <1>1, <2>1, <3>1
  <2>3. c3 # 64 => b2 = 16 * r + s
    <3>1. c3 # 64 => b2 = (c2 * 16 + s) % 256
      BY <1>1
    <3> HIDE DEF b2, s, r, q
    <3> QED BY <1>1, <2>1, <3>1
  <2>4. c3 # 64 /\ c4 # 64 => b3 = 64 * u + c4
    <3>1. c3 # 64 /\ c4 # 64 => b3 = (c3 * 64 + c4) % 256
      BY <1>1
    <3> HIDE DEF b3, u, s
    <3> QED BY <1>1, <2>1, <3>1
  <2>5. (c3 = 64 => r = 0) /\ (c4 = 64 /\ c3 # 64 => u = 0)
    BY <1>1
  <2> HIDE DEF b1, b2, b3, q, r, s, u
  <2>6. b1 \div 4 = c1 /\ b1 % 4 = q
    BY <1>1, <2>1, <2>2
  <2>7. c3 # 64 => b2 \div 16 = r /\ b2 % 16 = s
    BY <1>1, <2>1, <2>3
  <2>8. c3 # 64 /\ c4 # 64 => b3 \div 64 = u /\ b3 % 64 = c4
    BY <1>1, <2>1, <2>4
  <2>9. 0 \div 16 = 0 /\ 0 \div 64 = 0
    OBVIOUS
  <2>10. CASE c3 = 64
    <3>1. left = 1 /\ d2 = 0 /\ r = 0
      BY <1>4, <2>5, <2>10
    <3> HIDE DEF d2, d3
    <3> QED BY <2>1, <2>6, <2>9, <3>1
  <2>11. CASE c3 # 64 /\ c4 = 64
    <3>1. left = 2 /\ d2 = b2 /\ d3 = 0 /\ u = 0
      BY <1>4, <2>5, <2>11
    <3> HIDE DEF d2, d3
    <3> QED BY <2>1, <2>6, <2>7, <2>9, <2>11, <3>1
  <2>12. CASE c3 # 64 /\ c4 # 64
    <3>1. left = 3 /\ d2 = b2 /\ d3 = b3
      BY <1>4, <2>12
    <3> HIDE DEF d2, d3
    <3> QED BY <2>1, <2>6, <2>7, <2>8, <2>12, <3>1
  <2> QED BY <2>10, <2>11, <2>12
<1>7. QuadOf(b1, d2, d3, left) = <<c1, c2, c3, c4>>
  <2>1. d2 \in Octets /\ d3 \in Octets /\ left \in Nat
    BY <1>2, <1>4 DEF Octets
  <2> HIDE DEF b1, b2, b3, d2, d3
  <2>2. QuadOf(b1, d2, d3, left) =
           << b1 \div 4, (b1 % 4) * 16 + d2 \div 16,
              IF left >= 2 THEN (d2 % 16) * 4 + d3 \div 64 ELSE Pad, IF left >= 3 THEN d3 % 64 ELSE Pad >>
    BY <1>2, <2>1, QuadIs
  <2>3. (left < 2 => c3 = Pad) /\ (left < 3 => c4 = Pad)
    BY <1>1, <1>4 DEF Pad
  <2> QED BY <1>4, <1>6, <2>2, <2>3
<1>8. left \in 1 .. 3 /\ (~last => left = 3)
  BY <1>1, <1>4
<1> QED BY <1>5, <1>7, <1>8

EncodedQuad(b, k) == QuadOf(ByteOf(b, 3*k - 2), ByteOf(b, 3*k - 1), ByteOf(b, 3*k), Len(b) - 3 * (k - 1))
DecodedTriple(s, k) == Triple(s[4 * (k - 1) + 1], s[4 * (k - 1) + 2], s[4 * (k - 1) + 3], s[4 * (k - 1) + 4])
AcceptedQuad(s, k, last) ==
  QuadAccepted(s[4 * (k - 1) + 1], s[4 * (k - 1) + 2], s[4 * (k - 1) + 3], s[4 * (k - 1) + 4], last)

LEMMA EncodeIs ==
  ASSUME NEW b
  PROVE  EncodeBase64(b) = FlattenSeq([k \in 1 .. (Len(b) + 2) \div 3 |-> EncodedQuad(b, k)])
BY DEF EncodeBase64, EncodedQuad, QuadOf, ByteOf

LEMMA DecodeIs ==
  ASSUME NEW s, NEW q, q = Len(s) \div 4
  PROVE  DecodeBase64(s) = IF s # <<>> /\ Len(s) % 4 = 0 /\ \A k \in 1 .. q : AcceptedQuad(s, k, k = q)
                           THEN Accepted(FlattenSeq([k \in 1 .. q |-> DecodedTriple(s, k)]))
                           ELSE Refused("InvalidParams")
BY DEF DecodeBase64, DecodedTriple, Triple, AcceptedQuad, QuadAccepted, Sextet

\* The k-th bytes of b, x, are what the k-th quad of its spelling stands for.
TripleKept(b, n, K, k, x) ==
  /\ x \in Text /\ Len(x) \in 1 .. 3
  /\ k < K => Len(x) = 3
  /\ k = K => 3 * (k - 1) + Len(x) = n
  /\ \A i \in 1 .. Len(x) : 3 * (k - 1) + i \in 1 .. n /\ x[i] = b[3 * (k - 1) + i]

\* A quad of the encoding of b, and what it decodes to.
LEMMA EncodedQuadIs ==
  ASSUME NEW b \in Seq(Octets), NEW n \in Nat, n = Len(b), NEW K \in Nat, K = (n + 2) \div 3, NEW k \in 1 .. K,
         NEW t, t = EncodedQuad(b, k), NEW x, x = Triple(t[1], t[2], t[3], t[4])
  PROVE  /\ t \in Text /\ Len(t) = 4 /\ QuadAccepted(t[1], t[2], t[3], t[4], k = K)
         /\ TripleKept(b, n, K, k, x)
<1> DEFINE b1 == ByteOf(b, 3*k - 2)
           b2 == ByteOf(b, 3*k - 1)
           b3 == ByteOf(b, 3*k)
           left == n - 3 * (k - 1)
<1>1. 3 * K \in n .. n + 2 /\ k \in Nat /\ k >= 1 /\ k <= K
  OBVIOUS
<1>2. left \in Nat /\ left >= 1 /\ (left < 3 => k = K) /\ (k = K => left <= 3)
  BY <1>1
<1>3. DOMAIN b = 1 .. n /\ \A i \in 1 .. n : b[i] \in Octets
  BY LenProperties, ElementOfSeq
<1>4. b1 \in Octets /\ b2 \in Octets /\ b3 \in Octets /\ (left < 2 => b2 = 0) /\ (left < 3 => b3 = 0)
      /\ b1 = b[3*k - 2] /\ (left >= 2 => b2 = b[3*k - 1]) /\ (left >= 3 => b3 = b[3*k])
  <2>1. \A i \in Int : (i \in 1 .. n => ByteOf(b, i) = b[i] /\ ByteOf(b, i) \in Octets) /\ (i \notin 1 .. n => ByteOf(b, i) = 0)
    BY <1>3 DEF ByteOf
  <2>2. 3*k - 2 \in 1 .. n /\ (left >= 2 <=> 3*k - 1 \in 1 .. n) /\ (left >= 3 <=> 3*k \in 1 .. n)
    BY <1>1, <1>2
  <2>3. 3*k - 2 \in Int /\ 3*k - 1 \in Int /\ 3*k \in Int /\ 0 \in Octets
    BY <1>1 DEF Octets
  <2>4. (left < 2 <=> ~(left >= 2)) /\ (left < 3 <=> ~(left >= 3))
    BY <1>2
  <2> HIDE DEF left
  <2>5. b1 \in Octets /\ b1 = b[3*k - 2]
    BY <2>1, <2>2, <2>3
  <2>6. b2 \in Octets /\ (left < 2 => b2 = 0) /\ (left >= 2 => b2 = b[3*k - 1])
    BY <2>1, <2>2, <2>3, <2>4
  <2>7. b3 \in Octets /\ (left < 3 => b3 = 0) /\ (left >= 3 => b3 = b[3*k])
    BY <2>1, <2>2, <2>3, <2>4
  <2> QED BY <2>5, <2>6, <2>7
<1>5. t = QuadOf(b1, b2, b3, left)
  BY DEF EncodedQuad
<1> DEFINE last == (k = K)
<1>6. last \in BOOLEAN /\ (left < 3 => last)
  BY <1>2
<1> HIDE DEF b1, b2, b3, left, last
<1>7. /\ t \in Text /\ Len(t) = 4 /\ QuadAccepted(t[1], t[2], t[3], t[4], last)
      /\ x = IF left = 1 THEN <<b1>> ELSE IF left = 2 THEN <<b1, b2>> ELSE <<b1, b2, b3>>
  BY <1>2, <1>4, <1>5, <1>6, QuadComesBack
<1>8. Octets \subseteq Nat
  BY DEF Octets
<1>9. x \in Text /\ Len(x) = (IF left = 1 THEN 1 ELSE IF left = 2 THEN 2 ELSE 3) /\ x[1] = b1
      /\ (left >= 2 => x[2] = b2) /\ (left >= 3 => x[3] = b3)
  <2>1. CASE left = 1
    BY <1>4, <1>7, <1>8, <2>1 DEF Text
  <2>2. CASE left = 2
    <3>1. x = <<b1, b2>>
      BY <1>7, <2>2
    <3> QED BY <1>4, <1>8, <2>2, <3>1 DEF Text
  <2>3. CASE left >= 3
    <3>1. x = <<b1, b2, b3>>
      BY <1>7, <2>3
    <3> QED BY <1>4, <1>8, <2>3, <3>1 DEF Text
  <2> QED BY <1>2, <2>1, <2>2, <2>3
<1>10. 3 * (k - 1) + 1 = 3*k - 2 /\ 3 * (k - 1) + 2 = 3*k - 1 /\ 3 * (k - 1) + 3 = 3*k
  BY <1>1
<1>11. x[1] = b[3 * (k - 1) + 1] /\ (left >= 2 => x[2] = b[3 * (k - 1) + 2]) /\ (left >= 3 => x[3] = b[3 * (k - 1) + 3])
  BY <1>4, <1>9, <1>10
<1>12. Len(x) \in 1 .. 3 /\ (k < K => Len(x) = 3) /\ (k = K => 3 * (k - 1) + Len(x) = n) /\ Len(x) <= left
  BY <1>1, <1>2, <1>9 DEF left
<1>13. ASSUME NEW i \in 1 .. Len(x) PROVE 3 * (k - 1) + i \in 1 .. n /\ x[i] = b[3 * (k - 1) + i]
  <2>0. i \in 1 .. Len(x)
    BY <1>13
  <2>1. i \in 1 .. 3 /\ i <= left
    <3> DEFINE m == Len(x)
    <3> HIDE DEF m
    <3>1. m \in 1 .. 3 /\ m <= left /\ i \in 1 .. m /\ left \in Nat
      BY <1>2, <1>12, <2>0 DEF m
    <3> QED BY <3>1
  <2>2. x[i] = b[3 * (k - 1) + i]
    <3>1. CASE i = 1
      BY <1>11, <3>1
    <3>2. CASE i = 2
      BY <1>11, <2>1, <3>2
    <3>3. CASE i = 3
      BY <1>11, <2>1, <3>3
    <3> QED BY <2>1, <3>1, <3>2, <3>3
  <2>3. 3 * (k - 1) + i \in 1 .. n
    BY <1>1, <2>1 DEF left
  <2> QED BY <2>2, <2>3
<1> QED BY <1>7, <1>9, <1>12, <1>13 DEF left, last, TripleKept

LEMMA EncodedText ==
  ASSUME NEW b \in Seq(Octets), NEW n \in Nat, n = Len(b), n # 0, NEW K \in Nat, K = (n + 2) \div 3
  PROVE  /\ EncodeBase64(b) \in Text /\ Len(EncodeBase64(b)) = 4 * K /\ K # 0
         /\ \A k \in 1 .. K : \A i \in 1 .. 4 : EncodeBase64(b)[4 * (k - 1) + i] = EncodedQuad(b, k)[i]
<1> DEFINE parts == [k \in 1 .. K |-> EncodedQuad(b, k)]
<1>1. EncodeBase64(b) = FlattenSeq(parts)
  BY EncodeIs
<1>2. \A k \in 1 .. K : EncodedQuad(b, k) \in Text /\ Len(EncodedQuad(b, k)) = 4
  <2> TAKE k \in 1 .. K
  <2> DEFINE t == EncodedQuad(b, k)
             x == Triple(t[1], t[2], t[3], t[4])
  <2>1. t = EncodedQuad(b, k) /\ x = Triple(t[1], t[2], t[3], t[4])
    OBVIOUS
  <2> HIDE DEF t, x
  <2>2. t \in Text /\ Len(t) = 4
    BY <2>1, EncodedQuadIs
  <2> QED BY <2>1, <2>2
<1>3. parts \in [1 .. K -> Text] /\ \A k \in 1 .. K : parts[k] = EncodedQuad(b, k) /\ Len(parts[k]) = 4
  BY <1>2
<1> HIDE DEF parts
<1>4. parts \in Seq(Text) /\ Len(parts) = K
  BY <1>3, SeqDef, LenProperties
<1>5. K # 0
  OBVIOUS
<1>6. /\ FlattenSeq(parts) \in Text
      /\ K # 0 => Len(FlattenSeq(parts)) = 4 * (K - 1) + Len(parts[K])
      /\ \A k \in 1 .. K : \A i \in 1 .. Len(parts[k]) : FlattenSeq(parts)[4 * (k - 1) + i] = parts[k][i]
  <2>1. 4 \in Nat /\ \A k \in 1 .. K : k < K => Len(parts[k]) = 4
    BY <1>3
  <2> QED BY <1>4, <2>1, FlatEven
<1>7. Len(FlattenSeq(parts)) = 4 * K
  <2>1. K \in 1 .. K
    BY <1>5
  <2>2. Len(FlattenSeq(parts)) = 4 * (K - 1) + 4
    BY <1>3, <1>5, <1>6, <2>1
  <2> QED BY <2>2
<1>8. \A k \in 1 .. K : \A i \in 1 .. 4 : FlattenSeq(parts)[4 * (k - 1) + i] = EncodedQuad(b, k)[i]
  BY <1>3, <1>6
<1> QED BY <1>1, <1>5, <1>6, <1>7, <1>8

\* encode_base64 loses nothing: decode_base64 gives back the bytes that were encoded.
THEOREM BytesComeBack ==
  ASSUME NEW b \in Seq(Octets), b # <<>>
  PROVE  DecodeBase64(EncodeBase64(b)) = Accepted(b)
<1> DEFINE n == Len(b)
           K == (n + 2) \div 3
           t == EncodeBase64(b)
           parts == [k \in 1 .. K |-> DecodedTriple(t, k)]
<1>1. n \in Nat /\ n # 0 /\ DOMAIN b = 1 .. n
  BY LenProperties, EmptySeq
<1>2. K \in Nat
  BY <1>1
<1> HIDE DEF n
<1>3. n = Len(b) /\ K = (n + 2) \div 3
  BY DEF n
<1> HIDE DEF K, t
<1>4. t \in Text /\ Len(t) = 4 * K /\ K # 0
      /\ \A k \in 1 .. K : \A i \in 1 .. 4 : t[4 * (k - 1) + i] = EncodedQuad(b, k)[i]
  BY <1>1, <1>2, <1>3, EncodedText DEF t
<1>5. t # <<>> /\ Len(t) % 4 = 0 /\ K = Len(t) \div 4
  <2>1. Len(<<>>) = 0
    OBVIOUS
  <2> QED BY <1>2, <1>4, <2>1
<1>6. ASSUME NEW k \in 1 .. K
      PROVE  /\ AcceptedQuad(t, k, k = K)
             /\ parts[k] \in Text /\ Len(parts[k]) \in 1 .. 3 /\ (k < K => Len(parts[k]) = 3)
             /\ (k = K => 3 * (k - 1) + Len(parts[k]) = n)
             /\ \A i \in 1 .. Len(parts[k]) : 3 * (k - 1) + i \in 1 .. n /\ parts[k][i] = b[3 * (k - 1) + i]
  <2> DEFINE e == EncodedQuad(b, k)
  <2>1. t[4 * (k - 1) + 1] = e[1] /\ t[4 * (k - 1) + 2] = e[2] /\ t[4 * (k - 1) + 3] = e[3] /\ t[4 * (k - 1) + 4] = e[4]
    BY <1>4
  <2>2. parts[k] = Triple(e[1], e[2], e[3], e[4])
    BY <2>1 DEF DecodedTriple
  <2>3. AcceptedQuad(t, k, k = K) <=> QuadAccepted(e[1], e[2], e[3], e[4], k = K)
    BY <2>1 DEF AcceptedQuad
  <2> HIDE DEF parts
  <2> DEFINE x == Triple(e[1], e[2], e[3], e[4])
  <2>4. /\ QuadAccepted(e[1], e[2], e[3], e[4], k = K)
        /\ TripleKept(b, n, K, k, x)
    <3>1. n \in Nat /\ n = Len(b) /\ K \in Nat /\ K = (n + 2) \div 3 /\ k \in 1 .. K /\ b \in Seq(Octets)
      BY <1>1, <1>2, <1>3
    <3>2. e = EncodedQuad(b, k) /\ x = Triple(e[1], e[2], e[3], e[4])
      OBVIOUS
    <3> HIDE DEF e, x
    <3> QED BY ONLY <3>1, <3>2, EncodedQuadIs
  <2>5. parts[k] = x
    BY <2>2
  <2> HIDE DEF e, x
  <2> QED BY <2>3, <2>4, <2>5 DEF TripleKept
<1>7. DecodeBase64(t) = Accepted(FlattenSeq(parts))
  <2>1. \A k \in 1 .. K : AcceptedQuad(t, k, k = K)
    BY <1>6
  <2> QED BY <1>5, <2>1, DecodeIs
<1>8. parts \in Seq(Text) /\ Len(parts) = K
  <2>1. parts \in [1 .. K -> Text]
    BY <1>6
  <2> HIDE DEF parts
  <2> QED BY <1>2, <2>1, SeqDef, LenProperties
<1> HIDE DEF parts
<1> DEFINE f == FlattenSeq(parts)
<1>9. /\ f \in Text
      /\ K # 0 => Len(f) = 3 * (K - 1) + Len(parts[K])
      /\ \A k \in 1 .. K : \A i \in 1 .. Len(parts[k]) : f[3 * (k - 1) + i] = parts[k][i]
  <2>1. 3 \in Nat /\ \A k \in 1 .. K : k < K => Len(parts[k]) = 3
    BY <1>6
  <2> QED BY <1>2, <1>8, <2>1, FlatEven
<1> HIDE DEF f
<1>10. Len(f) = n
  <2>1. K \in 1 .. K
    BY <1>2, <1>4
  <2> QED BY <1>4, <1>6, <1>9, <2>1
<1>11. ASSUME NEW j \in 1 .. n PROVE f[j] = b[j]
  <2> DEFINE k == (j + 2) \div 3
             i == j - 3 * (k - 1)
  <2>1. k \in 1 .. K /\ i \in 1 .. 3 /\ j = 3 * (k - 1) + i
    BY <1>1, <1>3
  <2> HIDE DEF k, i
  <2>2. i <= Len(parts[k])
    <3> DEFINE m == Len(parts[k])
    <3>0. m \in 1 .. 3 /\ (k < K => m = 3) /\ (k = K => 3 * (k - 1) + m = n)
      BY <1>6, <2>1
    <3> HIDE DEF m
    <3>1. CASE k < K
      <4>1. i <= m
        BY <2>1, <3>0, <3>1
      <4> QED BY <4>1 DEF m
    <3>2. CASE k = K
      <4>1. i <= m
        BY <1>1, <2>1, <3>0, <3>2
      <4> QED BY <4>1 DEF m
    <3> QED BY <1>2, <2>1, <3>1, <3>2
  <2>3. i \in 1 .. Len(parts[k])
    BY <1>6, <2>1, <2>2
  <2>4. f[3 * (k - 1) + i] = b[3 * (k - 1) + i]
    BY <1>6, <1>9, <2>1, <2>3
  <2> QED BY <2>1, <2>4
<1>12. f = b
  <2>1. b \in Seq(Nat)
    <3>1. Octets \subseteq Nat
      BY DEF Octets
    <3>2. b \in [1 .. n -> Nat]
      BY <1>1, <1>3, <3>1, LenProperties, ElementOfSeq
    <3> QED BY <1>1, <3>2, SeqDef
  <2>2. f \in Seq(Nat)
    BY <1>9 DEF Text
  <2>3. Len(f) = Len(b) /\ \A j \in 1 .. Len(f) : f[j] = b[j]
    BY <1>3, <1>10, <1>11
  <2> QED BY <2>1, <2>2, <2>3, SeqEqual
<1> QED BY <1>7, <1>12 DEF t, f

LEMMA FullQuad ==
  ASSUME NEW b1, NEW b2, NEW b3, NEW left \in Nat, left >= 3
  PROVE  QuadOf(b1, b2, b3, left) = QuadOf(b1, b2, b3, 3)
<1>1. left >= 2 /\ left >= 3 /\ 3 >= 2 /\ 3 >= 3
  OBVIOUS
<1> QED BY <1>1 DEF QuadOf

\* The bytes of a text that decode_base64 accepts, quad by quad.
LEMMA DecodedBytes ==
  ASSUME NEW s \in Text, NEW K \in Nat, K = Len(s) \div 4, s # <<>>, Len(s) % 4 = 0,
         \A k \in 1 .. K : AcceptedQuad(s, k, k = K),
         NEW f, f = FlattenSeq([k \in 1 .. K |-> DecodedTriple(s, k)])
  PROVE  /\ Len(s) = 4 * K /\ K # 0 /\ f \in Seq(Octets) /\ Len(f) # 0 /\ (Len(f) + 2) \div 3 = K
         /\ \A k \in 1 .. K : /\ EncodedQuad(f, k)[1] = s[4 * (k - 1) + 1] /\ EncodedQuad(f, k)[2] = s[4 * (k - 1) + 2]
                              /\ EncodedQuad(f, k)[3] = s[4 * (k - 1) + 3] /\ EncodedQuad(f, k)[4] = s[4 * (k - 1) + 4]
<1> DEFINE parts == [k \in 1 .. K |-> DecodedTriple(s, k)]
           n == Len(f)
<1>1. Len(s) = 4 * K /\ K # 0 /\ DOMAIN s = 1 .. 4 * K /\ \A i \in 1 .. 4 * K : s[i] \in Nat
  <2>0. s \in Seq(Nat)
    BY DEF Text
  <2> DEFINE m == Len(s)
  <2>1. m \in Nat /\ m # 0 /\ DOMAIN s = 1 .. m /\ \A i \in 1 .. m : s[i] \in Nat
    BY <2>0, LenProperties, EmptySeq, ElementOfSeq
  <2>2. K = m \div 4 /\ m % 4 = 0
    OBVIOUS
  <2> HIDE DEF m
  <2>3. m = 4 * K
    BY <2>1, <2>2
  <2> QED BY <2>1, <2>3 DEF m
<1>2. ASSUME NEW k \in 1 .. K
      PROVE  LET b == parts[k]
                 left == Len(b) IN
             /\ b \in Seq(Octets) /\ left \in 1 .. 3 /\ (k < K => left = 3)
             /\ QuadOf(ByteOf(b, 1), ByteOf(b, 2), ByteOf(b, 3), left)
                  = << s[4 * (k - 1) + 1], s[4 * (k - 1) + 2], s[4 * (k - 1) + 3], s[4 * (k - 1) + 4] >>
  <2> DEFINE c1 == s[4 * (k - 1) + 1]
             c2 == s[4 * (k - 1) + 2]
             c3 == s[4 * (k - 1) + 3]
             c4 == s[4 * (k - 1) + 4]
             last == (k = K)
             b == Triple(c1, c2, c3, c4)
  <2>1. parts[k] = b
    BY DEF DecodedTriple
  <2>2. 4 * (k - 1) + 1 \in 1 .. 4 * K /\ 4 * (k - 1) + 2 \in 1 .. 4 * K /\ 4 * (k - 1) + 3 \in 1 .. 4 * K
        /\ 4 * (k - 1) + 4 \in 1 .. 4 * K
    OBVIOUS
  <2>3. c1 \in Nat /\ c2 \in Nat /\ c3 \in Nat /\ c4 \in Nat
    BY <1>1, <2>2
  <2>4. QuadAccepted(c1, c2, c3, c4, last)
    BY DEF AcceptedQuad
  <2>5. last \in BOOLEAN /\ (k < K => ~last)
    OBVIOUS
  <2> HIDE DEF c1, c2, c3, c4, last, parts, b
  <2>9. b = Triple(c1, c2, c3, c4)
    BY DEF b
  <2>6. /\ b \in Seq(Octets) /\ Len(b) \in 1 .. 3 /\ (~last => Len(b) = 3)
        /\ QuadOf(ByteOf(b, 1), ByteOf(b, 2), ByteOf(b, 3), Len(b)) = <<c1, c2, c3, c4>>
    BY ONLY <2>3, <2>4, <2>5, <2>9, TripleComesBack
  <2>7. k < K => Len(b) = 3
    BY <2>5, <2>6
  <2> QED BY <2>1, <2>6, <2>7 DEF c1, c2, c3, c4
<1> HIDE DEF parts
<1>3. Octets \subseteq Nat
  BY DEF Octets
<1>4. \A k \in 1 .. K : parts[k] \in Text /\ Len(parts[k]) \in 1 .. 3 /\ (k < K => Len(parts[k]) = 3)
                        /\ \A i \in 1 .. Len(parts[k]) : parts[k][i] \in Octets
  <2>1. ASSUME NEW k \in 1 .. K PROVE parts[k] \in Text
    <3> DEFINE b == parts[k]
    <3>1. b \in Seq(Octets)
      BY <1>2
    <3> HIDE DEF b
    <3>2. b \in [1 .. Len(b) -> Nat] /\ Len(b) \in Nat
      BY <1>3, <3>1, LenProperties, ElementOfSeq
    <3>3. b \in Text
      BY <3>2, SeqDef DEF Text
    <3> QED BY <3>3 DEF b
  <2>2. ASSUME NEW k \in 1 .. K, NEW i \in 1 .. Len(parts[k]) PROVE parts[k][i] \in Octets
    <3> DEFINE b == parts[k]
    <3>1. b \in Seq(Octets) /\ i \in 1 .. Len(b)
      BY <1>2
    <3> HIDE DEF b
    <3>2. b[i] \in Octets
      BY <3>1, ElementOfSeq
    <3> QED BY <3>2 DEF b
  <2> QED BY <1>2, <2>1, <2>2
<1>5. parts \in Seq(Text) /\ Len(parts) = K
  <2>1. parts \in [1 .. K -> Text]
    BY <1>4 DEF parts
  <2> QED BY <2>1, SeqDef, LenProperties
<1>6. /\ f \in Text
      /\ n = 3 * (K - 1) + Len(parts[K])
      /\ \A k \in 1 .. K : \A i \in 1 .. Len(parts[k]) : f[3 * (k - 1) + i] = parts[k][i]
  <2>1. 3 \in Nat /\ \A k \in 1 .. K : k < K => Len(parts[k]) = 3
    BY <1>4
  <2>2. f = FlattenSeq(parts)
    BY DEF parts
  <2>3. /\ FlattenSeq(parts) \in Text
        /\ K # 0 => Len(FlattenSeq(parts)) = 3 * (K - 1) + Len(parts[K])
        /\ \A k \in 1 .. K : \A i \in 1 .. Len(parts[k]) : FlattenSeq(parts)[3 * (k - 1) + i] = parts[k][i]
    BY <1>5, <2>1, FlatEven
  <2> QED BY <1>1, <2>2, <2>3
<1>7. /\ n \in Nat /\ n # 0 /\ (n + 2) \div 3 = K
      /\ \A k \in 1 .. K : \A i \in 1 .. 3 : 3 * (k - 1) + i \in 1 .. n <=> i <= Len(parts[k])
      /\ \A k \in 1 .. K : (k < K => n - 3 * (k - 1) >= 3) /\ (k = K => n - 3 * (k - 1) = Len(parts[k]))
  <2> DEFINE m == Len(parts[K])
  <2>0. K \in 1 .. K
    BY <1>1
  <2>1. m \in 1 .. 3 /\ n = 3 * (K - 1) + m
    BY <1>4, <1>6, <2>0
  <2> HIDE DEF m, n
  <2>2. n \in Nat /\ n # 0 /\ (n + 2) \div 3 = K
    <3>1. n \in Nat /\ n # 0 /\ n + 2 = 3 * K + (m - 1) /\ m - 1 \in 0 .. 2
      BY <1>1, <2>1
    <3>2. (3 * K + (m - 1)) \div 3 = K
      BY <3>1
    <3> QED BY <3>1, <3>2
  <2>3. ASSUME NEW k \in 1 .. K, NEW i \in 1 .. 3
        PROVE  /\ 3 * (k - 1) + i \in 1 .. n <=> i <= Len(parts[k])
               /\ k < K => n - 3 * (k - 1) >= 3
               /\ k = K => n - 3 * (k - 1) = Len(parts[k])
    <3>1. CASE k = K
      <4>1. Len(parts[k]) = m
        BY <3>1 DEF m
      <4> QED BY <2>1, <2>3, <3>1, <4>1
    <3>2. CASE k < K
      <4>1. Len(parts[k]) = 3
        BY <1>4, <3>2
      <4>2. 3 * (k - 1) + i \in 1 .. n /\ n - 3 * (k - 1) >= 3 /\ i <= 3
        BY <2>1, <2>3, <3>2
      <4> QED BY <3>2, <4>1, <4>2
    <3> QED BY <2>3, <3>1, <3>2
  <2>4. 1 \in 1 .. 3
    OBVIOUS
  <2> QED BY <2>2, <2>3, <2>4
<1>8. DOMAIN f = 1 .. n /\ f \in Seq(Octets)
  <2>0. f \in Seq(Nat)
    BY <1>6 DEF Text
  <2>1. DOMAIN f = 1 .. n /\ f \in [1 .. n -> Nat]
    BY <2>0, LenProperties
  <2>2. ASSUME NEW j \in 1 .. n PROVE f[j] \in Octets
    <3> DEFINE k == (j + 2) \div 3
               i == j - 3 * (k - 1)
    <3> HIDE DEF n
    <3>1. k \in 1 .. K /\ i \in 1 .. 3 /\ j = 3 * (k - 1) + i
      BY <1>7
    <3> HIDE DEF k, i
    <3>2. i <= Len(parts[k])
      BY <1>7, <3>1
    <3>3. i \in 1 .. Len(parts[k])
      BY <1>4, <3>1, <3>2
    <3>4. f[3 * (k - 1) + i] = parts[k][i] /\ parts[k][i] \in Octets
      BY <1>4, <1>6, <3>1, <3>3
    <3> QED BY <3>1, <3>4
  <2>3. f \in [1 .. n -> Octets]
    BY <2>1, <2>2
  <2> HIDE DEF n
  <2> QED BY <1>7, <2>1, <2>3, SeqDef
<1>9. ASSUME NEW k \in 1 .. K
      PROVE  EncodedQuad(f, k) = << s[4 * (k - 1) + 1], s[4 * (k - 1) + 2], s[4 * (k - 1) + 3], s[4 * (k - 1) + 4] >>
  <2> DEFINE b == parts[k]
             left == n - 3 * (k - 1)
  <2>1. ASSUME NEW i \in 1 .. 3 PROVE ByteOf(f, 3 * (k - 1) + i) = ByteOf(b, i)
    <3>1. b \in Text
      BY <1>4
    <3>2. 3 * (k - 1) + i \in 1 .. n <=> i <= Len(b)
      BY <1>7
    <3>3. i <= Len(b) => f[3 * (k - 1) + i] = b[i]
      <4>1. i <= Len(b) => i \in 1 .. Len(b)
        BY <1>4
      <4> QED BY <1>6, <4>1
    <3> HIDE DEF b, n
    <3>4. DOMAIN b = 1 .. Len(b) /\ Len(b) \in Nat
      BY <3>1, LenProperties DEF Text
    <3>5. i \in DOMAIN b <=> i <= Len(b)
      BY <3>4
    <3> QED BY <1>8, <3>2, <3>3, <3>5 DEF ByteOf
  <2>2. 3 * (k - 1) + 1 = 3*k - 2 /\ 3 * (k - 1) + 2 = 3*k - 1 /\ 3 * (k - 1) + 3 = 3*k
    OBVIOUS
  <2>3. ByteOf(f, 3*k - 2) = ByteOf(b, 1) /\ ByteOf(f, 3*k - 1) = ByteOf(b, 2) /\ ByteOf(f, 3*k) = ByteOf(b, 3)
    <3>1. 1 \in 1 .. 3 /\ 2 \in 1 .. 3 /\ 3 \in 1 .. 3
      OBVIOUS
    <3>2. ByteOf(f, 3 * (k - 1) + 1) = ByteOf(b, 1) /\ ByteOf(f, 3 * (k - 1) + 2) = ByteOf(b, 2)
          /\ ByteOf(f, 3 * (k - 1) + 3) = ByteOf(b, 3)
      BY <2>1, <3>1
    <3> QED BY <2>2, <3>2
  <2>4. EncodedQuad(f, k) = QuadOf(ByteOf(b, 1), ByteOf(b, 2), ByteOf(b, 3), left)
    BY <2>3 DEF EncodedQuad
  <2>5. left \in Nat /\ (left = Len(b) \/ (left >= 3 /\ Len(b) = 3))
    <3>1. k = K \/ k < K
      OBVIOUS
    <3>2. (k < K => left >= 3 /\ Len(b) = 3) /\ (k = K => left = Len(b)) /\ Len(b) \in Nat
      <4>1. (k < K => left >= 3) /\ (k = K => left = Len(b))
        BY <1>7
      <4>2. Len(b) \in 1 .. 3 /\ (k < K => Len(b) = 3)
        BY <1>4
      <4> HIDE DEF left, b
      <4> QED BY <4>1, <4>2
    <3>3. left \in Int
      BY <1>7
    <3> HIDE DEF left, b
    <3> QED BY <3>1, <3>2, <3>3
  <2>6. QuadOf(ByteOf(b, 1), ByteOf(b, 2), ByteOf(b, 3), left) = QuadOf(ByteOf(b, 1), ByteOf(b, 2), ByteOf(b, 3), Len(b))
    <3> HIDE DEF left, b
    <3> QED BY <2>5, FullQuad
  <2>7. QuadOf(ByteOf(b, 1), ByteOf(b, 2), ByteOf(b, 3), Len(b))
           = << s[4 * (k - 1) + 1], s[4 * (k - 1) + 2], s[4 * (k - 1) + 3], s[4 * (k - 1) + 4] >>
    BY <1>2
  <2> QED BY <2>4, <2>6, <2>7
<1>10. ASSUME NEW k \in 1 .. K
       PROVE  /\ EncodedQuad(f, k)[1] = s[4 * (k - 1) + 1] /\ EncodedQuad(f, k)[2] = s[4 * (k - 1) + 2]
              /\ EncodedQuad(f, k)[3] = s[4 * (k - 1) + 3] /\ EncodedQuad(f, k)[4] = s[4 * (k - 1) + 4]
  BY <1>9
<1> QED BY <1>1, <1>7, <1>8, <1>10

\* One body has one spelling: what decode_base64 accepts is what encode_base64 makes of the bytes
\* it stands for.
THEOREM SpellingIsUnique ==
  ASSUME NEW s \in Text, DecodeBase64(s).ok
  PROVE  EncodeBase64(DecodeBase64(s).value) = s
<1> DEFINE K == Len(s) \div 4
           f == FlattenSeq([k \in 1 .. K |-> DecodedTriple(s, k)])
           accepted == s # <<>> /\ Len(s) % 4 = 0 /\ \A k \in 1 .. K : AcceptedQuad(s, k, k = K)
<1>1. DecodeBase64(s) = IF accepted THEN Accepted(f) ELSE Refused("InvalidParams")
  BY DecodeIs
<1>2. K \in Nat
  BY LenProperties DEF Text
<1>3. accepted /\ DecodeBase64(s).value = f
  <2> HIDE DEF accepted, f
  <2>1. Accepted(f).ok = TRUE /\ Accepted(f).value = f /\ Refused("InvalidParams").ok = FALSE
    BY AcceptedValue, RefusedNot
  <2> QED BY <1>1, <2>1
<1> HIDE DEF K
<1>4. K = Len(s) \div 4
  BY DEF K
<1>5. /\ Len(s) = 4 * K /\ K # 0 /\ f \in Seq(Octets) /\ Len(f) # 0 /\ (Len(f) + 2) \div 3 = K
      /\ \A k \in 1 .. K : /\ EncodedQuad(f, k)[1] = s[4 * (k - 1) + 1] /\ EncodedQuad(f, k)[2] = s[4 * (k - 1) + 2]
                           /\ EncodedQuad(f, k)[3] = s[4 * (k - 1) + 3] /\ EncodedQuad(f, k)[4] = s[4 * (k - 1) + 4]
  <2>1. s # <<>> /\ Len(s) % 4 = 0 /\ \A k \in 1 .. K : AcceptedQuad(s, k, k = K)
    BY <1>3
  <2> QED BY <1>2, <1>4, <2>1, DecodedBytes
<1> HIDE DEF f
<1> DEFINE t == EncodeBase64(f)
<1>6. t \in Text /\ Len(t) = 4 * K
      /\ \A k \in 1 .. K : \A i \in 1 .. 4 : t[4 * (k - 1) + i] = EncodedQuad(f, k)[i]
  <2>1. Len(f) \in Nat /\ f \in Seq(Octets) /\ Len(f) # 0 /\ K = (Len(f) + 2) \div 3
    BY <1>5, LenProperties
  <2> QED BY <1>2, <2>1, EncodedText
<1> HIDE DEF t
<1>7. ASSUME NEW j \in 1 .. 4 * K PROVE t[j] = s[j]
  <2> DEFINE k == (j + 3) \div 4
             i == j - 4 * (k - 1)
  <2>1. k \in 1 .. K /\ i \in 1 .. 4 /\ j = 4 * (k - 1) + i
    BY <1>2
  <2> HIDE DEF k, i
  <2>2. t[4 * (k - 1) + i] = EncodedQuad(f, k)[i]
    BY <1>6, <2>1
  <2>3. EncodedQuad(f, k)[i] = s[4 * (k - 1) + i]
    <3>1. CASE i = 1
      BY <1>5, <2>1, <3>1
    <3>2. CASE i = 2
      BY <1>5, <2>1, <3>2
    <3>3. CASE i = 3
      BY <1>5, <2>1, <3>3
    <3>4. CASE i = 4
      BY <1>5, <2>1, <3>4
    <3>5. i = 1 \/ i = 2 \/ i = 3 \/ i = 4
      BY <2>1
    <3> QED BY <3>1, <3>2, <3>3, <3>4, <3>5
  <2> QED BY <2>1, <2>2, <2>3
<1>8. t = s
  <2>1. t \in Seq(Nat) /\ s \in Seq(Nat) /\ Len(t) = Len(s) /\ \A j \in 1 .. Len(t) : t[j] = s[j]
    BY <1>5, <1>6, <1>7 DEF Text
  <2> QED BY <2>1, SeqEqual
<1> QED BY <1>3, <1>8 DEF t

(***************************************************************************)
(* Replies reach the module, and every exchange can be completed.          *)
(***************************************************************************)
LEMMA GreatestUpTo ==
  ASSUME NEW n \in Nat, NEW S \in SUBSET (0 .. n), S # {}
  PROVE  Max(S) \in S /\ \A y \in S : Max(S) >= y
<1> DEFINE B == {k \in Nat : \A y \in S : k >= y}
<1>1. n \in B /\ B \in SUBSET Nat
  OBVIOUS
<1>2. Min(B) \in B /\ \A k \in B : Min(B) <= k
  <2> HIDE DEF B
  <2> QED BY <1>1, LeastOf
<1> DEFINE b == Min(B)
<1>3. b \in Nat /\ (\A y \in S : b >= y) /\ \A k \in Nat : (\A y \in S : k >= y) => b <= k
  BY <1>2
<1> HIDE DEF b, B
<1>4. b \in S
  <2> SUFFICES ASSUME b \notin S PROVE FALSE
    OBVIOUS
  <2>1. \A y \in S : b - 1 >= y /\ y >= 0
    BY <1>3
  <2>2. b - 1 \in Nat
    <3>1. PICK y \in S : y \in 0 .. n
      OBVIOUS
    <3> QED BY <1>3, <2>1, <3>1
  <2> QED BY <1>3, <2>1, <2>2
<1> QED BY <1>3, <1>4 DEF Max

\* Many small parts make a bounded whole.
LEMMA TotalAtMost ==
  ASSUME NEW chunks \in Seq(Nat), NEW b \in Nat, NEW n \in Nat, n = Len(chunks), \A k \in 1 .. n : chunks[k] <= b
  PROVE  Total(chunks) \in 0 .. n * b
<1>1. \A k \in 1 .. n : chunks[k] \in Nat
  BY ElementOfSeq
<1>2. chunks \in Seq(Int)
  <2>1. chunks \in [1 .. n -> Int]
    BY <1>1, LenProperties
  <2> QED BY <2>1, SeqDef
<1>3. PICK u \in [0 .. n -> Int] : u[0] = 0 /\ u[n] = Total(chunks) /\ \A k \in 1 .. n : u[k] = u[k - 1] + chunks[k]
  BY <1>2, TotalPrefixes
<1> DEFINE S == {k \in Nat : u[k] \in 0 .. k * b}
<1>4. 0 \in S
  BY <1>3
<1>5. ASSUME NEW k \in Nat, k \in S, k < n PROVE k + 1 \in S
  <2>1. k + 1 \in 1 .. n /\ (k + 1) - 1 = k
    BY <1>5
  <2>2. u[k + 1] = u[k] + chunks[k + 1] /\ chunks[k + 1] \in 0 .. b
    BY <1>1, <1>3, <2>1
  <2>3. (k + 1) * b = k * b + b /\ k * b \in Nat
    OBVIOUS
  <2>4. u[k] \in 0 .. k * b
    BY <1>5
  <2> DEFINE x == k * b
             y == (k + 1) * b
             z == u[k + 1]
  <2>5. x \in Nat /\ y = x + b /\ u[k] \in 0 .. x /\ z = u[k] + chunks[k + 1]
    BY <2>2, <2>3, <2>4
  <2> HIDE DEF x, y, z
  <2>6. z \in 0 .. y
    BY <2>2, <2>5
  <2> QED BY <2>6 DEF y, z
<1>6. n \in S
  <2> HIDE DEF S
  <2>1. 0 .. n \subseteq S
    BY <1>4, <1>5, UpTo
  <2> QED BY <2>1
<1> QED BY <1>3, <1>6

\* A JSON value within these measures, and one that holds such values.
Measures(depth, items, str, bytes) == [depth : 0 .. depth, items : 0 .. items, str : 0 .. str, bytes : 0 .. bytes]

LEMMA NestWithin ==
  ASSUME NEW d \in Nat, NEW i \in Nat, NEW s \in Nat, NEW b \in Nat, NEW extra \in Nat,
         NEW members \in Seq(Measures(d, i, s, b)), NEW n \in 0 .. i, n = Len(members)
  PROVE  Nest(members, extra) \in Measures(d + 1, i, s, extra + n * b)
<1>1. DOMAIN members = 1 .. n /\ \A k \in 1 .. n : members[k] \in Measures(d, i, s, b)
  BY LenProperties, ElementOfSeq
<1>2. \A m \in Range(members) : m.depth \in 0 .. d /\ m.items \in 0 .. i /\ m.str \in 0 .. s
  BY <1>1 DEF Range, Measures
<1> DEFINE depths == {0} \cup {m.depth : m \in Range(members)}
           sizes == {Len(members)} \cup {m.items : m \in Range(members)}
           strs == {0} \cup {m.str : m \in Range(members)}
           bytes == [k \in DOMAIN members |-> members[k].bytes]
<1>3. depths \in SUBSET (0 .. d) /\ sizes \in SUBSET (0 .. i) /\ strs \in SUBSET (0 .. s)
      /\ depths # {} /\ sizes # {} /\ strs # {}
  BY <1>2
<1>4. bytes \in Seq(Nat) /\ Len(bytes) = n /\ \A k \in 1 .. n : bytes[k] <= b
  <2>1. \A k \in 1 .. n : members[k].bytes \in Nat /\ members[k].bytes <= b
    BY <1>1 DEF Measures
  <2>2. bytes \in [1 .. n -> Nat] /\ \A k \in 1 .. n : bytes[k] <= b
    BY <1>1, <2>1
  <2> HIDE DEF bytes
  <2> QED BY <2>2, SeqDef, LenProperties
<1>5. Nest(members, extra) = [depth |-> 1 + Max(depths), items |-> Max(sizes), str |-> Max(strs), bytes |-> extra + Total(bytes)]
  BY DEF Nest
<1> HIDE DEF depths, sizes, strs, bytes
<1>6. Max(depths) \in 0 .. d /\ Max(sizes) \in 0 .. i /\ Max(strs) \in 0 .. s
  BY <1>3, GreatestUpTo
<1>7. Total(bytes) \in 0 .. n * b
  <2>1. n \in Nat
    OBVIOUS
  <2> QED BY <1>4, <2>1, TotalAtMost
<1>8. 1 + Max(depths) \in 0 .. d + 1
  BY <1>6
<1>9. extra + Total(bytes) \in 0 .. extra + n * b
  <2> DEFINE x == n * b
  <2>1. x \in Nat /\ Total(bytes) \in 0 .. x
    BY <1>7
  <2> HIDE DEF x
  <2>2. extra + Total(bytes) \in 0 .. extra + x
    BY <2>1
  <2> QED BY <2>2 DEF x
<1> HIDE DEF Nest
<1> QED BY <1>5, <1>6, <1>8, <1>9 DEF Measures

LEMMA FunctionIsSeq ==
  ASSUME NEW X, NEW n \in Nat, NEW c \in [1 .. n -> X]
  PROVE  c \in Seq(X) /\ Len(c) = n
BY SeqDef, LenProperties

LEMMA IsAccepted == ASSUME NEW x, NEW v, x = Accepted(v) PROVE x.ok /\ x.value = v
BY DEF Accepted

LEMMA TotalOfFew ==
  ASSUME NEW c \in Seq(Int)
  PROVE  /\ Len(c) = 1 => Total(c) = c[1]
         /\ Len(c) = 2 => Total(c) = c[1] + c[2]
         /\ Len(c) = 3 => Total(c) = c[1] + c[2] + c[3]
<1> DEFINE n == Len(c)
<1>1. n \in Nat
  BY LenProperties
<1>2. PICK u \in [0 .. n -> Int] : u[0] = 0 /\ u[n] = Total(c) /\ \A k \in 1 .. n : u[k] = u[k - 1] + c[k]
  BY TotalPrefixes
<1>3. \A k \in 1 .. n : c[k] \in Int
  BY ElementOfSeq
<1> HIDE DEF n
<1>4. n >= 1 => u[1] = c[1] /\ c[1] \in Int
  <2>1. n >= 1 => 1 \in 1 .. n /\ 1 - 1 = 0
    BY <1>1
  <2>2. n >= 1 => u[1] = u[0] + c[1]
    BY <1>2, <2>1
  <2> QED BY <1>2, <1>3, <2>1, <2>2
<1>5. n >= 2 => u[2] = c[1] + c[2] /\ c[2] \in Int
  <2>1. n >= 2 => 2 \in 1 .. n /\ 2 - 1 = 1 /\ n >= 1
    BY <1>1
  <2>2. n >= 2 => u[2] = u[1] + c[2]
    BY <1>2, <2>1
  <2> QED BY <1>3, <1>4, <2>1, <2>2
<1>6. n >= 3 => u[3] = c[1] + c[2] + c[3]
  <2>1. n >= 3 => 3 \in 1 .. n /\ 3 - 1 = 2 /\ n >= 2
    BY <1>1
  <2>2. n >= 3 => u[3] = u[2] + c[3]
    BY <1>2, <2>1
  <2> QED BY <1>5, <2>1, <2>2
<1>7. (n = 1 => n >= 1) /\ (n = 2 => n >= 2) /\ (n = 3 => n >= 3)
  OBVIOUS
<1> QED BY <1>2, <1>4, <1>5, <1>6, <1>7 DEF n

LEMMA OneBytes ==
  ASSUME NEW x, x.bytes \in Int, NEW extra \in Int
  PROVE  Nest(<<x>>, extra).bytes = extra + x.bytes
<1>0. \A members : Nest(members, extra).bytes = extra + Total([i \in DOMAIN members |-> members[i].bytes])
  BY DEF Nest
<1> DEFINE m == <<x>>
           c == [i \in DOMAIN m |-> m[i].bytes]
<1>1. DOMAIN m = 1 .. 1 /\ m[1] = x
  OBVIOUS
<1> HIDE DEF m
<1>2. c \in [1 .. 1 -> Int] /\ c[1] = x.bytes
  BY <1>1
<1> HIDE DEF c
<1>3. c \in Seq(Int) /\ Len(c) = 1
  BY <1>2, 1 \in Nat, FunctionIsSeq
<1>4. Total(c) = x.bytes
  BY <1>2, <1>3, TotalOfFew
<1> QED BY <1>0, <1>4 DEF c, m

LEMMA TwoBytes ==
  ASSUME NEW x, NEW y, x.bytes \in Int, y.bytes \in Int, NEW extra \in Int
  PROVE  Nest(<<x, y>>, extra).bytes = extra + x.bytes + y.bytes
<1>0. \A members : Nest(members, extra).bytes = extra + Total([i \in DOMAIN members |-> members[i].bytes])
  BY DEF Nest
<1> DEFINE m == <<x, y>>
           c == [i \in DOMAIN m |-> m[i].bytes]
<1>1. DOMAIN m = 1 .. 2 /\ m[1] = x /\ m[2] = y
  OBVIOUS
<1> HIDE DEF m
<1>2. c \in [1 .. 2 -> Int] /\ c[1] = x.bytes /\ c[2] = y.bytes
  BY <1>1
<1> HIDE DEF c
<1>3. c \in Seq(Int) /\ Len(c) = 2
  BY <1>2, 2 \in Nat, FunctionIsSeq
<1>4. Total(c) = x.bytes + y.bytes
  BY <1>2, <1>3, TotalOfFew
<1>5. Nest(m, extra).bytes = extra + Total(c)
  BY <1>0 DEF c
<1> QED BY <1>4, <1>5 DEF m

LEMMA ThreeBytes ==
  ASSUME NEW x, NEW y, NEW z, x.bytes \in Int, y.bytes \in Int, z.bytes \in Int, NEW extra \in Int
  PROVE  Nest(<<x, y, z>>, extra).bytes = extra + x.bytes + y.bytes + z.bytes
<1>0. \A members : Nest(members, extra).bytes = extra + Total([i \in DOMAIN members |-> members[i].bytes])
  BY DEF Nest
<1> DEFINE m == <<x, y, z>>
           c == [i \in DOMAIN m |-> m[i].bytes]
<1>1. DOMAIN m = 1 .. 3 /\ m[1] = x /\ m[2] = y /\ m[3] = z
  OBVIOUS
<1> HIDE DEF m
<1>2. c \in [1 .. 3 -> Int] /\ c[1] = x.bytes /\ c[2] = y.bytes /\ c[3] = z.bytes
  BY <1>1
<1> HIDE DEF c
<1>3. c \in Seq(Int) /\ Len(c) = 3
  BY <1>2, 3 \in Nat, FunctionIsSeq
<1>4. Total(c) = x.bytes + y.bytes + z.bytes
  BY <1>2, <1>3, TotalOfFew
<1>5. Nest(m, extra).bytes = extra + Total(c)
  BY <1>0 DEF c
<1> QED BY <1>4, <1>5 DEF m

\* The measures of a value are within its bounds, and within wider ones.
LEMMA MeasuresOf ==
  ASSUME NEW d \in Nat, NEW i \in Nat, NEW s \in Nat, NEW b \in Nat, NEW v \in Measures(d, i, s, b)
  PROVE  /\ v.depth \in 0 .. d /\ v.items \in 0 .. i /\ v.str \in 0 .. s /\ v.bytes \in 0 .. b
         /\ \A d2, i2, s2, b2 \in Nat : d <= d2 /\ i <= i2 /\ s <= s2 /\ b <= b2 => v \in Measures(d2, i2, s2, b2)
<1>1. v.depth \in 0 .. d /\ v.items \in 0 .. i /\ v.str \in 0 .. s /\ v.bytes \in 0 .. b
  BY DEF Measures
<1>2. ASSUME NEW d2 \in Nat, NEW i2 \in Nat, NEW s2 \in Nat, NEW b2 \in Nat, d <= d2, i <= i2, s <= s2, b <= b2
      PROVE  v \in Measures(d2, i2, s2, b2)
  <2>1. 0 .. d \subseteq 0 .. d2 /\ 0 .. i \subseteq 0 .. i2 /\ 0 .. s \subseteq 0 .. s2 /\ 0 .. b \subseteq 0 .. b2
    BY <1>2
  <2> QED BY <2>1 DEF Measures
<1> QED BY <1>1, <1>2

LEMMA ScalarMeasures ==
  ASSUME NEW n \in Nat
  PROVE  Scalar(n) \in Measures(0, 0, n, n) /\ Scalar(n).bytes = n
<1>1. Scalar(n) = [depth |-> 0, items |-> 0, str |-> n, bytes |-> n]
  BY DEF Scalar
<1> QED BY <1>1 DEF Measures

\* A value that is within the guards and leaves room for the line around it.
Room == MAX_LINE_BYTES - 144
Roomy(v) == v \in Measures(7, V6_MAX_JSON_COLLECTION_ITEMS, V6_MAX_JSON_STRING_BYTES, Room)

LEMMA Bounds ==
  /\ V6_MAX_JSON_COLLECTION_ITEMS = 64 /\ V6_MAX_JSON_STRING_BYTES = 8192 /\ V6_MAX_JSON_DEPTH = 8
  /\ MAX_LINE_BYTES = 65536 /\ Room = 65392 /\ MAX_RAW_TL_BODY_BYTES = 40960 /\ RAW_BASE64_CHUNK_CHARS = 7168
  /\ MAX_RESULT_BYTES = 32768
BY DEF V6_MAX_JSON_COLLECTION_ITEMS, V6_MAX_JSON_STRING_BYTES, V6_MAX_JSON_DEPTH, MAX_LINE_BYTES, Room,
       MAX_RAW_TL_BODY_BYTES, RAW_BASE64_CHUNK_CHARS, MAX_RESULT_BYTES

\* It still fits once it is the result or the error of a call.
LEMMA ResultFits ==
  ASSUME NEW v, Roomy(v), NEW len \in 0 .. 64
  PROVE  LET json == Nest(<<v, Scalar(len)>>, 80) IN GuardV6Json(json, 0) /\ json.bytes <= MAX_LINE_BYTES
<1> DEFINE d == 7
           i == V6_MAX_JSON_COLLECTION_ITEMS
           s == V6_MAX_JSON_STRING_BYTES
           b == Room
           id == Scalar(len)
           members == <<v, id>>
           json == Nest(members, 80)
           n == 2
           extra == 80
<1>1. /\ d \in Nat /\ i \in Nat /\ s \in Nat /\ b \in Nat /\ 0 <= d /\ 0 <= i /\ 64 <= s /\ 64 <= b /\ n \in 0 .. i
      /\ extra \in Nat /\ 0 \in Nat /\ len \in Nat /\ len <= s /\ len <= b
  BY Bounds
<1>2. v \in Measures(d, i, s, b)
  BY DEF Roomy
<1> HIDE DEF d, i, s, b, id, members, json, n, extra
<1>3. id \in Measures(d, i, s, b) /\ id.bytes = len
  <2>1. id \in Measures(0, 0, len, len) /\ id.bytes = len
    BY <1>1, ScalarMeasures DEF id
  <2> QED BY <1>1, <2>1, MeasuresOf
<1>4. members \in Seq(Measures(d, i, s, b)) /\ n = Len(members)
  <2> DEFINE M == Measures(d, i, s, b)
  <2>1. v \in M /\ id \in M
    BY <1>2, <1>3
  <2> HIDE DEF M
  <2>2. <<v, id>> \in Seq(M) /\ Len(<<v, id>>) = 2
    BY <2>1
  <2> QED BY <2>2 DEF M, members, n
<1>5. json \in Measures(d + 1, i, s, extra + n * b)
  <2>1. Nest(members, extra) \in Measures(d + 1, i, s, extra + n * b)
    BY <1>1, <1>4, NestWithin
  <2> QED BY <2>1 DEF json, extra
<1>6. json.depth \in 0 .. d + 1 /\ json.items \in 0 .. i /\ json.str \in 0 .. s
  <2> DEFINE b2 == extra + n * b
             d2 == d + 1
  <2>1. b2 \in Nat /\ d2 \in Nat
    BY <1>1 DEF n
  <2>2. json \in Measures(d2, i, s, b2)
    BY <1>5
  <2> HIDE DEF b2, d2
  <2>3. json.depth \in 0 .. d2 /\ json.items \in 0 .. i /\ json.str \in 0 .. s
    BY <1>1, <2>1, <2>2, MeasuresOf
  <2> QED BY <2>3 DEF d2
<1>7. v.bytes \in 0 .. b
  BY <1>1, <1>2, MeasuresOf
<1>8. json.bytes = 80 + v.bytes + id.bytes
  <2>1. v.bytes \in Int /\ id.bytes \in Int /\ 80 \in Int
    BY <1>1, <1>3, <1>7
  <2> QED BY <2>1, TwoBytes DEF json, members
<1>9. json.bytes <= MAX_LINE_BYTES
  <2>1. json.bytes <= 144 + v.bytes /\ json.bytes \in Int /\ v.bytes \in 0 .. b /\ b = MAX_LINE_BYTES - 144 /\ MAX_LINE_BYTES \in Nat
    <3>1. b = MAX_LINE_BYTES - 144 /\ MAX_LINE_BYTES \in Nat
      BY Bounds DEF b
    <3>2. json.bytes <= 144 + v.bytes /\ json.bytes \in Int
      BY <1>1, <1>3, <1>7, <1>8
    <3> QED BY <1>7, <3>1, <3>2
  <2> HIDE DEF b
  <2> QED BY <2>1
<1>10. GuardV6Json(json, 0)
  <2>1. i = V6_MAX_JSON_COLLECTION_ITEMS /\ s = V6_MAX_JSON_STRING_BYTES /\ d + 1 = V6_MAX_JSON_DEPTH
    BY Bounds DEF i, s, d
  <2>2. d \in Nat /\ i \in Nat /\ s \in Nat
    BY <1>1
  <2> QED BY <1>6, <2>1, <2>2 DEF GuardV6Json
<1> QED BY <1>9, <1>10 DEF json, members, id

LEMMA ValueSerialized ==
  ASSUME NEW v, Roomy(v), NEW type
  PROVE  SerializeV6CoreResult(type, Id(64), Accepted(v)).ok
<1> DEFINE r == Accepted(v)
           line == ResultLine(type, Id(64), r)
<1>1. r.ok /\ r.value = v
  BY IsAccepted
<1> HIDE DEF r
<1>2. Id(64).len = 64 /\ IsV6CallId(Id(64))
  BY DEF Id, IsV6CallId
<1>3. line.json = Nest(<<v, Scalar(64)>>, 80)
  BY <1>1, <1>2 DEF ResultLine
<1> HIDE DEF line
<1>4. GuardV6Json(line.json, 0) /\ line.json.bytes <= MAX_LINE_BYTES
  BY <1>3, 64 \in 0 .. 64, ResultFits
<1>5. SerializeV6CoreResult(type, Id(64), r) = Accepted(line)
  BY <1>1, <1>2, <1>4 DEF SerializeV6CoreResult, line
<1> QED BY <1>5, IsAccepted DEF r

\* The error of a call that failed.
ErrorOf(kind, message) == [ok |-> FALSE, value |-> [kind |-> kind, message |-> message]]
LEMMA ErrorSerialized ==
  ASSUME NEW type, NEW kind \in Nat, kind \in 1 .. 256, NEW message \in Nat, message <= 256
  PROVE  SerializeV6CoreResult(type, Id(64), ErrorOf(kind, message)).ok
<1> DEFINE r == ErrorOf(kind, message)
           v == ErrorJson(r.value)
           line == ResultLine(type, Id(64), r)
           x == Scalar(kind)
           y == Scalar(message)
           members == <<x, y>>
           d == 0
           i == 2
           s == 256
           n == 2
           extra == 80
<1>1. ~r.ok /\ r.value.kind = kind /\ r.value.message = message
  BY DEF ErrorOf
<1>2. v = Nest(members, extra)
  BY <1>1 DEF ErrorJson
<1>0. /\ d \in Nat /\ i \in Nat /\ s \in Nat /\ extra \in Nat /\ n \in 0 .. i /\ 0 <= d /\ 0 <= i /\ kind <= s /\ message <= s /\ 0 \in Nat
      /\ n * s \in Nat
  OBVIOUS
<1> HIDE DEF r, v, x, y, members, d, i, s, n, extra, line
<1>3. x \in Measures(d, i, s, s) /\ y \in Measures(d, i, s, s)
  <2>1. x \in Measures(0, 0, kind, kind) /\ y \in Measures(0, 0, message, message)
    BY ScalarMeasures DEF x, y
  <2> QED BY <1>0, <2>1, MeasuresOf
<1>4. members \in Seq(Measures(d, i, s, s)) /\ n = Len(members)
  <2> DEFINE M == Measures(d, i, s, s)
  <2>1. x \in M /\ y \in M
    BY <1>3
  <2> HIDE DEF M
  <2>2. <<x, y>> \in Seq(M) /\ Len(<<x, y>>) = 2
    BY <2>1
  <2> QED BY <2>2 DEF M, members, n
<1>5. v \in Measures(d + 1, i, s, extra + n * s)
  BY <1>0, <1>2, <1>4, NestWithin
<1>6. Roomy(v)
  <2> DEFINE d1 == d + 1
             b1 == extra + n * s
             b2 == Room
             i2 == V6_MAX_JSON_COLLECTION_ITEMS
             s2 == V6_MAX_JSON_STRING_BYTES
             d2 == 7
  <2>1. /\ d1 \in Nat /\ b1 \in Nat /\ b2 \in Nat /\ i2 \in Nat /\ s2 \in Nat /\ d2 \in Nat
        /\ d1 <= d2 /\ i <= i2 /\ s <= s2 /\ b1 <= b2
    BY Bounds DEF d, i, s, n, extra
  <2>2. v \in Measures(d1, i, s, b1)
    BY <1>5
  <2> HIDE DEF d1, b1, b2, i2, s2, d2
  <2>3. v \in Measures(d2, i2, s2, b2)
    BY <1>0, <2>1, <2>2, MeasuresOf
  <2> QED BY <2>3 DEF Roomy, d2, i2, s2, b2
<1>7. Id(64).len = 64 /\ IsV6CallId(Id(64))
  BY DEF Id, IsV6CallId
<1>8. line.json = Nest(<<v, Scalar(64)>>, 80)
  BY <1>1, <1>7 DEF ResultLine, v, line
<1>9. GuardV6Json(line.json, 0) /\ line.json.bytes <= MAX_LINE_BYTES
  BY <1>6, <1>8, 64 \in 0 .. 64, ResultFits
<1>10. SerializeV6CoreResult(type, Id(64), r) = Accepted(line)
  BY <1>1, <1>7, <1>9 DEF SerializeV6CoreResult, line
<1> QED BY <1>10, IsAccepted DEF r

Chunk(n) == n \in Nat /\ 1 <= n /\ n <= 7168

\* A raw reply in chunks: each within the limit, and together the whole text.
LEMMA ChunksOf ==
  ASSUME NEW e \in Nat, e >= 1
  PROVE  /\ RawChunks(e) \in Seq(Nat) /\ Len(RawChunks(e)) = Ceil(e, 7168) /\ Ceil(e, 7168) \in Nat /\ Ceil(e, 7168) # 0
         /\ \A i \in 1 .. Ceil(e, 7168) : Chunk(RawChunks(e)[i])
         /\ Total(RawChunks(e)) = e
<1> DEFINE c == Ceil(e, 7168)
           chunks == RawChunks(e)
<1>1. c \in Nat /\ c >= 1 /\ 7168 * (c - 1) < e /\ e <= 7168 * c
  BY DEF Ceil
<1>2. chunks = [i \in 1 .. c |-> IF i * 7168 <= e THEN 7168 ELSE e % 7168]
  BY Bounds DEF RawChunks
<1> HIDE DEF c, chunks
<1>3. ASSUME NEW i \in 1 .. c PROVE chunks[i] = (IF i < c THEN 7168 ELSE e - 7168 * (c - 1)) /\ Chunk(chunks[i])
  <2>1. chunks[i] = IF i * 7168 <= e THEN 7168 ELSE e % 7168
    BY <1>2
  <2>2. CASE i < c
    <3>1. i * 7168 <= e
      BY <1>1, <2>2
    <3> QED BY <2>1, <2>2, <3>1 DEF Chunk
  <2>3. CASE i = c
    <3>1. CASE c * 7168 <= e
      <4>1. e - 7168 * (c - 1) = 7168
        BY <1>1, <3>1
      <4> QED BY <2>1, <2>3, <3>1, <4>1 DEF Chunk
    <3>2. CASE ~(c * 7168 <= e)
      <4> DEFINE r == e - 7168 * (c - 1)
             x == c - 1
      <4>1. r \in Nat /\ 1 <= r /\ r < 7168 /\ e = 7168 * x + r /\ x \in Nat
        BY <1>1, <3>2
      <4> HIDE DEF r, x
      <4>2. e % 7168 = r
        BY <4>1
      <4>3. chunks[i] = r /\ Chunk(r) /\ ~(i < c)
        BY <2>1, <2>3, <3>2, <4>1, <4>2 DEF Chunk
      <4> QED BY <4>3 DEF r
    <3> QED BY <3>1, <3>2
  <2>4. i < c \/ i = c
    BY <1>1, <1>3
  <2> QED BY <2>2, <2>3, <2>4
<1>4. chunks \in [1 .. c -> Nat] /\ chunks \in [1 .. c -> Int]
  <2>1. \A i \in 1 .. c : chunks[i] \in Nat /\ chunks[i] \in Int
    BY <1>3 DEF Chunk
  <2>2. chunks = [i \in 1 .. c |-> chunks[i]]
    BY <1>2
  <2> QED BY <2>1, <2>2
<1>5. chunks \in Seq(Nat) /\ Len(chunks) = c /\ chunks \in Seq(Int)
  BY <1>1, <1>4, FunctionIsSeq
<1>6. PICK u \in [0 .. c -> Int] : u[0] = 0 /\ u[c] = Total(chunks) /\ \A k \in 1 .. c : u[k] = u[k - 1] + chunks[k]
  BY <1>5, TotalPrefixes
<1> DEFINE S == {k \in Nat : k < c => u[k] = 7168 * k}
<1>7. 0 \in S
  BY <1>6
<1>8. ASSUME NEW k \in Nat, k \in S, k < c PROVE k + 1 \in S
  <2>1. k + 1 \in 1 .. c /\ (k + 1) - 1 = k /\ k + 1 \in Nat
    BY <1>1, <1>8
  <2>2. u[k] = 7168 * k
    BY <1>8
  <2>3. ASSUME k + 1 < c PROVE u[k + 1] = 7168 * (k + 1)
    <3>1. chunks[k + 1] = 7168
      BY <1>3, <2>1, <2>3
    <3>2. u[k + 1] = u[k] + chunks[k + 1]
      BY <1>6, <2>1
    <3> QED BY <2>2, <3>1, <3>2
  <2> QED BY <2>1, <2>3
<1>9. c - 1 \in S
  <2>1. c - 1 \in Nat
    BY <1>1
  <2>2. \A k \in Nat : k \in S /\ k < c - 1 => k + 1 \in S
    <3>1. ASSUME NEW k \in Nat, k \in S, k < c - 1 PROVE k + 1 \in S
      <4>1. k < c
        BY <1>1, <3>1
      <4> HIDE DEF S
      <4> QED BY <1>8, <3>1, <4>1
    <3> QED BY <3>1
  <2> HIDE DEF S
  <2>3. 0 .. c - 1 \subseteq S
    BY <1>7, <2>1, <2>2, UpTo
  <2> QED BY <2>1, <2>3
<1>10. u[c] = e
  <2>1. u[c - 1] = 7168 * (c - 1)
    BY <1>1, <1>9
  <2>2. c \in 1 .. c
    BY <1>1
  <2>3. u[c] = u[c - 1] + chunks[c]
    BY <1>6, <2>2
  <2>4. chunks[c] = e - 7168 * (c - 1)
    BY <1>1, <1>3, <2>2
  <2> QED BY <1>1, <2>1, <2>3, <2>4
<1>11. c # 0 /\ \A i \in 1 .. c : Chunk(chunks[i])
  BY <1>1, <1>3
<1> QED BY <1>1, <1>5, <1>6, <1>10, <1>11 DEF c, chunks

\* decode_raw_tl_body takes back the chunks of a raw reply.
LEMMA ChunksTakenBack ==
  ASSUME NEW n \in Nat, n >= 4, n <= MAX_RAW_TL_BODY_BYTES, n % 4 = 0
  PROVE  LET e == Ceil(n, 3) * 4 IN
         /\ e \in Nat /\ e >= 1 /\ e <= 54616
         /\ DecodeRawTlBody(RawChunks(e), Padding(n)) = Accepted(n)
<1> DEFINE e == Ceil(n, 3) * 4
           q == Ceil(n, 3)
           p == Padding(n)
           c == Ceil(e, 7168)
           chunks == RawChunks(e)
<1>1. q \in Nat /\ 3 * q = n + p /\ p \in 0 .. 2 /\ n <= 40960
  <2>1. n <= 40960
    BY Bounds
  <2>2. q = (n + 2) \div 3 /\ p = (3 - (n % 3)) % 3
    BY DEF Ceil, Padding
  <2>3. n % 3 \in 0 .. 2 /\ n = 3 * (n \div 3) + (n % 3) /\ n \div 3 \in Nat
    OBVIOUS
  <2> HIDE DEF q, p
  <2>4. CASE n % 3 = 0
    <3>1. p = 0 /\ q = n \div 3
      BY <2>2, <2>3, <2>4
    <3> QED BY <2>1, <2>3, <2>4, <3>1
  <2>5. CASE n % 3 = 1
    <3>1. p = 2 /\ q = n \div 3 + 1
      BY <2>2, <2>3, <2>5
    <3> QED BY <2>1, <2>3, <2>5, <3>1
  <2>6. CASE n % 3 = 2
    <3>1. p = 1 /\ q = n \div 3 + 1
      BY <2>2, <2>3, <2>6
    <3> QED BY <2>1, <2>3, <2>6, <3>1
  <2> QED BY <2>3, <2>4, <2>5, <2>6
<1>2. e = q * 4
  OBVIOUS
<1> HIDE DEF q, p, e
<1>3. e \in Nat /\ e >= 1 /\ e <= 54616 /\ e % 4 = 0 /\ (e \div 4) * 3 - p = n
  BY <1>1, <1>2
<1> HIDE DEF c, chunks
<1>4. /\ chunks \in Seq(Nat) /\ Len(chunks) = c /\ c \in Nat /\ c # 0 /\ Total(chunks) = e
      /\ \A i \in 1 .. c : Chunk(chunks[i])
  <2>1. e \in Nat /\ e >= 1
    BY <1>3
  <2> QED BY ONLY <2>1, ChunksOf DEF c, chunks
<1>5. DOMAIN chunks = 1 .. c /\ chunks # <<>>
  BY <1>4, LenProperties, EmptySeq
<1>6. Ceil(MAX_RAW_TL_BODY_BYTES, 3) * 4 = 54616
  <2>1. (40960 + 3 - 1) \div 3 = 13654
    OBVIOUS
  <2> QED BY <2>1, Bounds DEF Ceil
<1>7. /\ chunks # <<>>
      /\ \A i \in DOMAIN chunks : chunks[i] \in 1 .. RAW_BASE64_CHUNK_CHARS
      /\ Total(chunks) <= Ceil(MAX_RAW_TL_BODY_BYTES, 3) * 4 /\ Total(chunks) % 4 = 0
      /\ (Total(chunks) \div 4) * 3 - p = n
  <2> DEFINE room == RAW_BASE64_CHUNK_CHARS
  <2>1. room = 7168
    BY Bounds
  <2> HIDE DEF room
  <2>2. \A i \in 1 .. c : chunks[i] \in 1 .. room
    <3>1. ASSUME NEW i \in 1 .. c PROVE chunks[i] \in 1 .. room
      <4> DEFINE x == chunks[i]
      <4>1. Chunk(x)
        BY <1>4
      <4> HIDE DEF x
      <4>2. x \in 1 .. room
        BY <2>1, <4>1 DEF Chunk
      <4> QED BY <4>2 DEF x
    <3> QED BY <3>1
  <2>3. Total(chunks) <= Ceil(MAX_RAW_TL_BODY_BYTES, 3) * 4
    BY <1>3, <1>4, <1>6
  <2> QED BY <1>3, <1>4, <1>5, <2>2, <2>3 DEF room
<1>8. n \in 4 .. MAX_RAW_TL_BODY_BYTES /\ n % 4 = 0
  BY Bounds
<1>9. DecodeRawTlBody(chunks, p) = Accepted(n)
  BY <1>7, <1>8 DEF DecodeRawTlBody
<1> QED BY <1>3, <1>9 DEF chunks, p, e

\* A result is an error, or a value that leaves room for the line around it.
Deliverable(result) == \/ \E e : result = Refused(e)
                       \/ \E v : result = Accepted(v) /\ Roomy(v)

LEMMA DeliverableReaches == ASSUME NEW result, Deliverable(result) PROVE Reaches(result)
<1>1. CASE \E e : result = Refused(e)
  <2>1. ~result.ok
    BY <1>1 DEF Refused
  <2>2. FailedCall = ErrorOf(9, 256)
    BY DEF FailedCall, ErrorOf
  <2>3. 9 \in Nat /\ 9 \in 1 .. 256 /\ 256 \in Nat /\ 256 <= 256
    OBVIOUS
  <2>4. SerializeV6CoreResult("telegram.result", Id(64), FailedCall).ok
    BY <2>2, <2>3, ErrorSerialized
  <2> QED BY <2>1, <2>4 DEF Reaches
<1>2. CASE \E v : result = Accepted(v) /\ Roomy(v)
  <2>1. PICK v : result = Accepted(v) /\ Roomy(v)
    BY <1>2
  <2>2. result.ok
    BY <2>1, IsAccepted
  <2>3. SerializeV6CoreResult("telegram.result", Id(64), result).ok
    BY <2>1, ValueSerialized
  <2> QED BY <2>2, <2>3 DEF Reaches
<1> QED BY <1>1, <1>2 DEF Deliverable

LEMMA AnswerDeliverable ==
  ASSUME NEW reply, NEW summary, Deliverable(summary)
  PROVE  Deliverable(Answer(reply, summary))
BY DEF Deliverable, Answer

LEMMA OutputDeliverable ==
  ASSUME NEW v, Roomy(v)
  PROVE  Deliverable(V6RpcOutputNew(v))
BY DEF Deliverable, V6RpcOutputNew

LEMMA RefusalDeliverable == \A e : Deliverable(Refused(e))
BY DEF Deliverable

\* A value of known size.
LEMMA MeasuresCut ==
  ASSUME NEW d \in Nat, NEW i \in Nat, NEW s \in Nat, NEW b \in Nat, NEW v \in Measures(d, i, s, b), NEW c \in Nat, v.bytes <= c
  PROVE  v \in Measures(d, i, s, c)
<1>1. v.bytes \in 0 .. c
  BY MeasuresOf
<1> QED BY <1>1 DEF Measures

LEMMA IsRoomy ==
  ASSUME NEW d \in Nat, d <= 7, NEW i \in Nat, i <= V6_MAX_JSON_COLLECTION_ITEMS, NEW s \in Nat, s <= V6_MAX_JSON_STRING_BYTES,
         NEW b \in Nat, NEW v \in Measures(d, i, s, b), v.bytes <= Room
  PROVE  Roomy(v)
<1> DEFINE r == Room
           i2 == V6_MAX_JSON_COLLECTION_ITEMS
           s2 == V6_MAX_JSON_STRING_BYTES
           d2 == 7
<1>1. r \in Nat /\ i2 \in Nat /\ s2 \in Nat /\ d2 \in Nat /\ d <= d2 /\ i <= i2 /\ s <= s2 /\ v.bytes <= r
  BY Bounds
<1> HIDE DEF r, i2, s2, d2
<1>3. v \in Measures(d, i, s, r)
  BY <1>1, MeasuresCut
<1>4. r <= r
  BY <1>1
<1>5. v \in Measures(d2, i2, s2, r)
  BY <1>1, <1>3, <1>4, MeasuresOf
<1> QED BY <1>5 DEF Roomy, r, i2, s2, d2

\* The summaries of the typed methods.
LEMMA NestRoomy ==
  ASSUME NEW n \in 1 .. 6, NEW w \in 1 .. 20, NEW extra \in 0 .. 120, NEW members, members = [i \in 1 .. n |-> Scalar(w)]
  PROVE  Roomy(Nest(members, extra))
<1> DEFINE d == 0
           i == 64
           v == Nest(members, extra)
           M == Measures(d, i, w, w)
<1>0. d \in Nat /\ i \in Nat /\ w \in Nat /\ n \in 0 .. i /\ extra \in Nat /\ n \in Nat /\ 0 <= d /\ 0 <= i /\ w <= w /\ 0 \in Nat
      /\ d + 1 \in 0 .. 7 /\ i <= V6_MAX_JSON_COLLECTION_ITEMS /\ w <= V6_MAX_JSON_STRING_BYTES
  BY Bounds
<1> HIDE DEF d, i, v
<1>1. Scalar(w) \in M
  <2>1. Scalar(w) \in Measures(0, 0, w, w)
    BY <1>0, ScalarMeasures
  <2> QED BY <1>0, <2>1, MeasuresOf
<1> HIDE DEF M
<1>2. members \in [1 .. n -> M]
  BY <1>1
<1>3. members \in Seq(M) /\ n = Len(members)
  BY <1>0, <1>2, FunctionIsSeq
<1> DEFINE x == n * w
           b == extra + x
<1>4. x \in Nat /\ x <= 120
  <2>1. n = 1 \/ n = 2 \/ n = 3 \/ n = 4 \/ n = 5 \/ n = 6
    OBVIOUS
  <2> QED BY <2>1
<1>5. v \in Measures(d + 1, i, w, b)
  <2>1. /\ d \in Nat /\ i \in Nat /\ w \in Nat /\ extra \in Nat /\ n \in 0 .. i /\ n = Len(members)
        /\ members \in Seq(Measures(d, i, w, w))
    <3>1. members \in Seq(Measures(d, i, w, w)) /\ n = Len(members)
      BY <1>3 DEF M
    <3> QED BY <1>0, <3>1
  <2>2. Nest(members, extra) \in Measures(d + 1, i, w, extra + n * w)
    BY ONLY <2>1, NestWithin
  <2> QED BY <2>2 DEF v
<1> HIDE DEF x
<1>6. b \in Nat /\ b <= 240
  BY <1>0, <1>4
<1> HIDE DEF b
<1> DEFINE d1 == d + 1
<1>7. v \in Measures(d1, i, w, b) /\ d1 \in Nat
  BY <1>0, <1>5
<1>8. v.bytes \in 0 .. b
  <2> HIDE DEF d1
  <2> QED BY <1>0, <1>6, <1>7, MeasuresOf
<1>9. v.bytes <= Room /\ d1 \in Nat /\ d1 <= 7
  BY <1>0, <1>6, <1>8, Bounds
<1> HIDE DEF d1
<1>10. Roomy(v)
  <2>1. /\ d1 \in Nat /\ d1 <= 7 /\ i \in Nat /\ i <= V6_MAX_JSON_COLLECTION_ITEMS /\ w \in Nat /\ w <= V6_MAX_JSON_STRING_BYTES
        /\ b \in Nat /\ v \in Measures(d1, i, w, b) /\ v.bytes <= Room
    BY <1>0, <1>6, <1>7, <1>9
  <2> QED BY ONLY <2>1, IsRoomy
<1> QED BY <1>10 DEF v

LEMMA SummariesDeliverable ==
  /\ Deliverable(Summary(5)) /\ Deliverable(Summary(6)) /\ Deliverable(NotModifiedResult)
  /\ Deliverable(V6RpcOutputNew(Scalar(5)))
<1>1. ASSUME NEW n \in 5 .. 6 PROVE Deliverable(Summary(n))
  <2> DEFINE members == [i \in 1 .. n |-> Scalar(20)]
             extra == 20 * n
  <2>1. n \in 1 .. 6 /\ 20 \in 1 .. 20 /\ extra \in 0 .. 120
    OBVIOUS
  <2>2. Summary(n) = V6RpcOutputNew(Nest(members, extra))
    BY DEF Summary
  <2>3. members = [i \in 1 .. n |-> Scalar(20)]
    OBVIOUS
  <2> HIDE DEF members, extra
  <2>4. Roomy(Nest(members, extra))
    BY ONLY <2>1, <2>3, NestRoomy
  <2> QED BY <2>2, <2>4, OutputDeliverable
<1>2. Deliverable(NotModifiedResult)
  <2> DEFINE members == [i \in 1 .. 1 |-> Scalar(12)]
  <2>1. 1 \in 1 .. 6 /\ 12 \in 1 .. 20 /\ 10 \in 0 .. 120 /\ members = [i \in 1 .. 1 |-> Scalar(12)]
    OBVIOUS
  <2>2. members = <<Scalar(12)>>
    OBVIOUS
  <2> HIDE DEF members
  <2>3. Roomy(Nest(members, 10))
    BY ONLY <2>1, NestRoomy
  <2> QED BY <2>2, <2>3, OutputDeliverable DEF NotModifiedResult
<1>3. Deliverable(V6RpcOutputNew(Scalar(5)))
  <2> DEFINE v == Scalar(5)
             z == 0
             s == 5
  <2>1. v \in Measures(0, 0, 5, 5) /\ v.bytes = 5
    BY 5 \in Nat, ScalarMeasures
  <2>2. /\ z \in Nat /\ z <= 7 /\ z <= V6_MAX_JSON_COLLECTION_ITEMS /\ s \in Nat /\ s <= V6_MAX_JSON_STRING_BYTES /\ 5 <= Room
        /\ v \in Measures(z, z, s, s)
    BY <2>1, Bounds
  <2> HIDE DEF v, z, s
  <2>3. v.bytes <= Room
    BY <2>1, <2>2
  <2>4. Roomy(v)
    BY ONLY <2>2, <2>3, IsRoomy
  <2> QED BY <2>4, OutputDeliverable DEF v
<1> QED BY <1>1, <1>2, <1>3, 5 \in 5 .. 6, 6 \in 5 .. 6

LEMMA RawDeliverable ==
  ASSUME NEW n \in Nat, n >= 4, n <= MAX_RAW_TL_BODY_BYTES, n % 4 = 0
  PROVE  \E v : RawTlResult(n) = Accepted(v) /\ Roomy(v)
<1> DEFINE e == Ceil(n, 3) * 4
           c == Ceil(e, 7168)
           chunks == RawChunks(e)
           texts == [k \in DOMAIN chunks |-> Scalar(chunks[k] + 3)]
           array == Nest(texts, 2)
           x == Scalar(8)
           y == Scalar(3)
           members == <<x, y, array>>
           v == Nest(members, 60)
           w == 7171
           i == V6_MAX_JSON_COLLECTION_ITEMS
           z == 0
           two == 2
           three == 3
           extra == 60
           b == two + c * w
<1>1. e \in Nat /\ e >= 1 /\ e <= 54616
  BY ChunksTakenBack
<1> HIDE DEF e
<1>2. chunks \in Seq(Nat) /\ Len(chunks) = c /\ c \in Nat /\ c # 0 /\ \A k \in 1 .. c : Chunk(chunks[k])
  <2>1. e \in Nat /\ e >= 1
    BY <1>1
  <2> QED BY ONLY <2>1, ChunksOf DEF c, chunks
<1>3. c <= 8
  BY <1>1 DEF Ceil
<1> HIDE DEF c, chunks
<1>4. z \in Nat /\ i \in Nat /\ w \in Nat /\ two \in Nat /\ three \in Nat /\ extra \in Nat /\ c \in 0 .. i /\ three \in 0 .. i
      /\ 0 <= z /\ 0 <= i /\ w <= V6_MAX_JSON_STRING_BYTES
  BY <1>2, <1>3, Bounds
<1> DEFINE M == Measures(z, i, w, w)
<1> HIDE DEF texts, array, x, y, members, v, w, i, z, two, three, extra, M
<1>5. ASSUME NEW k \in Nat, k <= w PROVE Scalar(k) \in M /\ Scalar(k).bytes = k
  <2>1. Scalar(k) \in Measures(0, 0, k, k) /\ Scalar(k).bytes = k
    BY ScalarMeasures
  <2> QED BY <1>4, <1>5, <2>1, 0 \in Nat, MeasuresOf DEF M
<1>6. texts \in Seq(M) /\ c = Len(texts)
  <2>1. DOMAIN chunks = 1 .. c
    BY <1>2, LenProperties
  <2>2. ASSUME NEW k \in 1 .. c PROVE Scalar(chunks[k] + 3) \in M
    <3> DEFINE m == chunks[k] + 3
    <3>1. Chunk(chunks[k])
      BY <1>2
    <3>2. m \in Nat /\ m <= w
      BY <3>1 DEF Chunk, w
    <3> HIDE DEF m
    <3>3. Scalar(m) \in M
      BY <1>5, <3>2
    <3> QED BY <3>3 DEF m
  <2>3. texts \in [1 .. c -> M]
    BY <2>1, <2>2 DEF texts
  <2> QED BY <1>2, <2>3, FunctionIsSeq
<1>7. array \in Measures(z + 1, i, w, b)
  <2>1. z \in Nat /\ i \in Nat /\ w \in Nat /\ two \in Nat /\ c \in 0 .. i /\ c = Len(texts) /\ texts \in Seq(Measures(z, i, w, w))
    BY <1>4, <1>6 DEF M
  <2>2. Nest(texts, two) \in Measures(z + 1, i, w, two + c * w)
    BY ONLY <2>1, NestWithin
  <2> QED BY <2>2 DEF array, two
<1>8. b \in Nat /\ b <= 57370
  <2>1. c * w = c * 7171
    BY DEF w
  <2> QED BY <1>2, <1>3, <2>1 DEF two
<1> HIDE DEF b
<1> DEFINE d == z + 1
           N == Measures(d, i, w, b)
<1>9. d \in Nat /\ z <= d /\ d = 1
  BY <1>4 DEF z
<1>10. array \in N
  BY <1>7
<1> HIDE DEF d
<1>11. array.bytes \in 0 .. b
  BY <1>4, <1>8, <1>9, <1>10, MeasuresOf
<1>12. x \in N /\ y \in N /\ x.bytes = 8 /\ y.bytes = 3
  <2>1. ASSUME NEW k \in 3 .. 8 PROVE Scalar(k) \in N /\ Scalar(k).bytes = k
    <3>1. Scalar(k) \in Measures(0, 0, k, k) /\ Scalar(k).bytes = k /\ k \in Nat
      BY <2>1, ScalarMeasures
    <3>2. k <= w /\ k <= b /\ 0 <= d
      <4>1. w = 7171 /\ b = 2 + c * 7171 /\ c >= 1
        BY <1>2 DEF w, b, two
      <4> QED BY <1>2, <1>9, <2>1, <4>1
    <3> QED BY <1>4, <1>8, <1>9, <3>1, <3>2, 0 \in Nat, MeasuresOf
  <2> QED BY <2>1, 8 \in 3 .. 8, 3 \in 3 .. 8 DEF x, y
<1> HIDE DEF N
<1>13. members \in Seq(N) /\ three = Len(members)
  <2>1. <<x, y, array>> \in Seq(N) /\ Len(<<x, y, array>>) = 3
    BY <1>10, <1>12
  <2> QED BY <2>1 DEF members, three
<1> DEFINE top == extra + three * b
           d1 == d + 1
<1>14. v \in Measures(d1, i, w, top)
  <2>1. d \in Nat /\ i \in Nat /\ w \in Nat /\ b \in Nat /\ extra \in Nat /\ three \in 0 .. i /\ three = Len(members)
        /\ members \in Seq(Measures(d, i, w, b))
    BY <1>4, <1>8, <1>9, <1>13 DEF N
  <2>2. Nest(members, extra) \in Measures(d + 1, i, w, extra + three * b)
    BY ONLY <2>1, NestWithin
  <2> QED BY <2>2 DEF v, extra
<1>15. v.bytes = 60 + x.bytes + y.bytes + array.bytes
  <2>1. x.bytes \in Int /\ y.bytes \in Int /\ array.bytes \in Int /\ 60 \in Int
    BY <1>8, <1>11, <1>12
  <2> QED BY <2>1, ThreeBytes DEF v, members
<1>16. v.bytes <= 57441 /\ v.bytes \in Nat
  BY <1>8, <1>11, <1>12, <1>15
<1>17. top \in Nat /\ d1 \in Nat /\ d1 <= 7
  BY <1>4, <1>8, <1>9 DEF three
<1> HIDE DEF top, d1
<1>18. Roomy(v)
  <2>1. /\ d1 \in Nat /\ d1 <= 7 /\ i \in Nat /\ i <= V6_MAX_JSON_COLLECTION_ITEMS /\ w \in Nat /\ w <= V6_MAX_JSON_STRING_BYTES
        /\ top \in Nat /\ v \in Measures(d1, i, w, top) /\ v.bytes <= Room
    BY <1>4, <1>14, <1>16, <1>17, Bounds DEF i
  <2> QED BY ONLY <2>1, IsRoomy
<1>19. RawTlResult(n) = Accepted(v)
  <2>1. texts # <<>>
    BY <1>2, <1>6, EmptySeq
  <2>2. RawTlResult(n) = V6RpcOutputRaw(v)
    <3>1. ~(n > MAX_RAW_TL_BODY_BYTES)
      BY Bounds
    <3> QED BY <2>1, <3>1 DEF RawTlResult, v, members, array, texts, chunks, e, x, y
  <2>3. v.bytes <= MAX_LINE_BYTES - 1024
    BY <1>16, Bounds
  <2> QED BY <2>2, <2>3 DEF V6RpcOutputRaw
<1> QED BY <1>18, <1>19

\* A raw reply of any length of an answer (whole words of four bytes) reaches the module, and its
\* chunks are a body that decode_raw_tl_body takes back.
THEOREM RawBodiesAreDelivered ==
  ASSUME NEW n \in Nat, n >= 4, n % 4 = 0
  PROVE  RawReaches(n, RawTlResult(n))
<1> SUFFICES ASSUME n <= MAX_RAW_TL_BODY_BYTES
             PROVE  /\ RawTlResult(n).ok /\ Reaches(RawTlResult(n))
                    /\ DecodeRawTlBody(RawChunks(Ceil(n, 3) * 4), Padding(n)) = Accepted(n)
  BY DEF RawReaches
<1>1. PICK v : RawTlResult(n) = Accepted(v) /\ Roomy(v)
  BY RawDeliverable
<1>2. RawTlResult(n).ok
  BY <1>1, IsAccepted
<1>3. Deliverable(RawTlResult(n))
  BY <1>1 DEF Deliverable
<1>4. Reaches(RawTlResult(n))
  BY <1>3, DeliverableReaches
<1>5. DecodeRawTlBody(RawChunks(Ceil(n, 3) * 4), Padding(n)) = Accepted(n)
  BY ChunksTakenBack
<1> QED BY <1>2, <1>4, <1>5

\* Whatever the executor returns reaches the module: for every method, parameters and outcome of the
\* call, the result or the error passes the guards of serialize_v6_core_result.
THEOREM RepliesReachTheModule ==
  ASSUME NEW method \in V6Methods, NEW p, NEW reply
  PROVE  Reaches(Execute(method, p, reply))
<1> SUFFICES Deliverable(Execute(method, p, reply))
  BY DeliverableReaches
<1>1. Deliverable(UpdateStatus(p, reply))
  BY SummariesDeliverable, AnswerDeliverable DEF UpdateStatus
<1>2. Deliverable(ContactsSummary(reply)) /\ Deliverable(HistorySummary(reply)) /\ Deliverable(DialogsSummary(reply))
  BY SummariesDeliverable DEF ContactsSummary, HistorySummary, DialogsSummary
<1>3. Deliverable(GetContacts(p, reply))
  BY <1>2, AnswerDeliverable, RefusalDeliverable DEF GetContacts
<1>4. Deliverable(GetHistory(p, reply))
  BY <1>2, AnswerDeliverable, RefusalDeliverable DEF GetHistory
<1>5. Deliverable(GetDialogs(p, reply))
  BY <1>2, AnswerDeliverable, RefusalDeliverable DEF GetDialogs
<1>6. Deliverable(RawInvoke(p, reply))
  <2> DEFINE sent == RawInvokePipeline(p.chunks, p.padding, p.dc, p.home)
             body == DecodeRawTlBody(p.chunks, p.padding)
             n == (Total(p.chunks) \div 4) * 3 - p.padding
  <2>1. \/ body = Accepted(n) /\ n \in 4 .. MAX_RAW_TL_BODY_BYTES /\ n % 4 = 0
        \/ body = Refused("InvalidParams")
    BY DEF DecodeRawTlBody
  <2> DEFINE target == IF p.dc = 0 THEN p.home ELSE p.dc
  <2>2. sent = IF ~body.ok THEN body
               ELSE IF p.dc # 0 /\ p.dc \notin 1 .. 100 THEN Refused("InvalidParams")
               ELSE IF target = 0 THEN Refused("Transport") ELSE Accepted([dc |-> target, body |-> body.value])
    BY DEF RawInvokePipeline
  <2>3. RawInvoke(p, reply) = IF sent.ok THEN Answer(reply, RawTlResult(sent.value.body)) ELSE sent
    BY DEF RawInvoke
  <2> HIDE DEF sent, body, n, target
  <2>4. (\E e : sent = Refused(e)) \/ (\E t : sent = Accepted([dc |-> t, body |-> n]) /\ body = Accepted(n))
    <3>1. CASE body = Refused("InvalidParams")
      <4>1. ~body.ok
        BY <3>1, RefusedNot
      <4> QED BY <2>2, <3>1, <4>1
    <3>2. CASE body = Accepted(n)
      <4>1. body.ok /\ body.value = n
        BY <3>2, IsAccepted
      <4> QED BY <2>2, <3>2, <4>1
    <3> QED BY <2>1, <3>1, <3>2
  <2>5. CASE \E e : sent = Refused(e)
    <3>1. PICK e : sent = Refused(e)
      BY <2>5
    <3>2. ~sent.ok
      BY <3>1, RefusedNot
    <3> QED BY <2>3, <3>1, <3>2, RefusalDeliverable
  <2>6. CASE \E t : sent = Accepted([dc |-> t, body |-> n]) /\ body = Accepted(n)
    <3>1. PICK t : sent = Accepted([dc |-> t, body |-> n]) /\ body = Accepted(n)
      BY <2>6
    <3>2. sent.ok /\ sent.value = [dc |-> t, body |-> n]
      BY <3>1, IsAccepted
    <3>3. n \in Nat /\ n >= 4 /\ n <= MAX_RAW_TL_BODY_BYTES /\ n % 4 = 0
      <4>1. body # Refused("InvalidParams")
        <5>1. body.ok /\ ~Refused("InvalidParams").ok
          BY <3>1, IsAccepted, RefusedNot
        <5> QED BY <5>1
      <4>2. n \in 4 .. MAX_RAW_TL_BODY_BYTES /\ n % 4 = 0
        BY <2>1, <4>1
      <4> QED BY <4>2, Bounds
    <3>4. Deliverable(RawTlResult(n))
      BY <3>3, RawDeliverable DEF Deliverable
    <3>5. RawInvoke(p, reply) = Answer(reply, RawTlResult(n))
      BY <2>3, <3>2
    <3> QED BY <3>4, <3>5, AnswerDeliverable
  <2> QED BY <2>4, <2>5, <2>6
<1>7. CASE ~DecodeParams(p)
  BY <1>7, RefusalDeliverable DEF Execute
<1>8. CASE DecodeParams(p)
  BY <1>1, <1>3, <1>4, <1>5, <1>6, <1>8 DEF Execute, V6Methods
<1> QED BY <1>7, <1>8

\* A well-formed reaction: a short note, and distinct reactions each of which is valid.
WellFormed(action) ==
  /\ action.ref = 1 /\ action.note <= MAX_ACTION_NOTE_CHARS
  /\ IsInjective(action.reactions)
  /\ \A i \in DOMAIN action.reactions : ValidReaction(action.reactions[i])

LEMMA IsRefused == ASSUME NEW e PROVE ~Refused(e).ok
BY DEF Refused

\* What either wire reads of a reply holds its action to the version's own rule.
LEMMA ReactionRead ==
  ASSUME NEW v \in 3 .. 6, NEW action, ReadReply(v, action).ok
  PROVE  ParseEventAction(action, v)
<1> DEFINE line == Reply(v, action)
<1>1. /\ line.type = "event_result" /\ line.actions = <<action>> /\ line.fields = {"request_id", "actions"}
      /\ 1 \in DOMAIN line.actions /\ line.actions[1] = action
  BY DEF Reply, Line
<1> HIDE DEF line
<1>2. CASE v = 6
  <2>1. ParseV6InboundFrame(line, 5).ok
    BY <1>2 DEF ReadReply, line
  <2>2. V6Lifecycle(line)
    BY <1>1, <2>1, IsRefused DEF ParseV6InboundFrame, ParseV6Value
  <2> QED BY <1>1, <1>2, <2>2 DEF V6Lifecycle
<1>3. CASE v # 6
  <2>1. ParseModuleLine(line, v).ok
    BY <1>3 DEF ReadReply, line
  <2>2. \A i \in DOMAIN line.actions : ParseEventAction(line.actions[i], v)
    BY <1>1, <2>1, IsRefused DEF ParseModuleLine
  <2> QED BY <1>1, <2>2
<1> QED BY <1>2, <1>3

\* For every protocol version and every well-formed reaction: the reaction that the wire lets through
\* in a module's version is not refused afterwards by validate_reaction_action.
THEOREM ReactionsAgree ==
  ASSUME NEW v \in 3 .. 6, NEW action, WellFormed(action), ReadReply(v, action).ok
  PROVE  ValidateReactionAction(Reactor(v), [module |-> "mod", request |-> 1, ref |-> 1], 1, action)
<1> DEFINE d == Reactor(v)
           scope == [module |-> "mod", request |-> 1, ref |-> 1]
<1>1. ParseEventAction(action, v)
  BY ReactionRead
<1>2. Len(action.reactions) <= MAX_REACTIONS_PER_ACTION /\ (v = 3 => Len(action.reactions) = 1)
  <2> DEFINE n == Len(action.reactions)
  <2>1. (v = 3 /\ n = 1) \/ (v >= 4 /\ n <= MAX_REACTIONS_PER_ACTION)
    <3> HIDE DEF MAX_REACTIONS_PER_ACTION
    <3> QED BY <1>1 DEF ParseEventAction
  <2> HIDE DEF n
  <2>2. n <= MAX_REACTIONS_PER_ACTION /\ (v = 3 => n = 1)
    BY <2>1 DEF MAX_REACTIONS_PER_ACTION
  <2> QED BY <2>2 DEF n
<1>3. /\ d.id = "mod" /\ d.schema = v
      /\ d.actions = <<"message.react">> /\ d.capabilities = <<"message.react">>
  BY DEF Reactor
<1>4. "message.react" \in Range(<<"message.react">>)
  <2> DEFINE s == <<"message.react">>
  <2>1. 1 \in DOMAIN s /\ s[1] = "message.react"
    OBVIOUS
  <2> HIDE DEF s
  <2>2. "message.react" \in Range(s)
    BY <2>1 DEF Range
  <2> QED BY <2>2 DEF s
<1>5. EventScopeValidate(scope, "mod", 1, action)
  BY DEF EventScopeValidate, WellFormed
<1> HIDE DEF d, scope
<1>6. ValidateReactionAction(d, scope, 1, action)
  BY <1>2, <1>3, <1>4, <1>5 DEF ValidateReactionAction, WellFormed
<1> QED BY <1>6 DEF d, scope

\* The reactions of the runs are well-formed.
LEMMA ActionsWellFormed == ASSUME NEW a \in Actions PROVE WellFormed(a)
<1>1. PICK s \in BOOLEAN, n \in {0, 128}, k \in 0 .. 4 :
        a = [type |-> "message.react", single |-> s, ref |-> 1, note |-> n, reactions |-> [i \in 1 .. k |-> Emoji(i)]]
  BY DEF Actions
<1> DEFINE r == [i \in 1 .. k |-> Emoji(i)]
<1>2. a.ref = 1 /\ a.note = n /\ a.reactions = r /\ n <= MAX_ACTION_NOTE_CHARS
  BY <1>1 DEF MAX_ACTION_NOTE_CHARS
<1>3. \A i : Emoji(i).type = "emoji" /\ Emoji(i).text.len = i /\ Emoji(i).text.plain
  BY DEF Emoji
<1>4. DOMAIN r = 1 .. k /\ \A i \in 1 .. k : r[i] = Emoji(i)
  OBVIOUS
<1> HIDE DEF r
<1>5. \A i, j \in DOMAIN r : r[i] = r[j] => i = j
  BY <1>3, <1>4
<1>6. \A i \in DOMAIN r : ValidReaction(r[i])
  <2> SUFFICES ASSUME NEW i \in 1 .. k PROVE ValidReaction(r[i])
    BY <1>4
  <2>1. i \in 1 .. 32
    OBVIOUS
  <2>2. ValidReaction(Emoji(i))
    BY <1>3, <2>1 DEF ValidReaction, MAX_EMOJI_CHARS
  <2> QED BY <1>4, <2>2
<1> QED BY <1>2, <1>5, <1>6 DEF WellFormed, IsInjective

\* A value is within the guards.
LEMMA RoomyFits == ASSUME NEW v, Roomy(v) PROVE GuardV6Json(v, 0) /\ v.bytes \in Nat
<1> DEFINE i == V6_MAX_JSON_COLLECTION_ITEMS
           s == V6_MAX_JSON_STRING_BYTES
           b == Room
           d == 7
<1>1. d \in Nat /\ i \in Nat /\ s \in Nat /\ b \in Nat /\ v \in Measures(d, i, s, b)
  BY Bounds DEF Roomy
<1> HIDE DEF i, s, b, d
<1>2. v.depth \in 0 .. d /\ v.items \in 0 .. i /\ v.str \in 0 .. s /\ v.bytes \in 0 .. b
  BY ONLY <1>1, MeasuresOf
<1>3. i = V6_MAX_JSON_COLLECTION_ITEMS /\ s = V6_MAX_JSON_STRING_BYTES /\ d <= V6_MAX_JSON_DEPTH /\ V6_MAX_JSON_DEPTH \in Nat
  BY Bounds DEF i, s, d
<1> QED BY <1>1, <1>2, <1>3 DEF GuardV6Json

\* A call that was read carries an id a result may carry, in a revision that has the result.
LEMMA CallRead ==
  ASSUME NEW line, line.type \in {"host.invoke", "telegram.invoke"}, NEW revision,
         ParseV6InboundFrame(line, revision).ok
  PROVE  /\ ValidateV6ContractRevision(revision) /\ revision >= InvokeRevision(line)
         /\ IsV6CallId(line.call_id) /\ ParseV6InboundFrame(line, revision) = Accepted(Message(line))
<1>1. ValidateV6ContractRevision(revision)
  BY IsRefused DEF ParseV6InboundFrame
<1>2. revision >= InvokeRevision(line) /\ V6WireInvoke(line)
  <2> HIDE DEF InvokeRevision, V6WireInvoke
  <2> QED BY IsRefused DEF ParseV6InboundFrame, ParseV6Value
<1>3. ParseV6InboundFrame(line, revision) = Accepted(Message(line))
  BY IsRefused DEF ParseV6InboundFrame, ParseV6Value
<1> QED BY <1>1, <1>2, <1>3 DEF V6WireInvoke

\* For every call that parse_v6_inbound_frame accepted and every value that leaves room for its line:
\* the result is serialised under the call's own id, and parse_v6_core_frame accepts it at the
\* revision the call was made in.
THEOREM CallsAreAnswered ==
  ASSUME NEW line, line.type \in {"host.invoke", "telegram.invoke"}, line.call_id.len \in Int, NEW revision \in Int,
         ParseV6InboundFrame(line, revision).ok, NEW v, Roomy(v)
  PROVE  LET sent == SerializeV6CoreResult(ResultType[line.type], line.call_id, Accepted(v)) IN
         sent.ok /\ ParseV6CoreFrame(sent.value, revision).ok
<1> DEFINE type == ResultType[line.type]
           id == line.call_id
           r == Accepted(v)
           answer == ResultLine(type, id, r)
           sent == SerializeV6CoreResult(type, id, r)
<1>1. /\ ValidateV6ContractRevision(revision) /\ revision >= InvokeRevision(line) /\ IsV6CallId(id)
  BY CallRead
<1>2. r.ok /\ r.value = v
  BY IsAccepted
<1>3. \/ type = "telegram.result"
      \/ type = "host.result" /\ revision >= V6_HOST_CONTRACT_REVISION
  BY <1>1 DEF ResultType, InvokeRevision
<1> HIDE DEF type, id, r
<1>4. id.len \in 0 .. 64
  BY <1>1 DEF IsV6CallId, id
<1>5. /\ answer.type = type /\ answer.call_id = id /\ answer.ok /\ answer.field = "result"
      /\ answer.json = Nest(<<v, Scalar(id.len)>>, 80)
  BY <1>2 DEF ResultLine
<1> HIDE DEF answer
<1>6. GuardV6Json(answer.json, 0) /\ answer.json.bytes <= MAX_LINE_BYTES
  BY <1>4, <1>5, ResultFits
<1>7. sent = Accepted(answer)
  BY <1>1, <1>2, <1>6 DEF SerializeV6CoreResult, answer
<1>8. sent.ok /\ sent.value = answer
  BY <1>7, IsAccepted
<1> HIDE DEF sent
<1>9. ParseV6Value(answer.json).ok
  <2>1. answer.json.bytes \in Int
    <3> DEFINE x == Scalar(id.len)
    <3>1. id.len \in Nat /\ v.bytes \in Int
      BY <1>4, RoomyFits
    <3>2. x.bytes \in Int /\ 80 \in Int
      BY <3>1, ScalarMeasures
    <3> HIDE DEF x
    <3>3. Nest(<<v, x>>, 80).bytes = 80 + v.bytes + x.bytes
      BY ONLY <3>1, <3>2, TwoBytes
    <3> QED BY <1>5, <3>1, <3>2, <3>3 DEF x
  <2>2. ~(answer.json.bytes > MAX_LINE_BYTES)
    BY <1>6, <2>1, Bounds
  <2> QED BY <1>6, <2>2, IsAccepted DEF ParseV6Value
<1>10. ParseV6HostResult(answer).ok
  BY <1>1, <1>5, IsAccepted DEF ParseV6HostResult
<1>11. ParseV6CoreFrame(answer, revision).ok
  BY <1>1, <1>3, <1>5, <1>9, <1>10 DEF ParseV6CoreFrame
<1> QED BY <1>8, <1>11 DEF sent, type, id, r

\* The conformance tool, which reads only calls, reads a call that fits its line as Lavis does.
LEMMA CallsReadAlike ==
  ASSUME NEW line, line.type \in {"host.invoke", "telegram.invoke"}, NEW revision,
         line.bytes \in Int, line.params.bytes \in Int, line.bytes <= MAX_LINE_BYTES
  PROVE  ParseV6ModuleFrame(line, revision) = ParseV6InboundFrame(line, revision)
<1> DEFINE frame == ParseV6InboundFrame(line, revision)
           extra == line.bytes - line.params.bytes
           whole == Nest(<<line.params>>, extra)
<1>1. whole.bytes = line.bytes
  <2> DEFINE p == line.params
  <2>1. extra \in Int /\ p.bytes \in Int
    OBVIOUS
  <2>2. extra + p.bytes = line.bytes
    OBVIOUS
  <2> HIDE DEF extra, p
  <2>3. Nest(<<p>>, extra).bytes = extra + p.bytes
    BY ONLY <2>1, OneBytes
  <2> QED BY <2>2, <2>3 DEF p
<1>2. ParseV6Value(whole).ok \/ ParseV6Value(whole) = Refused("ProtocolDecode")
  <2> HIDE DEF whole
  <2>1. ~(whole.bytes > MAX_LINE_BYTES)
    BY <1>1, Bounds
  <2> QED BY <2>1, IsAccepted DEF ParseV6Value
<1>3. frame = Accepted(Message(line)) \/ frame = Refused("ProtocolDecode")
  <2> HIDE DEF whole
  <2>1. frame = IF ~ValidateV6ContractRevision(revision) THEN Refused("ProtocolDecode")
        ELSE IF ~ParseV6Value(whole).ok THEN ParseV6Value(whole)
        ELSE IF \/ /\ line.type \in {"host.invoke", "telegram.invoke"}
                   /\ revision >= InvokeRevision(line) /\ V6WireInvoke(line)
                \/ /\ line.type \notin {"host.invoke", "telegram.invoke"}
                   /\ ParseV6Wire(line) /\ V6Lifecycle(line)
        THEN Accepted(Message(line)) ELSE Refused("ProtocolDecode")
    BY DEF ParseV6InboundFrame, whole
  <2> HIDE DEF frame
  <2> QED BY <1>2, <2>1
<1> HIDE DEF frame
<1>4. Message(line).type = line.type
  BY DEF Message
<1>5. ~Refused("ProtocolDecode").ok
  BY IsRefused
<1>6. Accepted(Message(line)).ok /\ Accepted(Message(line)).value = Message(line)
  BY IsAccepted
<1>7. frame = Accepted(Message(line)) => frame.ok /\ frame.value.type = line.type
  BY <1>4, <1>6
<1>8. ParseV6ModuleFrame(line, revision) = IF frame.ok /\ frame.value.type \in {"host.invoke", "telegram.invoke"}
                                          THEN frame ELSE Refused("ProtocolDecode")
  BY DEF ParseV6ModuleFrame, frame
<1> QED BY <1>3, <1>5, <1>7, <1>8 DEF frame

LEMMA MeasureRoomy == ASSUME NEW depth \in 0 .. 7 PROVE Roomy(Measure(depth)) /\ Measure(depth).bytes = 100
<1> DEFINE v == Measure(depth)
           d == 7
           i == V6_MAX_JSON_COLLECTION_ITEMS
           s == V6_MAX_JSON_STRING_BYTES
           b == 100
<1>1. v = [depth |-> depth, items |-> 1, str |-> 10, bytes |-> 100]
  BY DEF Measure
<1>2. /\ d \in Nat /\ d <= 7 /\ i \in Nat /\ i <= V6_MAX_JSON_COLLECTION_ITEMS /\ s \in Nat
      /\ s <= V6_MAX_JSON_STRING_BYTES /\ b \in Nat /\ b <= Room
      /\ depth \in 0 .. d /\ 1 \in 0 .. i /\ 10 \in 0 .. s /\ b \in 0 .. b
  BY Bounds
<1> HIDE DEF v, d, i, s
<1>3. v \in Measures(d, i, s, b)
  BY <1>1, <1>2 DEF Measures
<1>4. v.bytes = b
  BY <1>1
<1>5. v.bytes <= Room
  BY <1>2, <1>4
<1>6. Roomy(v)
  BY ONLY <1>2, <1>3, <1>5, IsRoomy
<1> QED BY <1>4, <1>6 DEF v

\* A line of the runs is within the guards of the first look at it.
LEMMA LineGuarded ==
  ASSUME NEW type, NEW ver, NEW fields, NEW len, NEW text
  PROVE  LET line == Line(type, ver, fields, len, 0, text) IN
         ParseV6Value(Nest(<<line.params>>, line.bytes - line.params.bytes)).ok
<1> DEFINE line == Line(type, ver, fields, len, 0, text)
           p == Measure(0)
           d == 0
           i == V6_MAX_JSON_COLLECTION_ITEMS
           s == V6_MAX_JSON_STRING_BYTES
           b == 100
           n == 1
           extra == 100
           members == <<p>>
           v == Nest(members, extra)
<1>1. line.params = p /\ line.bytes = 200 /\ p.bytes = 100 /\ line.bytes - line.params.bytes = extra
  BY DEF Line, Measure
<1>2. /\ d \in Nat /\ i \in Nat /\ s \in Nat /\ b \in Nat /\ extra \in Nat /\ n \in 0 .. i
      /\ 0 \in 0 .. d /\ 1 \in 0 .. i /\ 10 \in 0 .. s /\ 100 \in 0 .. b
  BY Bounds
<1>3. p = [depth |-> 0, items |-> 1, str |-> 10, bytes |-> 100]
  BY DEF Measure
<1> DEFINE M == Measures(d, i, s, b)
<1> HIDE DEF line, p, d, i, s, b
<1>4. p \in M
  BY <1>2, <1>3 DEF Measures
<1>5. members \in Seq(M) /\ n = Len(members)
  <2> HIDE DEF M
  <2> QED BY <1>4
<1>6. v \in Measures(d + 1, i, s, extra + n * b)
  <2> HIDE DEF members, n, extra
  <2>1. /\ d \in Nat /\ i \in Nat /\ s \in Nat /\ b \in Nat /\ extra \in Nat
        /\ members \in Seq(Measures(d, i, s, b)) /\ n \in 0 .. i /\ n = Len(members)
    BY <1>2, <1>5
  <2>2. Nest(members, extra) \in Measures(d + 1, i, s, extra + n * b)
    BY ONLY <2>1, NestWithin
  <2> QED BY <2>2
<1>7. v.bytes = 200
  <2>1. p.bytes \in Int /\ extra \in Int
    BY <1>1
  <2>2. v.bytes = extra + p.bytes
    BY ONLY <2>1, OneBytes
  <2> QED BY <1>1, <2>2
<1>8. v.depth \in 0 .. 8 /\ v.items \in 0 .. i /\ v.str \in 0 .. s
  <2> DEFINE d1 == d + 1
             b1 == extra + n * b
  <2>1. d1 \in Nat /\ b1 \in Nat /\ i \in Nat /\ s \in Nat /\ d1 <= 8
    BY <1>2 DEF d
  <2>2. v \in Measures(d1, i, s, b1)
    BY <1>6
  <2> HIDE DEF d1, b1, v
  <2>3. v.depth \in 0 .. d1 /\ v.items \in 0 .. i /\ v.str \in 0 .. s
    BY ONLY <2>1, <2>2, MeasuresOf
  <2> QED BY <2>1, <2>3
<1> HIDE DEF v, extra
<1>9. GuardV6Json(v, 0)
  <2>1. i = V6_MAX_JSON_COLLECTION_ITEMS /\ s = V6_MAX_JSON_STRING_BYTES /\ 8 <= V6_MAX_JSON_DEPTH /\ V6_MAX_JSON_DEPTH \in Nat
    BY Bounds DEF i, s
  <2> QED BY <1>2, <1>8, <2>1 DEF GuardV6Json
<1>10. ~(v.bytes > MAX_LINE_BYTES)
  BY <1>7, Bounds
<1>11. ParseV6Value(v).ok
  BY <1>9, <1>10, IsAccepted DEF ParseV6Value
<1> QED BY <1>1, <1>11 DEF v, members, line

LEMMA SmallId == /\ IsV6CallId(Id(1)) /\ IsV6RequestId(Id(1))
BY DEF Id, IsV6CallId, IsV6RequestId

\* For every protocol version: what Lavis sends to a module in it belongs to an exchange whose other
\* half Lavis reads in it.
THEOREM OtherHalvesAreRead ==
  ASSUME NEW event \in Events, NEW v \in 2 .. 6, v < 6 => SerializeFor(event, v)
  PROVE  OtherHalfRead(event, v)
<1> DEFINE type == IF event = "telegram.result" THEN "telegram.invoke" ELSE "event_result"
<1>1. \/ event = "message.created" /\ type = "event_result"
      \/ event = "message.edited" /\ type = "event_result"
      \/ event = "telegram.result" /\ type = "telegram.invoke"
  BY DEF Events
<1>2. v < 6 => (type = "event_result" /\ v >= 3) \/ (type = "telegram.invoke" /\ v = 5)
  BY <1>1 DEF SerializeFor
<1>3. type = "event_result" \/ type = "telegram.invoke"
  BY <1>1
<1>4. OtherHalfRead(event, v) =
        IF v < 6
        THEN ParseModuleLine(Line(type, v, LegacyFields(type, v), 1, 0, 5), v).ok
        ELSE ParseV6InboundFrame(Line(type, 6, IF type = "event_result" THEN LifecycleFields[type] ELSE InvokeFields,
                                1, 0, 5), V6_CURRENT_CONTRACT_REVISION).ok
  BY DEF OtherHalfRead
<1> HIDE DEF type
<1>5. CASE v < 6
  <2> DEFINE fields == LegacyFields(type, v)
             line == Line(type, v, fields, 1, 0, 5)
  <2>1. /\ line.type = type /\ line.version = v /\ line.fields = fields /\ line.request_id = Id(1) /\ line.call_id = Id(1)
        /\ line.bytes = 200 /\ line.actions = <<>>
    BY DEF Line
  <2>2. "request_id" \in fields
    BY <1>3 DEF LegacyFields
  <2> HIDE DEF fields, line
  <2>3. LegacyType(type, v)
    BY <1>2, <1>5 DEF LegacyType
  <2>4. ValidateRequestId(line) /\ IsV6CallId(line.call_id)
    BY <2>1, <2>2, SmallId DEF ValidateRequestId
  <2>5. LegacyText(line)
    BY <1>3, <2>1 DEF LegacyText
  <2>6. Len(line.actions) <= MAX_EVENT_ACTIONS /\ DOMAIN line.actions = {}
    BY <2>1 DEF MAX_EVENT_ACTIONS
  <2>7. ~(line.bytes > MAX_LINE_BYTES)
    BY <2>1, Bounds
  <2>8. ParseModuleLine(line, v) = Accepted(Message(line))
    <3> HIDE DEF LegacyText
    <3> QED BY <2>1, <2>3, <2>4, <2>5, <2>6, <2>7 DEF ParseModuleLine, fields
  <2>9. ParseModuleLine(line, v).ok
    BY <2>8, IsAccepted
  <2> QED BY <1>4, <1>5, <2>9 DEF line, fields
<1>6. CASE ~(v < 6)
  <2> DEFINE fields == IF type = "event_result" THEN LifecycleFields[type] ELSE InvokeFields
             line == Line(type, 6, fields, 1, 0, 5)
  <2>1. /\ line.type = type /\ line.version = 6 /\ line.fields = fields /\ line.request_id = Id(1) /\ line.call_id = Id(1)
        /\ line.bytes = 200 /\ line.actions = <<>> /\ line.params = Measure(0) /\ line.text = 5
    BY DEF Line
  <2>2. ParseV6Value(Nest(<<line.params>>, line.bytes - line.params.bytes)).ok
    BY LineGuarded
  <2> DEFINE whole == ParseV6Value(Nest(<<line.params>>, line.bytes - line.params.bytes))
             revision == V6_CURRENT_CONTRACT_REVISION
  <2>3. ValidateV6ContractRevision(revision) /\ revision = 5
    BY DEF ValidateV6ContractRevision, V6_CURRENT_CONTRACT_REVISION, V6_ALPHA_CONTRACT_REVISION
  <2>4. ParseV6InboundFrame(line, revision) =
         IF ~ValidateV6ContractRevision(revision) THEN Refused("ProtocolDecode")
         ELSE IF ~whole.ok THEN whole
         ELSE IF \/ /\ line.type \in {"host.invoke", "telegram.invoke"}
                    /\ revision >= InvokeRevision(line) /\ V6WireInvoke(line)
                 \/ /\ line.type \notin {"host.invoke", "telegram.invoke"}
                    /\ ParseV6Wire(line) /\ V6Lifecycle(line)
         THEN Accepted(Message(line)) ELSE Refused("ProtocolDecode")
    BY DEF ParseV6InboundFrame
  <2>5. type = "telegram.invoke" => fields = InvokeFields
    OBVIOUS
  <2>6. type = "event_result" => fields = LifecycleFields["event_result"]
    OBVIOUS
  <2> HIDE DEF whole, fields, line, revision
  <2>7. type = "telegram.invoke" => revision >= InvokeRevision(line) /\ V6WireInvoke(line)
    <3>1. GuardV6Json(line.params, 0)
      BY <2>1, MeasureRoomy, RoomyFits
    <3>2. type = "telegram.invoke" => InvokeRevision(line) = 2
      BY <2>1 DEF InvokeRevision, V6_ALPHA_CONTRACT_REVISION
    <3> QED BY <2>1, <2>3, <2>5, <3>1, <3>2, SmallId DEF V6WireInvoke
  <2>8. type = "event_result" => ParseV6Wire(line) /\ V6Lifecycle(line)
    <3> SUFFICES ASSUME type = "event_result" PROVE ParseV6Wire(line) /\ V6Lifecycle(line)
      OBVIOUS
    <3>1. "event_result" \in DOMAIN LifecycleFields
      BY DEF LifecycleFields
    <3>2. ParseV6Wire(line)
      <4>1. 5 <= V6_MAX_JSON_STRING_BYTES
        BY DEF V6_MAX_JSON_STRING_BYTES
      <4> QED BY <2>1, <2>6, <3>1, <4>1 DEF ParseV6Wire
    <3>3. Len(line.actions) <= MAX_EVENT_ACTIONS /\ DOMAIN line.actions = {}
      BY <2>1 DEF MAX_EVENT_ACTIONS
    <3> QED BY <2>1, <3>2, <3>3, SmallId DEF V6Lifecycle
  <2>9. ParseV6InboundFrame(line, revision) = Accepted(Message(line))
    BY <1>3, <2>1, <2>2, <2>3, <2>4, <2>7, <2>8 DEF whole
  <2>10. ParseV6InboundFrame(line, revision).ok
    BY <2>9, IsAccepted
  <2> QED BY <1>4, <1>6, <2>10 DEF line, fields, revision
<1> QED BY <1>5, <1>6

\* The calls of the runs.
LEMMA SomeCallsAnswered ==
  ASSUME NEW line \in Calls, NEW r \in 1 .. 6
  PROVE  CallAnswered(line, r, ParseV6InboundFrame(line, r))
<1> DEFINE result == ParseV6InboundFrame(line, r)
           v == Measure(2)
           sent == SerializeV6CoreResult(ResultType[line.type], line.call_id, Accepted(v))
<1>1. /\ line.type \in {"host.invoke", "telegram.invoke"} /\ line.call_id.len \in Int /\ line.bytes = 200 /\ line.params.bytes = 100
  <2>1. PICK type \in {"host.invoke", "telegram.invoke"}, ver \in {5, 6},
             fields \in {InvokeFields, InvokeFields \cup {"request_id"}, {"call_id"}},
             len \in {0, 1, 64, 65}, depth \in {0, 6, 7, 8, 9} : line = Line(type, ver, fields, len, depth, 20)
    BY DEF Calls
  <2>2. line.type = type /\ line.call_id = Id(len) /\ line.bytes = 200 /\ line.params = Measure(depth)
    BY <2>1 DEF Line
  <2>3. Id(len).len = len /\ Measure(depth).bytes = 100
    BY DEF Id, Measure
  <2> QED BY <2>2, <2>3
<1>2. r \in Int /\ Roomy(v)
  BY 2 \in 0 .. 7, MeasureRoomy
<1>3. line.bytes <= MAX_LINE_BYTES /\ line.bytes \in Int /\ line.params.bytes \in Int
  BY <1>1, Bounds
<1> HIDE DEF v
<1>4. result.ok => sent.ok /\ ParseV6CoreFrame(sent.value, r).ok
  <2> SUFFICES ASSUME result.ok PROVE sent.ok /\ ParseV6CoreFrame(sent.value, r).ok
    OBVIOUS
  <2> QED BY <1>1, <1>2, CallsAreAnswered
<1>5. ParseV6ModuleFrame(line, r) = result
  BY <1>1, <1>3, CallsReadAlike
<1> QED BY <1>4, <1>5 DEF CallAnswered, v

(***************************************************************************)
(* The token in BotFather's answer.                                        *)
(***************************************************************************)
\* A run of characters in an answer of BotFather.
RunSet == [c : TokenChars \cup {"other", "wide"}, n : Nat \ {0}]

LEMMA RunWidth == ASSUME NEW run \in RunSet PROVE Width(run) \in Nat /\ Width(run) > 0
<1>1. run.n \in Nat /\ run.n > 0
  BY DEF RunSet
<1> QED BY <1>1 DEF Width

LEMMA SizePrefixes ==
  ASSUME NEW runs \in Seq(RunSet)
  PROVE  \E t \in [0 .. Len(runs) -> Int] :
           t[0] = 0 /\ t[Len(runs)] = Size(runs) /\ \A k \in 1 .. Len(runs) : t[k] = t[k - 1] + Width(runs[k])
<1> DEFINE n == Len(runs)
           D == DOMAIN runs
           Body(f) == [s \in SUBSET D |-> IF s = {} THEN 0 ELSE f[s \ {Max(s)}] + Width(runs[Max(s)])]
           iter == CHOOSE f : f = Body(f)
           G == [k \in 1 .. n |-> [v \in Int |-> v + Width(runs[k])]]
<1>1. Size(runs) = iter[D]
  BY DEF Size, FoldLeft, MapThenFoldSet
<1>2. D = 1 .. n /\ n \in Nat /\ \A k \in 1 .. n : Width(runs[k]) \in Int
  BY LenProperties, ElementOfSeq, RunWidth
<1>3. G \in [1 .. n -> [Int -> Int]]
  BY <1>2
<1> HIDE DEF n, D
<1>4. PICK f \in [SUBSET (1 .. n) -> Int] : FoldsWith(f, 1 .. n, 0, G)
  <2>1. 0 \in Int
    OBVIOUS
  <2> HIDE DEF G
  <2> QED BY <1>2, <1>3, <2>1, FoldExists
<1>5. ASSUME NEW s \in SUBSET (1 .. n), s # {} PROVE Max(s) \in 1 .. n /\ s \ {Max(s)} \in SUBSET (1 .. n)
  BY <1>2, <1>5, WithoutLast
<1>6. f = Body(f)
  <2>1. ASSUME NEW s \in SUBSET D PROVE f[s] = Body(f)[s]
    <3>1. f[s] = IF s = {} THEN 0 ELSE G[Max(s)][f[s \ {Max(s)}]]
      BY <1>2, <1>4 DEF FoldsWith
    <3>2. s # {} => Max(s) \in 1 .. n /\ f[s \ {Max(s)}] \in Int
      BY <1>2, <1>5
    <3> QED BY <3>1, <3>2
  <2> QED BY <1>2, <2>1
<1>7. iter = Body(iter)
  <2> HIDE DEF Body
  <2> QED BY <1>6
<1> HIDE DEF iter
<1>8. iter[{}] = 0
  BY <1>7
<1>9. ASSUME NEW s \in SUBSET (1 .. n), s # {}, iter[s \ {Max(s)}] \in Int
      PROVE  iter[s] = G[Max(s)][iter[s \ {Max(s)}]]
  BY <1>2, <1>5, <1>7, <1>9
<1>10. StepsIn(iter, n, Int, 0, G)
  BY <1>8, <1>9 DEF StepsIn
<1>11. PICK t \in [0 .. n -> Int] : PrefixesOf(t, n, 0, G, iter[1 .. n])
  <2>1. 0 \in Int
    OBVIOUS
  <2> HIDE DEF G
  <2> QED BY <1>2, <1>3, <1>10, <2>1, FoldPrefixes
<1>12. t[0] = 0 /\ t[n] = iter[1 .. n] /\ \A k \in 1 .. n : t[k] = G[k][t[k - 1]]
  BY <1>11 DEF PrefixesOf
<1>13. ASSUME NEW k \in 1 .. n PROVE t[k] = t[k - 1] + Width(runs[k])
  <2>1. k - 1 \in 0 .. n
    BY <1>2
  <2>2. t[k - 1] \in Int
    BY <2>1
  <2> QED BY <1>12, <2>2
<1> QED BY <1>1, <1>2, <1>12, <1>13 DEF n

\* The sizes of an answer's prefixes: each run adds its own bytes, at least one.
LEMMA SizeSteps ==
  ASSUME NEW runs \in Seq(RunSet), NEW n \in Nat, n = Len(runs)
  PROVE  \E t \in [0 .. n -> Nat] :
           /\ t[0] = 0 /\ \A k \in 1 .. n : t[k] = t[k - 1] + Width(runs[k])
           /\ \A k \in 0 .. n : Size(SubSeq(runs, 1, k)) = t[k]
           /\ \A k \in 0 .. n : \A j \in 0 .. k : j < k => t[j] < t[k]
<1>1. \A k \in 1 .. n : runs[k] \in RunSet /\ Width(runs[k]) \in Nat /\ Width(runs[k]) > 0
  BY ElementOfSeq, RunWidth
<1>2. PICK t \in [0 .. n -> Int] : t[0] = 0 /\ \A k \in 1 .. n : t[k] = t[k - 1] + Width(runs[k])
  BY SizePrefixes
<1> DEFINE S == {k \in Nat : t[k] \in Nat /\ \A j \in 0 .. k : j < k => t[j] < t[k]}
<1>3. 0 \in S
  BY <1>2
<1>4. ASSUME NEW k \in Nat, k \in S, k < n PROVE k + 1 \in S
  <2>1. k + 1 \in 1 .. n /\ (k + 1) - 1 = k
    BY <1>4
  <2>2. t[k + 1] = t[k] + Width(runs[k + 1]) /\ Width(runs[k + 1]) \in Nat /\ Width(runs[k + 1]) > 0
    BY <1>1, <1>2, <2>1
  <2>3. t[k] \in Nat /\ \A j \in 0 .. k : j < k => t[j] < t[k]
    BY <1>4
  <2>4. t[k + 1] \in Nat /\ t[k] < t[k + 1]
    BY <2>2, <2>3
  <2>5. ASSUME NEW j \in 0 .. (k + 1), j < k + 1 PROVE t[j] < t[k + 1]
    <3>1. j \in 0 .. k /\ (j = k \/ j < k)
      BY <1>4, <2>5
    <3>2. j \in 0 .. n
      BY <1>4, <3>1
    <3> QED BY <2>3, <2>4, <3>1, <3>2
  <2> QED BY <2>4, <2>5
<1>5. \A k \in 0 .. n : t[k] \in Nat /\ \A j \in 0 .. k : j < k => t[j] < t[k]
  <2> HIDE DEF S
  <2>1. 0 .. n \subseteq S
    BY <1>3, <1>4, UpTo
  <2> QED BY <2>1 DEF S
<1>6. ASSUME NEW k \in 0 .. n PROVE Size(SubSeq(runs, 1, k)) = t[k]
  <2> DEFINE s == SubSeq(runs, 1, k)
  <2>1. s \in Seq(RunSet) /\ Len(s) = k /\ \A i \in 1 .. k : s[i] = runs[i]
    <3>1. \A i \in 1 .. k : runs[i] \in RunSet
      BY <1>1
    <3>2. 1 \in Int /\ k \in Int
      OBVIOUS
    <3>3. /\ s \in Seq(RunSet) /\ Len(s) = IF 1 <= k THEN k - 1 + 1 ELSE 0
          /\ \A i \in 1 .. k - 1 + 1 : s[i] = runs[1 + i - 1]
      BY <3>1, <3>2, SubSeqProperties
    <3>4. (IF 1 <= k THEN k - 1 + 1 ELSE 0) = k /\ k - 1 + 1 = k /\ \A i \in 1 .. k : 1 + i - 1 = i
      OBVIOUS
    <3> HIDE DEF s
    <3> QED BY <3>3, <3>4
  <2> HIDE DEF s
  <2>2. PICK u \in [0 .. k -> Int] : u[0] = 0 /\ u[k] = Size(s) /\ \A i \in 1 .. k : u[i] = u[i - 1] + Width(s[i])
    BY <2>1, SizePrefixes
  <2> DEFINE E == {i \in Nat : u[i] = t[i]}
  <2>3. 0 \in E
    BY <1>2, <2>2
  <2>4. ASSUME NEW i \in Nat, i \in E, i < k PROVE i + 1 \in E
    <3>1. i + 1 \in 1 .. k /\ i + 1 \in 1 .. n /\ (i + 1) - 1 = i
      BY <2>4
    <3>2. u[i + 1] = u[i] + Width(s[i + 1]) /\ t[i + 1] = t[i] + Width(runs[i + 1]) /\ s[i + 1] = runs[i + 1]
      BY <1>2, <2>1, <2>2, <3>1
    <3> QED BY <2>4, <3>2
  <2>5. k \in E
    <3> HIDE DEF E
    <3>1. k \in Nat
      OBVIOUS
    <3>2. 0 .. k \subseteq E
      BY <2>3, <2>4, <3>1, UpTo
    <3> QED BY <3>1, <3>2
  <2> QED BY <2>2, <2>5 DEF s
<1>7. t \in [0 .. n -> Nat]
  BY <1>5
<1> QED BY <1>2, <1>5, <1>6, <1>7

\* A run as bounded_prefix may cut it.
CutSet == [c : TokenChars \cup {"other", "wide"}, n : Nat]

\* bounded_prefix keeps every run that fits, and the class of a run it cuts.
LEMMA PrefixKeeps ==
  ASSUME NEW runs \in Seq(RunSet), NEW max \in Nat, NEW m \in 0 .. Len(runs), Size(SubSeq(runs, 1, m)) <= max
  PROVE  \E b \in Seq(CutSet) :
           /\ b = BoundedPrefix(runs, max) /\ Len(b) \in m .. Len(runs)
           /\ \A i \in 1 .. m : b[i] = runs[i]
           /\ \A i \in 1 .. Len(b) : b[i].c = runs[i].c
<1> DEFINE n == Len(runs)
           kept == {i \in DOMAIN runs : Size(SubSeq(runs, 1, i - 1)) < max}
           K == Cardinality(kept)
           cut(run, room) == [run EXCEPT !.n = IF run.c = "wide" THEN room \div 2 ELSE room]
           b == [i \in 1 .. K |->
                   IF Size(SubSeq(runs, 1, i - 1)) + Width(runs[i]) <= max THEN runs[i]
                   ELSE cut(runs[i], max - Size(SubSeq(runs, 1, i - 1)))]
<1>1. b = BoundedPrefix(runs, max)
  BY DEF BoundedPrefix
<1>2. n \in Nat /\ DOMAIN runs = 1 .. n /\ m \in 0 .. n
  BY LenProperties
<1>3. \A k \in 1 .. n : runs[k] \in RunSet /\ Width(runs[k]) \in Nat /\ Width(runs[k]) > 0
  BY ElementOfSeq, RunWidth
<1>4. PICK t \in [0 .. n -> Nat] :
        /\ t[0] = 0 /\ \A k \in 1 .. n : t[k] = t[k - 1] + Width(runs[k])
        /\ \A k \in 0 .. n : Size(SubSeq(runs, 1, k)) = t[k]
        /\ \A k \in 0 .. n : \A j \in 0 .. k : j < k => t[j] < t[k]
  <2> DEFINE l == Len(runs)
  <2>1. l \in Nat /\ l = Len(runs)
    BY <1>2
  <2> HIDE DEF l
  <2>2. \E t \in [0 .. l -> Nat] :
        /\ t[0] = 0 /\ \A k \in 1 .. l : t[k] = t[k - 1] + Width(runs[k])
        /\ \A k \in 0 .. l : Size(SubSeq(runs, 1, k)) = t[k]
        /\ \A k \in 0 .. l : \A j \in 0 .. k : j < k => t[j] < t[k]
    BY <2>1, SizeSteps
  <2> QED BY <2>2 DEF l
<1> HIDE DEF n
<1>5. t[m] <= max
  BY <1>2, <1>4
<1>6. \A i \in 1 .. n : i - 1 \in 0 .. n /\ Size(SubSeq(runs, 1, i - 1)) = t[i - 1] /\ t[i - 1] \in Nat
  BY <1>2, <1>4
<1>7. kept = {i \in 1 .. n : t[i - 1] < max}
  BY <1>2, <1>6
<1> HIDE DEF kept
<1>8. 1 .. m \subseteq kept
  <2>1. \A i \in 1 .. m : i \in 1 .. n /\ i - 1 \in 0 .. m /\ i - 1 < m /\ t[i - 1] \in Nat
    BY <1>2, <1>6
  <2>2. \A i \in 1 .. m : t[i - 1] < t[m]
    BY <1>2, <1>4, <2>1
  <2>3. t[m] \in Nat
    BY <1>2
  <2> QED BY <1>5, <1>7, <2>1, <2>2, <2>3
<1>9. \A i \in kept : i \in 1 .. n /\ 1 .. i \subseteq kept
  <2> SUFFICES ASSUME NEW i \in kept, NEW j \in 1 .. i PROVE i \in 1 .. n /\ j \in kept
    BY <1>7
  <2>1. i \in 1 .. n /\ t[i - 1] < max /\ j \in 1 .. n
    BY <1>2, <1>7
  <2>2. j = i \/ (j - 1 < i - 1 /\ j - 1 \in 0 .. i - 1 /\ i - 1 \in 0 .. n)
    BY <1>2, <2>1
  <2>3. j = i \/ t[j - 1] < t[i - 1]
    BY <1>4, <2>2
  <2>4. t[j - 1] \in Nat /\ t[i - 1] \in Nat
    BY <1>6, <2>1
  <2> QED BY <1>7, <2>1, <2>3, <2>4
<1>10. PICK h \in 0 .. n : kept = 1 .. h
  <2>1. CASE kept = {}
    <3>1. 1 .. 0 = {} /\ 0 \in 0 .. n
      BY <1>2
    <3> QED BY <2>1, <3>1
  <2>2. CASE kept # {}
    <3>0. 1 .. n \subseteq 0 .. n
      OBVIOUS
    <3>1. kept \in SUBSET (0 .. n)
      BY <1>7, <3>0
    <3>2. Max(kept) \in kept /\ \A y \in kept : Max(kept) >= y
      BY <1>2, <2>2, <3>1, GreatestUpTo
    <3>3. kept = 1 .. Max(kept) /\ Max(kept) \in 0 .. n
      <4> DEFINE h == Max(kept)
      <4>1. h \in kept /\ (\A y \in kept : h >= y) /\ h \in 1 .. n /\ 1 .. h \subseteq kept
        BY <1>9, <3>2
      <4> HIDE DEF h
      <4>2. \A y \in kept : y \in 1 .. h
        BY <1>9, <4>1
      <4> QED BY <4>1, <4>2, <3>0 DEF h
    <3> QED BY <3>3
  <2> QED BY <2>1, <2>2
<1>11. K = h /\ h \in Nat /\ h >= m
  <2>1. Cardinality(1 .. h) = h
    <3>1. Cardinality(1 .. h) = IF 1 > h THEN 0 ELSE h - 1 + 1
      BY FS_Interval
    <3> QED BY <3>1
  <2>2. h >= m
    <3>1. m \in 0 .. n /\ (m = 0 \/ m \in 1 .. m)
      BY <1>2
    <3>2. m = 0 \/ m \in 1 .. h
      BY <1>8, <1>10, <3>1
    <3> QED BY <3>1, <3>2
  <2> QED BY <1>10, <2>1, <2>2
<1> HIDE DEF K
<1>12. ASSUME NEW i \in 1 .. h
       PROVE  /\ b[i] \in CutSet /\ b[i].c = runs[i].c
              /\ i <= m => b[i] = runs[i]
  <2> DEFINE r == runs[i]
             w == Width(r)
             s == t[i - 1]
             room == max - s
  <2>1. i \in 1 .. n
    BY <1>2
  <2>2. r \in RunSet /\ w \in Nat /\ s \in Nat /\ s < max
    BY <1>3, <1>6, <1>7, <1>10, <2>1
  <2>3. b[i] = IF s + w <= max THEN r ELSE cut(r, room)
    <3>1. Size(SubSeq(runs, 1, i - 1)) = s
      BY <1>6, <2>1
    <3> QED BY <1>11, <3>1
  <2>4. i <= m => s + w <= max
    <3>1. s + w = t[i]
      BY <1>4, <2>1
    <3>2. i <= m => t[i] = t[m] \/ t[i] < t[m]
      BY <1>2, <1>4, <2>1
    <3>3. t[i] \in Nat /\ t[m] \in Nat
      BY <1>2, <2>1
    <3> QED BY <1>5, <3>1, <3>2, <3>3
  <2> HIDE DEF b, w
  <2>5. r = [c |-> r.c, n |-> r.n] /\ r.c \in TokenChars \cup {"other", "wide"} /\ r.n \in Nat
    BY <2>2 DEF RunSet
  <2> HIDE DEF r, s
  <2>6. room \in Nat /\ room \div 2 \in Nat
    BY <2>2
  <2> HIDE DEF room
  <2>7. cut(r, room) \in CutSet /\ cut(r, room).c = r.c
    BY <2>5, <2>6 DEF CutSet
  <2>8. r \in CutSet
    BY <2>5 DEF CutSet
  <2> QED BY <2>3, <2>4, <2>7, <2>8 DEF r
<1>13. b \in Seq(CutSet) /\ Len(b) = h
  <2>1. \A i \in 1 .. h : b[i] \in CutSet
    BY <1>12
  <2>2. DOMAIN b = 1 .. h /\ b = [i \in 1 .. h |-> b[i]]
    BY <1>11
  <2> HIDE DEF b
  <2>3. b \in [1 .. h -> CutSet]
    BY <2>1, <2>2
  <2> QED BY <1>11, <2>3, FunctionIsSeq
<1> HIDE DEF b
<1>14. \A i \in 1 .. m : i \in 1 .. h /\ b[i] = runs[i]
  BY <1>2, <1>11, <1>12
<1> QED BY <1>1, <1>10, <1>11, <1>12, <1>13, <1>14 DEF n

\* A part of an answer that begins within the runs.
LEMMA PartOfRuns ==
  ASSUME NEW X, NEW runs \in Seq(X), NEW i \in Nat, i > 0, NEW j \in Nat, i <= j, j <= Len(runs)
  PROVE  /\ SubSeq(runs, i, j) \in Seq(X) /\ Len(SubSeq(runs, i, j)) = j - i + 1
         /\ \A k \in 1 .. j - i + 1 : SubSeq(runs, i, j)[k] = runs[i + k - 1]
<1>1. \A k \in i .. j : runs[k] \in X
  <2>1. Len(runs) \in Nat
    BY LenProperties
  <2>2. \A k \in i .. j : k \in 1 .. Len(runs)
    BY <2>1
  <2> QED BY <2>2, ElementOfSeq
<1>2. i \in Int /\ j \in Int
  OBVIOUS
<1> QED BY <1>1, <1>2, SubSeqProperties

\* Where two answers agree they have the same parts.
LEMMA SameRuns ==
  ASSUME NEW X, NEW r \in Seq(X), NEW i \in Nat, i > 0, NEW j \in Nat, i <= j, j <= Len(r),
         NEW s \in Seq(X), NEW u \in Nat, NEW v \in Nat, u > 0, v <= Len(s), v - u = j - i,
         \A k \in 1 .. j - i + 1 : r[i + k - 1] = s[u + k - 1]
  PROVE  SubSeq(r, i, j) = SubSeq(s, u, v)
<1>1. u <= v /\ v - u + 1 = j - i + 1
  OBVIOUS
<1> DEFINE a == SubSeq(r, i, j)
           b == SubSeq(s, u, v)
<1>2. a \in Seq(X) /\ Len(a) = j - i + 1 /\ \A k \in 1 .. j - i + 1 : a[k] = r[i + k - 1]
  BY PartOfRuns
<1>3. b \in Seq(X) /\ Len(b) = v - u + 1 /\ \A k \in 1 .. v - u + 1 : b[k] = s[u + k - 1]
  BY <1>1, PartOfRuns
<1> HIDE DEF a, b
<1>4. Len(a) = Len(b) /\ \A k \in 1 .. Len(a) : a[k] = b[k]
  BY <1>1, <1>2, <1>3
<1>5. a = b
  BY <1>2, <1>3, <1>4, SeqEqual
<1> QED BY <1>5 DEF a, b

LEMMA SameRunsAt ==
  ASSUME NEW X, NEW r \in Seq(X), NEW s \in Seq(X), NEW i \in Nat, i > 0, NEW j \in Nat, i <= j, j <= Len(r), j <= Len(s),
         \A k \in i .. j : r[k] = s[k]
  PROVE  SubSeq(r, i, j) = SubSeq(s, i, j)
<1> DEFINE a == SubSeq(r, i, j)
           b == SubSeq(s, i, j)
<1>1. a \in Seq(X) /\ Len(a) = j - i + 1 /\ \A k \in 1 .. j - i + 1 : a[k] = r[i + k - 1]
  BY PartOfRuns
<1>2. b \in Seq(X) /\ Len(b) = j - i + 1 /\ \A k \in 1 .. j - i + 1 : b[k] = s[i + k - 1]
  BY PartOfRuns
<1> HIDE DEF a, b
<1>3. Len(a) = Len(b) /\ \A k \in 1 .. Len(a) : a[k] = b[k]
  <2>1. \A k \in 1 .. j - i + 1 : i + k - 1 \in i .. j
    OBVIOUS
  <2> QED BY <1>1, <1>2, <2>1
<1>4. a = b
  BY <1>1, <1>2, <1>3, SeqEqual
<1> QED BY <1>4 DEF a, b

\* A token has a colon.
LEMMA ShapeHasColon ==
  ASSUME NEW X, NEW runs \in Seq(X), NEW i \in Nat, i > 0, NEW j \in Nat, i <= j, j <= Len(runs),
         IsTokenShape(SubSeq(runs, i, j))
  PROVE  \E k \in i .. j : runs[k].c = "colon"
<1> DEFINE a == SubSeq(runs, i, j)
<1>1. a \in Seq(X) /\ Len(a) = j - i + 1 /\ \A k \in 1 .. j - i + 1 : a[k] = runs[i + k - 1]
  BY PartOfRuns
<1> HIDE DEF a
<1>2. DOMAIN a = 1 .. j - i + 1
  BY <1>1, LenProperties
<1>3. PICK k \in DOMAIN a : a[k] = [c |-> "colon", n |-> 1]
  BY DEF IsTokenShape, a
<1>4. i + k - 1 \in i .. j /\ runs[i + k - 1].c = "colon"
  <2>1. a[k].c = "colon"
    BY <1>3
  <2> QED BY <1>1, <1>2, <2>1
<1> QED BY <1>4

\* A piece never goes over a character that no token has, and goes as far as it can.
LEMMA PieceFacts ==
  ASSUME NEW X, NEW runs \in Seq(X), NEW n \in Nat, n = Len(runs), NEW p \in Pieces(runs)
  PROVE  /\ p[1] \in 1 .. n /\ p[2] \in p[1] .. n /\ p = <<p[1], p[2]>>
         /\ \A k \in p[1] .. p[2] : TokenChar(runs[k].c)
         /\ (p[1] > 1 => ~TokenChar(runs[p[1] - 1].c))
         /\ (p[2] < n => ~TokenChar(runs[p[2] + 1].c))
         /\ \A x \in p[1] .. n : ~TokenChar(runs[x].c) => p[2] < x
<1>1. DOMAIN runs = 1 .. n
  BY LenProperties
<1>2. /\ p \in (1 .. n) \X (1 .. n) /\ p[1] <= p[2] /\ \A k \in p[1] .. p[2] : TokenChar(runs[k].c)
      /\ (p[1] > 1 => ~TokenChar(runs[p[1] - 1].c))
      /\ (p[2] < n => ~TokenChar(runs[p[2] + 1].c))
  BY <1>1 DEF Pieces
<1>3. p[1] \in 1 .. n /\ p[2] \in 1 .. n /\ p = <<p[1], p[2]>>
  BY <1>2
<1>4. ASSUME NEW x \in p[1] .. n, ~TokenChar(runs[x].c) PROVE p[2] < x
  <2>1. x \notin p[1] .. p[2]
    BY <1>2, <1>4
  <2> QED BY <1>3, <2>1
<1> QED BY <1>2, <1>3, <1>4

\* A stretch of token characters between others is a piece, and the only one that begins in it.
LEMMA StretchIsPiece ==
  ASSUME NEW X, NEW runs \in Seq(X), NEW n \in Nat, n = Len(runs), NEW x \in 0 .. n, NEW y \in (x + 1) .. n,
         x > 0 => ~TokenChar(runs[x].c), y < n => ~TokenChar(runs[y + 1].c),
         \A k \in (x + 1) .. y : TokenChar(runs[k].c)
  PROVE  /\ <<x + 1, y>> \in Pieces(runs)
         /\ \A p \in Pieces(runs) : p[1] \in (x + 1) .. y => p = <<x + 1, y>>
<1>1. DOMAIN runs = 1 .. n
  BY LenProperties
<1>2. <<x + 1, y>> \in Pieces(runs)
  <2> DEFINE q == <<x + 1, y>>
  <2>1. q[1] = x + 1 /\ q[2] = y /\ q \in (1 .. n) \X (1 .. n)
    OBVIOUS
  <2> HIDE DEF q
  <2>2. q[1] <= q[2] /\ (q[1] > 1 => q[1] - 1 = x /\ x > 0)
    BY <2>1
  <2>3. \A k \in q[1] .. q[2] : TokenChar(runs[k].c)
    BY <2>1
  <2>4. (q[1] > 1 => ~TokenChar(runs[q[1] - 1].c)) /\ (q[2] < n => ~TokenChar(runs[q[2] + 1].c))
    BY <2>1, <2>2
  <2>5. q \in Pieces(runs)
    BY <1>1, <2>1, <2>2, <2>3, <2>4 DEF Pieces
  <2> QED BY <2>5 DEF q
<1>3. ASSUME NEW p \in Pieces(runs), p[1] \in (x + 1) .. y PROVE p = <<x + 1, y>>
  <2>1. /\ p[1] \in 1 .. n /\ p[2] \in p[1] .. n /\ p = <<p[1], p[2]>>
        /\ (p[1] > 1 => ~TokenChar(runs[p[1] - 1].c))
        /\ (p[2] < n => ~TokenChar(runs[p[2] + 1].c))
        /\ \A z \in p[1] .. n : ~TokenChar(runs[z].c) => p[2] < z
    BY PieceFacts
  <2> DEFINE u == p[1]
             v == p[2]
  <2>2. u \in (x + 1) .. y /\ v \in u .. n
    BY <1>3, <2>1
  <2>3. u = x + 1
    <3> SUFFICES ASSUME u > x + 1 PROVE FALSE
      BY <2>2
    <3>1. u - 1 \in (x + 1) .. y /\ u > 1
      BY <2>2
    <3> QED BY <2>1, <3>1
  <2>4. v <= y
    <3> SUFFICES ASSUME v > y PROVE FALSE
      BY <2>2
    <3>1. y < n /\ y + 1 \in u .. n
      BY <2>2
    <3>2. v < y + 1
      BY <2>1, <3>1
    <3> QED BY <2>2, <3>2
  <2>5. v >= y
    <3> SUFFICES ASSUME v < y PROVE FALSE
      BY <2>2
    <3>1. v < n /\ v + 1 \in (x + 1) .. y
      BY <2>2
    <3> QED BY <2>1, <3>1
  <2>6. u = x + 1 /\ v = y
    BY <2>2, <2>3, <2>4, <2>5
  <2> QED BY <2>1, <2>6
<1> QED BY <1>2, <1>3

\* No piece of a text is a token; a text ends apart from what follows; a token, or none.
Tokenless(runs) == \A p \in Pieces(runs) : ~IsTokenShape(SubSeq(runs, p[1], p[2]))
EndsApart(runs) == runs = <<>> \/ ~TokenChar(runs[Len(runs)].c)
IsToken(runs) == IsTokenShape(runs) /\ \A i \in DOMAIN runs : TokenChar(runs[i].c)

\* The runs of an answer's three parts, as bounded_prefix keeps them: x are before the token, t are the token.
KeepsParts(b, before, x, token, t, after) ==
  /\ Len(b) \in Nat /\ Len(b) >= x + t
  /\ \A i \in 1 .. x : b[i] = before[i]
  /\ \A i \in 1 .. t : b[x + i] = token[i]
  /\ \A i \in 1 .. Len(b) : i > x + t => i - (x + t) \in 1 .. Len(after) /\ b[i].c = after[i - (x + t)].c

LEMMA AnswerKept ==
  ASSUME NEW before \in Seq(RunSet), NEW token \in Seq(RunSet), NEW after \in Seq(RunSet), NEW max \in Nat,
         Size(Cat(before, token)) <= max,
         NEW x \in Nat, x = Len(before), NEW t \in Nat, t = Len(token), NEW answer, answer = Cat(Cat(before, token), after)
  PROVE  \E b \in Seq(CutSet) :
           b = BoundedPrefix(answer, max) /\ KeepsParts(b, before, x, token, t, after)
<1> DEFINE head == before \o token
           whole == head \o after
           m == x + t
           l == Len(after)
<1>1. l \in Nat
  BY LenProperties
<1>2. head \in Seq(RunSet) /\ Len(head) = m /\ \A i \in 1 .. m : head[i] = IF i <= x THEN before[i] ELSE token[i - x]
  BY ConcatProperties
<1> HIDE DEF head
<1>3. /\ whole \in Seq(RunSet) /\ Len(whole) = m + l
      /\ \A i \in 1 .. m + l : whole[i] = IF i <= m THEN head[i] ELSE after[i - m]
  <2>1. head \in Seq(RunSet) /\ after \in Seq(RunSet)
    BY <1>2
  <2>2. /\ whole \in Seq(RunSet) /\ Len(whole) = Len(head) + Len(after)
        /\ \A i \in 1 .. Len(head) + Len(after) : whole[i] = IF i <= Len(head) THEN head[i] ELSE after[i - Len(head)]
    BY ONLY <2>1, ConcatProperties
  <2> HIDE DEF whole, m
  <2> QED BY <1>2, <2>2
<1> HIDE DEF whole
<1>4. SubSeq(whole, 1, m) = head
  <2> DEFINE s == SubSeq(whole, 1, m)
  <2>1. \A i \in 1 .. m : whole[i] \in RunSet /\ i \in 1 .. m + l /\ whole[i] = head[i]
    BY <1>1, <1>3, ElementOfSeq
  <2>2. 1 \in Int /\ m \in Int
    OBVIOUS
  <2>3. /\ s \in Seq(RunSet) /\ Len(s) = IF 1 <= m THEN m - 1 + 1 ELSE 0
        /\ \A i \in 1 .. m - 1 + 1 : s[i] = whole[1 + i - 1]
    BY ONLY <2>1, <2>2, SubSeqProperties
  <2>4. (IF 1 <= m THEN m - 1 + 1 ELSE 0) = m /\ m - 1 + 1 = m /\ \A i \in 1 .. m : 1 + i - 1 = i
    OBVIOUS
  <2> HIDE DEF s, m
  <2>7. Len(s) = m /\ \A i \in 1 .. m : s[i] = whole[i]
    BY <2>3, <2>4
  <2>5. Len(s) = Len(head) /\ \A i \in 1 .. Len(s) : s[i] = head[i]
    BY <1>2, <2>1, <2>7
  <2>6. s = head
    BY <1>2, <2>3, <2>5, SeqEqual
  <2> QED BY <2>6 DEF s
<1>5. m \in 0 .. Len(whole) /\ Size(SubSeq(whole, 1, m)) <= max
  <2>1. m \in Nat /\ Len(whole) = m + l
    BY <1>3
  <2>2. Size(head) <= max
    BY DEF head, Cat
  <2> HIDE DEF m, l
  <2>3. m \in 0 .. Len(whole)
    BY <1>1, <2>1
  <2> DEFINE s == SubSeq(whole, 1, m)
  <2>4. s = head
    BY <1>4
  <2> HIDE DEF s
  <2>5. Size(s) <= max
    BY <2>2, <2>4
  <2> QED BY <2>3, <2>5 DEF s
<1> HIDE DEF m
<1>6. PICK b \in Seq(CutSet) :
        /\ b = BoundedPrefix(whole, max) /\ Len(b) \in m .. Len(whole)
        /\ \A i \in 1 .. m : b[i] = whole[i]
        /\ \A i \in 1 .. Len(b) : b[i].c = whole[i].c
  BY <1>3, <1>5, PrefixKeeps
<1>7. m \in Nat /\ m = x + t
  BY DEF m
<1>8. Len(b) \in Nat /\ Len(b) >= x + t
  BY <1>1, <1>3, <1>6, <1>7
<1>9. \A i \in 1 .. x : b[i] = before[i]
  <2>1. \A i \in 1 .. x : i \in 1 .. m /\ i \in 1 .. m + l /\ i <= x /\ i <= m
    BY <1>1, <1>7
  <2> QED BY <1>2, <1>3, <1>6, <2>1
<1>10. \A i \in 1 .. t : b[x + i] = token[i]
  <2> SUFFICES ASSUME NEW i \in 1 .. t PROVE b[x + i] = token[i]
    OBVIOUS
  <2> DEFINE j == x + i
  <2>1. j \in 1 .. m /\ j \in 1 .. m + l /\ ~(j <= x) /\ j <= m /\ j - x = i
    BY <1>1, <1>7
  <2> HIDE DEF j
  <2>2. b[j] = token[i]
    BY <1>2, <1>3, <1>6, <2>1
  <2> QED BY <2>2 DEF j
<1>11. \A i \in 1 .. Len(b) : i > x + t => i - (x + t) \in 1 .. l /\ b[i].c = after[i - (x + t)].c
  <2>1. \A i \in 1 .. Len(b) : i > x + t => i \in 1 .. m + l /\ ~(i <= m) /\ i - (x + t) \in 1 .. l /\ i - m = i - (x + t)
    BY <1>1, <1>3, <1>6, <1>7
  <2> QED BY <1>3, <1>6, <2>1
<1>12. whole = answer
  BY DEF whole, head, Cat
<1>13. KeepsParts(b, before, x, token, t, after)
  BY <1>8, <1>9, <1>10, <1>11 DEF KeepsParts
<1> QED BY <1>6, <1>12, <1>13

\* For every answer whose text before the token holds none and ends apart from it, and whose token, if
\* there is one, ends apart from what follows: extract_token takes the token whole, and nothing when
\* there is none.
THEOREM TokenIsTakenWhole ==
  ASSUME NEW before \in Seq(RunSet), NEW token \in Seq(RunSet), NEW after \in Seq(RunSet),
         Size(before \o token) <= MAX_RESPONSE_BYTES,
         Tokenless(before), EndsApart(before),
         \/ token = NoToken /\ \A i \in 1 .. Len(after) : after[i].c # "colon"
         \/ IsToken(token) /\ (after # <<>> => ~TokenChar(after[1].c))
  PROVE  ExtractToken(before \o token \o after) = token
<1> DEFINE x == Len(before)
           t == Len(token)
           max == MAX_RESPONSE_BYTES
           whole == before \o token \o after
<1>1. x \in Nat /\ t \in Nat /\ max \in Nat
  BY LenProperties DEF MAX_RESPONSE_BYTES
<1> HIDE DEF x, t
<1>2. PICK b \in Seq(CutSet) :
        /\ b = BoundedPrefix(whole, max) /\ Len(b) \in Nat /\ Len(b) >= x + t
        /\ \A i \in 1 .. x : b[i] = before[i]
        /\ \A i \in 1 .. t : b[x + i] = token[i]
        /\ \A i \in 1 .. Len(b) : i > x + t => i - (x + t) \in 1 .. Len(after) /\ b[i].c = after[i - (x + t)].c
  <2>1. /\ x = Len(before) /\ t = Len(token) /\ Size(Cat(before, token)) <= max
        /\ before \in Seq(RunSet) /\ token \in Seq(RunSet) /\ after \in Seq(RunSet) /\ whole = Cat(Cat(before, token), after)
    BY DEF x, t, Cat
  <2> HIDE DEF max, whole
  <2>2. \E b \in Seq(CutSet) : b = BoundedPrefix(whole, max) /\ KeepsParts(b, before, x, token, t, after)
    BY ONLY <1>1, <2>1, AnswerKept
  <2>3. PICK b \in Seq(CutSet) : b = BoundedPrefix(whole, max) /\ KeepsParts(b, before, x, token, t, after)
    BY <2>2
  <2> QED BY <2>3 DEF KeepsParts
<1> DEFINE n == Len(b)
           m == x + t
           shaped == {p \in Pieces(b) : IsTokenShape(SubSeq(b, p[1], p[2]))}
<1>3. ExtractToken(whole) =
        IF shaped = {} THEN NoToken
        ELSE LET first == CHOOSE p \in shaped : \A q \in shaped : p[1] <= q[1] IN SubSeq(b, first[1], first[2])
  BY <1>2 DEF ExtractToken
<1> HIDE DEF whole, max
<1>4. n \in Nat /\ m \in Nat /\ n >= m /\ m >= x
  BY <1>1, <1>2
<1> HIDE DEF n
<1>5. \A p \in Pieces(b) :
         /\ p[1] \in 1 .. n /\ p[2] \in p[1] .. n /\ p = <<p[1], p[2]>>
         /\ \A k \in p[1] .. p[2] : TokenChar(b[k].c)
         /\ (p[1] > 1 => ~TokenChar(b[p[1] - 1].c))
         /\ (p[2] < n => ~TokenChar(b[p[2] + 1].c))
         /\ \A k \in p[1] .. n : ~TokenChar(b[k].c) => p[2] < k
  BY <1>4, PieceFacts DEF n
<1>6. before \in Seq(CutSet) /\ token \in Seq(CutSet)
  <2>1. RunSet \subseteq CutSet
    BY DEF RunSet, CutSet
  <2> QED BY <2>1, SeqMonotonic
<1>7. x > 0 => x \in 1 .. n /\ ~TokenChar(b[x].c)
  <2> SUFFICES ASSUME x > 0 PROVE x \in 1 .. n /\ ~TokenChar(b[x].c)
    OBVIOUS
  <2>1. before # <<>> => ~TokenChar(before[x].c)
    BY DEF EndsApart, x
  <2>2. before # <<>>
    BY DEF x
  <2>3. x \in 1 .. x /\ x \in 1 .. n
    BY <1>1, <1>4
  <2>4. b[x] = before[x]
    BY <1>2, <2>3
  <2> QED BY <2>1, <2>2, <2>3, <2>4
\* No token begins in the text before.
<1>8. ASSUME NEW p \in shaped PROVE p[1] > x
  <2> SUFFICES ASSUME ~(p[1] > x) PROVE FALSE
    OBVIOUS
  <2> DEFINE u == p[1]
             v == p[2]
  <2>1. /\ u \in 1 .. n /\ v \in u .. n /\ p = <<u, v>> /\ \A k \in u .. v : TokenChar(b[k].c)
        /\ (u > 1 => ~TokenChar(b[u - 1].c)) /\ (v < n => ~TokenChar(b[v + 1].c))
        /\ \A k \in u .. n : ~TokenChar(b[k].c) => v < k
    BY <1>5
  <2>2. IsTokenShape(SubSeq(b, u, v))
    OBVIOUS
  <2>3. u <= x
    BY <1>1, <1>4, <2>1
  <2> HIDE DEF u, v, shaped
  <2>4. x > 0 /\ x \in u .. n /\ v < x
    <3>1. x > 0 /\ x \in u .. n
      BY <1>1, <1>4, <2>1, <2>3
    <3> QED BY <1>7, <2>1, <3>1
  <2>5. u \in 1 .. x /\ v \in 1 .. x /\ u <= v /\ v < n /\ v + 1 \in 1 .. x
    BY <1>1, <1>4, <2>1, <2>3, <2>4
  <2> DEFINE q == <<u, v>>
  <2>6. DOMAIN before = 1 .. x
    BY LenProperties DEF x
  <2>7. q[1] = u /\ q[2] = v /\ q \in (1 .. x) \X (1 .. x)
    BY <2>5
  <2> HIDE DEF q
  <2>8. \A k \in 1 .. x : before[k].c = b[k].c
    BY <1>2
  <2>9. \A k \in q[1] .. q[2] : TokenChar(before[k].c)
    <3>1. \A k \in u .. v : k \in 1 .. x
      BY <1>1, <2>5
    <3> QED BY <2>1, <2>7, <2>8, <3>1
  <2>10. q[1] > 1 => ~TokenChar(before[q[1] - 1].c)
    <3>1. u > 1 => u - 1 \in 1 .. x
      BY <1>1, <2>5
    <3> QED BY <2>1, <2>7, <2>8, <3>1
  <2>11. ~TokenChar(before[q[2] + 1].c)
    BY <2>1, <2>5, <2>7, <2>8
  <2>12. q \in Pieces(before)
    BY <2>5, <2>6, <2>7, <2>9, <2>10, <2>11 DEF Pieces
  <2>13. ~IsTokenShape(SubSeq(before, u, v))
    BY <2>7, <2>12 DEF Tokenless
  <2>14. SubSeq(b, u, v) = SubSeq(before, u, v)
    <3>1. /\ u \in Nat /\ v \in Nat /\ u > 0 /\ u <= v /\ v <= Len(b) /\ v <= Len(before)
      BY <1>1, <1>4, <2>5 DEF x, n
    <3>2. \A k \in u .. v : b[k] = before[k]
      <4>1. \A k \in u .. v : k \in 1 .. x
        BY <1>1, <2>5
      <4> QED BY <1>2, <4>1
    <3>3. b \in Seq(CutSet) /\ before \in Seq(CutSet)
      BY <1>6
    <3> QED BY ONLY <3>1, <3>2, <3>3, SameRunsAt
  <2> QED BY <2>2, <2>13, <2>14
<1>9. CASE token = NoToken /\ \A i \in 1 .. Len(after) : after[i].c # "colon"
  <2>1. t = 0
    BY <1>9 DEF t, NoToken
  <2>2. ASSUME NEW p \in shaped PROVE FALSE
    <3> DEFINE u == p[1]
               v == p[2]
    <3>1. u > x
      BY <1>8
    <3>2. u \in 1 .. n /\ v \in u .. n
      BY <1>5
    <3>3. IsTokenShape(SubSeq(b, u, v))
      OBVIOUS
    <3> HIDE DEF u, v
    <3>4. \E k \in u .. v : b[k].c = "colon"
      <4>1. u \in Nat /\ u > 0 /\ v \in Nat /\ u <= v /\ v <= Len(b)
        BY <1>4, <3>2 DEF n
      <4> QED BY <1>2, <3>3, <4>1, ShapeHasColon
    <3>5. PICK k \in u .. v : b[k].c = "colon"
      BY <3>4
    <3>6. k \in 1 .. n /\ k > x + t
      BY <1>1, <1>4, <2>1, <3>1, <3>2
    <3>7. k - (x + t) \in 1 .. Len(after) /\ b[k].c = after[k - (x + t)].c
      BY <1>2, <3>6 DEF n
    <3> QED BY <1>9, <3>5, <3>7
  <2>3. shaped = {}
    BY <2>2
  <2> HIDE DEF shaped
  <2> QED BY <1>3, <1>9, <2>3 DEF whole
<1>10. CASE IsToken(token) /\ (after # <<>> => ~TokenChar(after[1].c))
  <2>1. t > 0 /\ DOMAIN token = 1 .. t
    <3>1. DOMAIN token = 1 .. t
      BY LenProperties DEF t
    <3>2. \E k : k \in DOMAIN token
      BY <1>10 DEF IsToken, IsTokenShape
    <3> QED BY <1>1, <3>1, <3>2
  <2>2. m \in (x + 1) .. n /\ x \in 0 .. n
    BY <1>1, <1>4, <2>1
  <2>3. \A k \in (x + 1) .. m : TokenChar(b[k].c)
    <3>1. \A k \in (x + 1) .. m : k - x \in 1 .. t /\ x + (k - x) = k
      BY <1>1
    <3>2. \A k \in 1 .. t : TokenChar(token[k].c)
      BY <1>10, <2>1 DEF IsToken
    <3>3. \A k \in (x + 1) .. m : b[k] = token[k - x]
      BY <1>2, <3>1
    <3> QED BY <3>1, <3>2, <3>3
  <2>4. m < n => ~TokenChar(b[m + 1].c)
    <3> SUFFICES ASSUME m < n PROVE ~TokenChar(b[m + 1].c)
      OBVIOUS
    <3>1. m + 1 \in 1 .. n /\ m + 1 > x + t /\ (m + 1) - (x + t) = 1
      BY <1>1, <1>4
    <3>2. 1 \in 1 .. Len(after) /\ b[m + 1].c = after[1].c
      BY <1>2, <3>1 DEF n
    <3>3. after # <<>>
      <4>1. Len(<<>>) = 0
        OBVIOUS
      <4> QED BY <3>2, <4>1
    <3> QED BY <1>10, <3>2, <3>3
  <2> DEFINE whereas == <<x + 1, m>>
  <2>5. whereas \in Pieces(b) /\ \A p \in Pieces(b) : p[1] \in (x + 1) .. m => p = whereas
    <3>1. n \in Nat /\ n = Len(b) /\ (x > 0 => ~TokenChar(b[x].c))
      BY <1>4, <1>7 DEF n
    <3> HIDE DEF n, m
    <3> QED BY <1>2, <2>2, <2>3, <2>4, <3>1, StretchIsPiece
  <2>6. whereas[1] = x + 1 /\ whereas[2] = m
    OBVIOUS
  <2>7. SubSeq(b, x + 1, m) = token
    <3>1. /\ x + 1 \in Nat /\ x + 1 > 0 /\ m \in Nat /\ x + 1 <= m /\ m <= Len(b)
          /\ 1 \in Nat /\ 1 > 0 /\ t \in Nat /\ t <= Len(token) /\ t - 1 = m - (x + 1)
      BY <1>1, <1>4, <2>1 DEF n, t
    <3>2. \A k \in 1 .. m - (x + 1) + 1 : b[(x + 1) + k - 1] = token[1 + k - 1]
      <4>1. m - (x + 1) + 1 = t /\ \A k \in 1 .. t : (x + 1) + k - 1 = x + k /\ 1 + k - 1 = k
        BY <1>1
      <4> QED BY <1>2, <4>1
    <3> DEFINE i == x + 1
    <3>3. SubSeq(b, i, m) = SubSeq(token, 1, t)
      <4>1. /\ i \in Nat /\ i > 0 /\ m \in Nat /\ i <= m /\ m <= Len(b)
            /\ 1 \in Nat /\ 1 > 0 /\ t \in Nat /\ t <= Len(token) /\ t - 1 = m - i
            /\ \A k \in 1 .. m - i + 1 : b[i + k - 1] = token[1 + k - 1]
            /\ b \in Seq(CutSet) /\ token \in Seq(CutSet)
        BY <1>2, <1>6, <3>1, <3>2
      <4> HIDE DEF i, m
      <4> QED BY ONLY <4>1, SameRuns
    <3>4. SubSeq(token, 1, t) = token
      BY SubSeqFull DEF t
    <3> QED BY <3>3, <3>4
  <2>8. whereas \in shaped
    BY <1>10, <2>5, <2>6, <2>7 DEF IsToken
  <2>9. \A p \in shaped : x + 1 <= p[1]
    <3>1. \A p \in shaped : p[1] > x /\ p[1] \in 1 .. n
      BY <1>5, <1>8
    <3> HIDE DEF shaped
    <3> QED BY <1>1, <1>4, <3>1
  <2> DEFINE first == CHOOSE p \in shaped : \A q \in shaped : p[1] <= q[1]
  <2>10. first \in shaped /\ \A q \in shaped : first[1] <= q[1]
    <3> HIDE DEF shaped, whereas
    <3> QED BY <2>6, <2>8, <2>9
  <2>11. first \in Pieces(b)
    BY <2>10
  <2> HIDE DEF first, shaped, whereas
  <2>12. first[1] \in (x + 1) .. m
    <3>1. first[1] \in 1 .. n
      BY <1>5, <2>11
    <3>2. first[1] <= x + 1 /\ x + 1 <= first[1]
      BY <2>6, <2>8, <2>9, <2>10
    <3> QED BY <1>1, <1>4, <2>2, <3>1, <3>2
  <2>13. first = whereas
    BY <2>5, <2>11, <2>12
  <2>14. ExtractToken(whole) = SubSeq(b, first[1], first[2])
    BY <1>3, <2>8 DEF first
  <2> QED BY <2>6, <2>7, <2>13, <2>14 DEF whole
<1> QED BY <1>9, <1>10

\* A text that ends apart, then characters that look like a token and are none, then another character.
LEMMA LookalikePassed ==
  ASSUME NEW a \in Seq(RunSet), EndsApart(a), \A i \in 1 .. Len(a) : a[i].c # "colon",
         NEW l \in Seq(RunSet), \A i \in 1 .. Len(l) : TokenChar(l[i].c), l # <<>> => ~IsTokenShape(l),
         NEW z \in RunSet, ~TokenChar(z.c), NEW before, before = Cat(Cat(a, l), <<z>>)
  PROVE  before \in Seq(RunSet) /\ Tokenless(before) /\ EndsApart(before)
<1> DEFINE x == Len(a)
           y == x + Len(l)
           n == y + 1
           al == Cat(a, l)
<1>1. x \in Nat /\ Len(l) \in Nat /\ y \in Nat /\ x <= y /\ n \in Nat
  BY LenProperties
<1>2. /\ al \in Seq(RunSet) /\ Len(al) = x + Len(l)
      /\ \A i \in 1 .. x + Len(l) : al[i] = IF i <= x THEN a[i] ELSE l[i - x]
  BY ConcatProperties DEF Cat
<1> HIDE DEF al
<1>3. /\ before \in Seq(RunSet) /\ Len(before) = n
      /\ \A i \in 1 .. n : before[i] = IF i <= y THEN al[i] ELSE z
  <2>1. Len(al) = y
    BY <1>2
  <2>2. before = Append(al, z)
    BY DEF al, Cat
  <2> DEFINE w == Append(al, z)
             m == Len(al)
  <2>4. al \in Seq(RunSet) /\ z \in RunSet
    BY <1>2
  <2>5. w \in Seq(RunSet) /\ Len(w) = m + 1 /\ (\A i \in 1 .. m : w[i] = al[i]) /\ w[m + 1] = z
    BY ONLY <2>4, AppendProperties
  <2>6. m \in Nat
    BY <1>1, <1>2
  <2> HIDE DEF w, m
  <2>7. \A i \in 1 .. m + 1 : w[i] = IF i <= m THEN al[i] ELSE z
    <3>1. \A i \in 1 .. m + 1 : (i <= m /\ i \in 1 .. m) \/ (~(i <= m) /\ i = m + 1)
      BY <2>6
    <3> QED BY <2>5, <3>1
  <2>3. /\ before \in Seq(RunSet) /\ Len(before) = Len(al) + 1
        /\ \A i \in 1 .. Len(al) + 1 : before[i] = IF i <= Len(al) THEN al[i] ELSE z
    BY <2>2, <2>5, <2>7 DEF w, m
  <2> QED BY <2>1, <2>3
<1>4. \A i \in 1 .. x : before[i] = a[i]
  <2>1. \A i \in 1 .. x : i \in 1 .. n /\ i <= y /\ i \in 1 .. x + Len(l) /\ i <= x
    BY <1>1
  <2> QED BY <1>2, <1>3, <2>1
<1>5. \A i \in (x + 1) .. y : i - x \in 1 .. Len(l) /\ before[i] = l[i - x]
  <2>1. \A i \in (x + 1) .. y : i \in 1 .. n /\ i <= y /\ i \in 1 .. x + Len(l) /\ ~(i <= x) /\ i - x \in 1 .. Len(l)
    BY <1>1
  <2> QED BY <1>2, <1>3, <2>1
<1>6. before[n] = z
  <2>1. n \in 1 .. n /\ ~(n <= y)
    BY <1>1
  <2> QED BY <1>3, <2>1
<1> HIDE DEF y, n
<1>7. n = y + 1 /\ y = x + Len(l)
  BY DEF n, y
<1>8. x > 0 => ~TokenChar(before[x].c)
  <2> SUFFICES ASSUME x > 0 PROVE ~TokenChar(before[x].c)
    OBVIOUS
  <2>1. a # <<>> => ~TokenChar(a[x].c)
    BY DEF EndsApart
  <2>2. a # <<>> /\ x \in 1 .. x
    BY <1>1
  <2> QED BY <1>4, <2>1, <2>2
<1>9. EndsApart(before)
  BY <1>3, <1>6 DEF EndsApart
<1>10. ASSUME NEW p \in Pieces(before), IsTokenShape(SubSeq(before, p[1], p[2])) PROVE FALSE
  <2> DEFINE u == p[1]
             v == p[2]
  <2>1. /\ u \in 1 .. n /\ v \in u .. n /\ p = <<u, v>> /\ \A k \in u .. v : TokenChar(before[k].c)
    <3>1. n \in Nat /\ n = Len(before)
      BY <1>1, <1>3
    <3> QED BY <1>3, <1>10, <3>1, PieceFacts
  <2>2. IsTokenShape(SubSeq(before, u, v))
    BY <1>10
  <2>3. p \in Pieces(before)
    BY <1>10
  <2>7. <<u, v>>[1] = u
    OBVIOUS
  <2> HIDE DEF u, v
  <2>4. \E k \in u .. v : before[k].c = "colon"
    <3>1. u \in Nat /\ u > 0 /\ v \in Nat /\ u <= v /\ v <= Len(before)
      BY <1>1, <1>3, <2>1
    <3> QED BY ONLY <1>3, <2>2, <3>1, ShapeHasColon
  <2>5. PICK k \in u .. v : before[k].c = "colon"
    BY <2>4
  <2>6. k \in (x + 1) .. y
    <3>1. k \in 1 .. n
      BY <1>1, <2>1
    <3>2. k # n
      <4>1. TokenChar("colon")
        BY DEF TokenChar, TokenChars
      <4> QED BY <1>6, <2>5, <4>1
    <3>3. k \notin 1 .. x
      BY <1>4, <2>5
    <3> QED BY <1>1, <1>7, <3>1, <3>2, <3>3
  <2>8. u > x
    <3> SUFFICES ASSUME u <= x PROVE FALSE
      BY <1>1, <2>1
    <3>1. x \in u .. v /\ x > 0
      BY <1>1, <2>1, <2>6
    <3> QED BY <1>8, <2>1, <3>1
  <2>9. u \in (x + 1) .. y
    BY <1>1, <2>1, <2>6, <2>8
  <2>10. p = <<x + 1, y>>
    <3>1. /\ n \in Nat /\ n = Len(before) /\ x \in 0 .. n /\ y \in (x + 1) .. n
      BY <1>1, <1>3, <1>7, <2>6
    <3>2. x > 0 => ~TokenChar(before[x].c)
      BY <1>8
    <3>3. y < n => ~TokenChar(before[y + 1].c)
      BY <1>6, <1>7
    <3>4. \A j \in (x + 1) .. y : TokenChar(before[j].c)
      BY <1>5
    <3>5. p[1] \in (x + 1) .. y
      BY <2>9 DEF u
    <3> HIDE DEF x
    <3>6. before \in Seq(RunSet)
      BY <1>3
    <3>7. \A q \in Pieces(before) : q[1] \in (x + 1) .. y => q = <<x + 1, y>>
      BY ONLY <3>1, <3>2, <3>3, <3>4, <3>6, StretchIsPiece
    <3> QED BY <2>3, <3>5, <3>7
  <2>11. u = x + 1 /\ v = y
    BY <2>1, <2>10
  <2>12. SubSeq(before, x + 1, y) = l
    <3> DEFINE i == x + 1
               j == Len(l)
    <3>1. /\ i \in Nat /\ i > 0 /\ y \in Nat /\ i <= y /\ y <= Len(before)
          /\ 1 \in Nat /\ 1 > 0 /\ j \in Nat /\ j <= Len(l) /\ j - 1 = y - i
          /\ before \in Seq(RunSet) /\ l \in Seq(RunSet)
      BY <1>1, <1>3, <1>7, <2>6
    <3>2. \A m \in 1 .. y - i + 1 : before[i + m - 1] = l[1 + m - 1]
      <4>1. \A m \in 1 .. y - i + 1 : i + m - 1 \in (x + 1) .. y /\ (i + m - 1) - x = m /\ 1 + m - 1 = m
        BY <1>1, <1>7
      <4> HIDE DEF i
      <4> QED BY <1>5, <4>1
    <3> HIDE DEF i, j
    <3>3. SubSeq(before, i, y) = SubSeq(l, 1, j)
      BY ONLY <3>1, <3>2, SameRuns
    <3>4. SubSeq(l, 1, j) = l
      BY SubSeqFull DEF j
    <3> QED BY <3>3, <3>4 DEF i
  <2>13. l # <<>>
    BY <1>1, <1>7, <2>6
  <2> QED BY <2>2, <2>11, <2>12, <2>13
<1> QED BY <1>3, <1>9, <1>10 DEF Tokenless

LEMMA SizeOfFew ==
  ASSUME NEW s \in Seq(RunSet)
  PROVE  /\ Len(s) = 1 => Size(s) = Width(s[1])
         /\ Len(s) = 3 => Size(s) = Width(s[1]) + Width(s[2]) + Width(s[3])
<1> DEFINE n == Len(s)
<1>1. n \in Nat /\ \A k \in 1 .. n : Width(s[k]) \in Nat
  BY LenProperties, ElementOfSeq, RunWidth
<1>2. PICK u \in [0 .. n -> Int] : u[0] = 0 /\ u[n] = Size(s) /\ \A k \in 1 .. n : u[k] = u[k - 1] + Width(s[k])
  BY SizePrefixes
<1> HIDE DEF n
<1>3. n >= 1 => u[1] = Width(s[1]) /\ Width(s[1]) \in Nat
  <2>1. n >= 1 => 1 \in 1 .. n /\ 1 - 1 = 0
    BY <1>1
  <2>2. n >= 1 => u[1] = u[0] + Width(s[1])
    BY <1>2, <2>1
  <2> QED BY <1>1, <1>2, <2>1, <2>2
<1>4. n >= 3 => u[3] = Width(s[1]) + Width(s[2]) + Width(s[3])
  <2>1. n >= 3 => 2 \in 1 .. n /\ 3 \in 1 .. n /\ 2 - 1 = 1 /\ 3 - 1 = 2 /\ n >= 1
    BY <1>1
  <2>2. n >= 3 => u[2] = u[1] + Width(s[2]) /\ u[3] = u[2] + Width(s[3])
    BY <1>2, <2>1
  <2>3. n >= 3 => Width(s[2]) \in Nat /\ Width(s[3]) \in Nat
    BY <1>1, <2>1
  <2> QED BY <1>3, <2>1, <2>2, <2>3
<1>5. (n = 1 => n >= 1) /\ (n = 3 => n >= 3)
  OBVIOUS
<1> QED BY <1>2, <1>3, <1>4, <1>5 DEF n

LEMMA RunFacts ==
  ASSUME NEW c \in TokenChars \cup {"other", "wide"}, NEW n \in Nat, n > 0
  PROVE  /\ Run(c, n) \in RunSet /\ Run(c, n).c = c /\ Run(c, n).n = n
         /\ c # "wide" => Width(Run(c, n)) = n
<1>1. Run(c, n) = [c |-> c, n |-> n]
  BY DEF Run
<1>2. Run(c, n) \in RunSet /\ Run(c, n).c = c /\ Run(c, n).n = n
  BY <1>1 DEF RunSet
<1> QED BY <1>2 DEF Width

LEMMA TokenCharsAre == TokenChar("digit") /\ TokenChar("colon") /\ TokenChar("letter") /\ TokenChar("dash")
                       /\ ~TokenChar("other") /\ ~TokenChar("wide")
BY DEF TokenChar, TokenChars

\* What a text of token shape looks like.
LEMMA ShapeParts ==
  ASSUME NEW piece, IsTokenShape(piece)
  PROVE  \E k \in DOMAIN piece :
           /\ piece[k] = [c |-> "colon", n |-> 1]
           /\ \A i \in DOMAIN SubSeq(piece, 1, k - 1) : SubSeq(piece, 1, k - 1)[i].c = "digit"
           /\ Size(SubSeq(piece, 1, k - 1)) \in 6 .. 12
BY DEF IsTokenShape

LEMMA LookalikesAreNone ==
  ASSUME NEW l \in Lookalikes
  PROVE  /\ l \in Seq(RunSet) /\ l # <<>> /\ \A i \in 1 .. Len(l) : TokenChar(l[i].c)
         /\ ~IsTokenShape(l)
<1>1. CASE \E i \in {5, 13}, n \in {19, 30, 65} : l = <<Run("digit", i), Run("colon", 1), Run("letter", n)>>
  <2>1. PICK i \in {5, 13}, n \in {19, 30, 65} : l = <<Run("digit", i), Run("colon", 1), Run("letter", n)>>
    BY <1>1
  <2> DEFINE a == Run("digit", i)
             b == Run("colon", 1)
             c == Run("letter", n)
  <2>2. /\ a \in RunSet /\ a.c = "digit" /\ Width(a) = i
        /\ b \in RunSet /\ b.c = "colon"
        /\ c \in RunSet /\ c.c = "letter"
    <3>1. {"digit", "colon", "letter"} \subseteq TokenChars \cup {"other", "wide"}
      BY DEF TokenChars
    <3>2. i \in Nat /\ i > 0 /\ n \in Nat /\ n > 0 /\ 1 \in Nat /\ 1 > 0
      OBVIOUS
    <3>3. a \in RunSet /\ a.c = "digit" /\ Width(a) = i
      BY <3>1, <3>2, RunFacts
    <3>4. b \in RunSet /\ b.c = "colon"
      BY <3>1, <3>2, RunFacts
    <3>5. c \in RunSet /\ c.c = "letter"
      BY <3>1, <3>2, RunFacts
    <3> QED BY <3>3, <3>4, <3>5
  <2> HIDE DEF a, b, c
  <2>3. l = <<a, b, c>>
    BY <2>1 DEF a, b, c
  <2>4. l \in Seq(RunSet) /\ Len(l) = 3 /\ DOMAIN l = 1 .. 3 /\ l[1] = a /\ l[2] = b /\ l[3] = c
    BY <2>2, <2>3
  <2>5. \A k \in 1 .. 3 : TokenChar(l[k].c)
    BY <2>2, <2>4, TokenCharsAre
  <2>6. ~IsTokenShape(l)
    <3> SUFFICES ASSUME IsTokenShape(l) PROVE FALSE
      OBVIOUS
    <3>1. PICK k \in DOMAIN l :
           /\ l[k] = [c |-> "colon", n |-> 1]
           /\ Size(SubSeq(l, 1, k - 1)) \in 6 .. 12
      BY ShapeParts
    <3>2. l[k].c = "colon" /\ k \in 1 .. 3
      BY <2>4, <3>1
    <3>3. k = 2
      BY <2>2, <2>4, <3>2
    <3> DEFINE id == SubSeq(l, 1, 1)
    <3>4. Size(id) \in 6 .. 12
      <4>1. k - 1 = 1
        BY <3>3
      <4> QED BY <3>1, <4>1
    <3>5. id \in Seq(RunSet) /\ Len(id) = 1 /\ id[1] = a
      <4>1. 1 \in Nat /\ 1 > 0 /\ 1 <= 1 /\ 1 <= Len(l)
        BY <2>4
      <4>2. id \in Seq(RunSet) /\ Len(id) = 1 - 1 + 1 /\ \A j \in 1 .. 1 - 1 + 1 : id[j] = l[1 + j - 1]
        BY ONLY <2>4, <4>1, PartOfRuns
      <4> HIDE DEF id
      <4> QED BY <2>4, <4>2
    <3> HIDE DEF id
    <3>6. Size(id) = i
      BY <2>2, <3>5, SizeOfFew
    <3> QED BY <3>4, <3>6
  <2>7. l # <<>>
    <3>1. Len(<<>>) = 0
      OBVIOUS
    <3> QED BY <2>4, <3>1
  <2> QED BY <2>4, <2>5, <2>6, <2>7
<1>2. CASE l = <<Run("letter", 1), Run("digit", 6), Run("colon", 1), Run("letter", 30)>>
  <2> DEFINE a == Run("letter", 1)
             b == Run("digit", 6)
             c == Run("colon", 1)
             d == Run("letter", 30)
  <2>2. /\ a \in RunSet /\ a.c = "letter"
        /\ b \in RunSet /\ b.c = "digit"
        /\ c \in RunSet /\ c.c = "colon"
        /\ d \in RunSet /\ d.c = "letter"
    <3>1. {"digit", "colon", "letter"} \subseteq TokenChars \cup {"other", "wide"}
      BY DEF TokenChars
    <3>2. 1 \in Nat /\ 1 > 0 /\ 6 \in Nat /\ 6 > 0 /\ 30 \in Nat /\ 30 > 0
      OBVIOUS
    <3>3. a \in RunSet /\ a.c = "letter"
      BY <3>1, <3>2, RunFacts
    <3>4. b \in RunSet /\ b.c = "digit"
      BY <3>1, <3>2, RunFacts
    <3>5. c \in RunSet /\ c.c = "colon"
      BY <3>1, <3>2, RunFacts
    <3>6. d \in RunSet /\ d.c = "letter"
      BY <3>1, <3>2, RunFacts
    <3> QED BY <3>3, <3>4, <3>5, <3>6
  <2>3. l = <<a, b, c, d>>
    BY <1>2
  <2> HIDE DEF a, b, c, d
  <2>4. l \in Seq(RunSet) /\ Len(l) = 4 /\ DOMAIN l = 1 .. 4 /\ l[1] = a /\ l[2] = b /\ l[3] = c /\ l[4] = d
    BY <2>2, <2>3
  <2>5. \A k \in 1 .. 4 : TokenChar(l[k].c)
    BY <2>2, <2>4, TokenCharsAre
  <2>6. ~IsTokenShape(l)
    <3> SUFFICES ASSUME IsTokenShape(l) PROVE FALSE
      OBVIOUS
    <3>1. PICK k \in DOMAIN l :
           /\ l[k] = [c |-> "colon", n |-> 1]
           /\ \A i \in DOMAIN SubSeq(l, 1, k - 1) : SubSeq(l, 1, k - 1)[i].c = "digit"
      BY ShapeParts
    <3>2. l[k].c = "colon" /\ k \in 1 .. 4
      BY <2>4, <3>1
    <3>3. k = 3
      BY <2>2, <2>4, <3>2
    <3> DEFINE id == SubSeq(l, 1, 2)
    <3>4. \A i \in DOMAIN id : id[i].c = "digit"
      <4>1. k - 1 = 2
        BY <3>3
      <4> QED BY <3>1, <4>1
    <3>5. id \in Seq(RunSet) /\ Len(id) = 2 /\ id[1] = a
      <4>1. 1 \in Nat /\ 1 > 0 /\ 2 \in Nat /\ 1 <= 2 /\ 2 <= Len(l)
        BY <2>4
      <4>2. id \in Seq(RunSet) /\ Len(id) = 2 - 1 + 1 /\ \A j \in 1 .. 2 - 1 + 1 : id[j] = l[1 + j - 1]
        BY ONLY <2>4, <4>1, PartOfRuns
      <4> HIDE DEF id
      <4> QED BY <2>4, <4>2
    <3> HIDE DEF id
    <3>6. 1 \in DOMAIN id
      BY <3>5, LenProperties
    <3> QED BY <2>2, <3>4, <3>5, <3>6
  <2>7. l # <<>>
    <3>1. Len(<<>>) = 0
      OBVIOUS
    <3> QED BY <2>4, <3>1
  <2> QED BY <2>4, <2>5, <2>6, <2>7
<1> QED BY <1>1, <1>2 DEF Lookalikes

\* Digits, a colon, and a secret of the right size are a token.
LEMMA IsTokenOf ==
  ASSUME NEW t \in Seq(RunSet), NEW n \in Nat, n = Len(t), n >= 3,
         t[1].c = "digit", Width(t[1]) \in 6 .. 12, t[2] = [c |-> "colon", n |-> 1],
         \A i \in 3 .. n : TokenChar(t[i].c) /\ t[i].c # "colon",
         Size(SubSeq(t, 3, n)) \in 20 .. 64
  PROVE  IsToken(t)
<1>1. DOMAIN t = 1 .. n
  BY LenProperties
<1> DEFINE id == SubSeq(t, 1, 1)
           secret == SubSeq(t, 3, n)
<1>2. id \in Seq(RunSet) /\ Len(id) = 1 /\ id[1] = t[1]
  <2>1. 1 \in Nat /\ 1 > 0 /\ 1 <= 1 /\ 1 <= Len(t) /\ t \in Seq(RunSet)
    OBVIOUS
  <2>2. id \in Seq(RunSet) /\ Len(id) = 1 - 1 + 1 /\ \A j \in 1 .. 1 - 1 + 1 : id[j] = t[1 + j - 1]
    BY ONLY <2>1, PartOfRuns
  <2> HIDE DEF id
  <2> QED BY <2>2
<1>3. secret \in Seq(RunSet) /\ Len(secret) = n - 3 + 1 /\ \A j \in 1 .. n - 3 + 1 : secret[j] = t[3 + j - 1]
  <2>1. 3 \in Nat /\ 3 > 0 /\ n \in Nat /\ 3 <= n /\ n <= Len(t) /\ t \in Seq(RunSet)
    OBVIOUS
  <2> QED BY ONLY <2>1, PartOfRuns
<1>4. Size(secret) \in 20 .. 64
  OBVIOUS
<1> HIDE DEF id, secret
<1>5. Size(id) \in 6 .. 12
  BY <1>2, SizeOfFew
<1>6. \A i \in DOMAIN id : id[i].c = "digit"
  BY <1>2, LenProperties
<1>7. \A i \in DOMAIN secret : secret[i].c # "colon"
  <2>1. DOMAIN secret = 1 .. n - 3 + 1
    BY <1>3, LenProperties
  <2>2. \A i \in 1 .. n - 3 + 1 : 3 + i - 1 \in 3 .. n
    OBVIOUS
  <2> QED BY <1>3, <2>1, <2>2
<1>8. IsTokenShape(t)
  <2>1. 2 \in DOMAIN t /\ id = SubSeq(t, 1, 2 - 1) /\ secret = SubSeq(t, 2 + 1, Len(t))
    BY <1>1 DEF id, secret
  <2> QED BY <1>4, <1>5, <1>6, <1>7, <2>1 DEF IsTokenShape
<1>9. \A i \in DOMAIN t : TokenChar(t[i].c)
  <2>1. TokenChar(t[1].c) /\ TokenChar(t[2].c)
    BY TokenCharsAre
  <2>2. \A i \in 1 .. n : i = 1 \/ i = 2 \/ i \in 3 .. n
    OBVIOUS
  <2> QED BY <1>1, <2>1, <2>2
<1> QED BY <1>8, <1>9 DEF IsToken

LEMMA TokensAre == ASSUME NEW t \in Tokens PROVE t \in Seq(RunSet) /\ IsToken(t)
<1>0. {"digit", "colon", "letter", "dash"} \subseteq TokenChars \cup {"other", "wide"}
  BY DEF TokenChars
<1>1. CASE \E i \in {6, 12} : t = <<Run("digit", i), Run("colon", 1), Run("letter", 20)>>
  <2>1. PICK i \in {6, 12} : t = <<Run("digit", i), Run("colon", 1), Run("letter", 20)>>
    BY <1>1
  <2> DEFINE a == Run("digit", i)
             b == Run("colon", 1)
             c == Run("letter", 20)
  <2>2. i \in Nat /\ i > 0 /\ 20 \in Nat /\ 20 > 0 /\ 1 \in Nat /\ 1 > 0
    OBVIOUS
  <2>3. a \in RunSet /\ a.c = "digit" /\ Width(a) = i
    BY <1>0, <2>2, RunFacts
  <2>4. b \in RunSet /\ b = [c |-> "colon", n |-> 1]
    <3>1. b \in RunSet
      BY <1>0, <2>2, RunFacts
    <3> QED BY <3>1 DEF Run
  <2>5. c \in RunSet /\ c.c = "letter" /\ Width(c) = 20
    BY <1>0, <2>2, RunFacts
  <2> HIDE DEF a, b, c
  <2>6. t = <<a, b, c>>
    BY <2>1 DEF a, b, c
  <2>7. t \in Seq(RunSet) /\ Len(t) = 3 /\ t[1] = a /\ t[2] = b /\ t[3] = c
    BY <2>3, <2>4, <2>5, <2>6
  <2> DEFINE secret == SubSeq(t, 3, 3)
  <2>8. Size(secret) = 20
    <3>1. 3 \in Nat /\ 3 > 0 /\ 3 <= 3 /\ 3 <= Len(t)
      BY <2>7
    <3>2. secret \in Seq(RunSet) /\ Len(secret) = 3 - 3 + 1 /\ \A j \in 1 .. 3 - 3 + 1 : secret[j] = t[3 + j - 1]
      BY ONLY <2>7, <3>1, PartOfRuns
    <3> HIDE DEF secret
    <3>3. Len(secret) = 1 /\ secret[1] = c
      BY <2>7, <3>2
    <3> QED BY <2>5, <3>2, <3>3, SizeOfFew
  <2>9. \A k \in 3 .. 3 : TokenChar(t[k].c) /\ t[k].c # "colon"
    BY <2>5, <2>7, TokenCharsAre
  <2> DEFINE n == 3
  <2>10. /\ t \in Seq(RunSet) /\ n \in Nat /\ n = Len(t) /\ n >= 3 /\ t[1].c = "digit" /\ Width(t[1]) \in 6 .. 12
         /\ t[2] = [c |-> "colon", n |-> 1] /\ (\A k \in 3 .. n : TokenChar(t[k].c) /\ t[k].c # "colon")
    BY <2>3, <2>4, <2>7, <2>9
  <2>11. Size(SubSeq(t, 3, n)) \in 20 .. 64
    <3> HIDE DEF secret
    <3>1. Size(secret) \in 20 .. 64
      BY <2>8
    <3> QED BY <3>1 DEF secret
  <2> HIDE DEF n
  <2>12. IsToken(t)
    BY ONLY <2>10, <2>11, IsTokenOf
  <2> QED BY <2>7, <2>12
<1>2. CASE \E i \in {6, 12} : t = <<Run("digit", i), Run("colon", 1), Run("letter", 30), Run("dash", 1), Run("digit", 33)>>
  <2>1. PICK i \in {6, 12} : t = <<Run("digit", i), Run("colon", 1), Run("letter", 30), Run("dash", 1), Run("digit", 33)>>
    BY <1>2
  <2> DEFINE a == Run("digit", i)
             b == Run("colon", 1)
             c == Run("letter", 30)
             d == Run("dash", 1)
             e == Run("digit", 33)
  <2>2. i \in Nat /\ i > 0 /\ 30 \in Nat /\ 30 > 0 /\ 1 \in Nat /\ 1 > 0 /\ 33 \in Nat /\ 33 > 0
    OBVIOUS
  <2>3. a \in RunSet /\ a.c = "digit" /\ Width(a) = i
    BY <1>0, <2>2, RunFacts
  <2>4. b \in RunSet /\ b = [c |-> "colon", n |-> 1]
    <3>1. b \in RunSet
      BY <1>0, <2>2, RunFacts
    <3> QED BY <3>1 DEF Run
  <2>5. c \in RunSet /\ c.c = "letter" /\ Width(c) = 30
    BY <1>0, <2>2, RunFacts
  <2>6. d \in RunSet /\ d.c = "dash" /\ Width(d) = 1
    BY <1>0, <2>2, RunFacts
  <2>7. e \in RunSet /\ e.c = "digit" /\ Width(e) = 33
    BY <1>0, <2>2, RunFacts
  <2> HIDE DEF a, b, c, d, e
  <2>8. t = <<a, b, c, d, e>>
    BY <2>1 DEF a, b, c, d, e
  <2>9. t \in Seq(RunSet) /\ Len(t) = 5 /\ t[1] = a /\ t[2] = b /\ t[3] = c /\ t[4] = d /\ t[5] = e
    BY <2>3, <2>4, <2>5, <2>6, <2>7, <2>8
  <2> DEFINE secret == SubSeq(t, 3, 5)
  <2>10. Size(secret) = 64
    <3>1. 3 \in Nat /\ 3 > 0 /\ 5 \in Nat /\ 3 <= 5 /\ 5 <= Len(t)
      BY <2>9
    <3>2. secret \in Seq(RunSet) /\ Len(secret) = 5 - 3 + 1 /\ \A j \in 1 .. 5 - 3 + 1 : secret[j] = t[3 + j - 1]
      BY ONLY <2>9, <3>1, PartOfRuns
    <3> HIDE DEF secret
    <3>3. Len(secret) = 3 /\ secret[1] = c /\ secret[2] = d /\ secret[3] = e
      BY <2>9, <3>2
    <3>4. Size(secret) = Width(c) + Width(d) + Width(e)
      BY <3>2, <3>3, SizeOfFew
    <3> QED BY <2>5, <2>6, <2>7, <3>4
  <2>11. \A k \in 3 .. 5 : TokenChar(t[k].c) /\ t[k].c # "colon"
    <3>1. \A k \in 3 .. 5 : k = 3 \/ k = 4 \/ k = 5
      OBVIOUS
    <3> QED BY <2>5, <2>6, <2>7, <2>9, <3>1, TokenCharsAre
  <2> DEFINE n == 5
  <2>12. /\ t \in Seq(RunSet) /\ n \in Nat /\ n = Len(t) /\ n >= 3 /\ t[1].c = "digit" /\ Width(t[1]) \in 6 .. 12
         /\ t[2] = [c |-> "colon", n |-> 1] /\ (\A k \in 3 .. n : TokenChar(t[k].c) /\ t[k].c # "colon")
    BY <2>3, <2>4, <2>9, <2>11
  <2>13. Size(SubSeq(t, 3, n)) \in 20 .. 64
    <3> HIDE DEF secret
    <3>1. Size(secret) \in 20 .. 64
      BY <2>10
    <3> QED BY <3>1 DEF secret
  <2> HIDE DEF n
  <2>14. IsToken(t)
    BY ONLY <2>12, <2>13, IsTokenOf
  <2> QED BY <2>9, <2>14
<1> QED BY <1>1, <1>2 DEF Tokens

LEMMA EdgesAre ==
  ASSUME NEW a \in Edges
  PROVE  a \in Seq(RunSet) /\ EndsApart(a) /\ \A i \in 1 .. Len(a) : a[i].c # "colon"
<1>0. {"other", "wide", "letter"} \subseteq TokenChars \cup {"other", "wide"}
  BY DEF TokenChars
<1>1. CASE a = <<>>
  <2>1. a \in Seq(RunSet) /\ Len(a) = 0
    BY <1>1
  <2> QED BY <1>1, <2>1 DEF EndsApart
<1>2. CASE \E c \in {"other", "wide"}, n \in {1, 4, 4000} : a = <<Run(c, n)>>
  <2>1. PICK c \in {"other", "wide"}, n \in {1, 4, 4000} : a = <<Run(c, n)>>
    BY <1>2
  <2> DEFINE r == Run(c, n)
  <2>2. n \in Nat /\ n > 0 /\ c \in TokenChars \cup {"other", "wide"}
    OBVIOUS
  <2>3. r \in RunSet /\ r.c = c
    BY <2>2, RunFacts
  <2> HIDE DEF r
  <2>4. a = <<r>>
    BY <2>1 DEF r
  <2>5. a \in Seq(RunSet) /\ Len(a) = 1 /\ a[1] = r
    BY <2>3, <2>4
  <2>6. ~TokenChar(r.c) /\ r.c # "colon"
    BY <2>3, TokenCharsAre
  <2> QED BY <2>5, <2>6 DEF EndsApart
<1>3. CASE a = <<Run("letter", 3), Run("other", 2)>>
  <2> DEFINE r == Run("letter", 3)
             s == Run("other", 2)
  <2>1. r \in RunSet /\ r.c = "letter"
    BY <1>0, 3 \in Nat, 3 > 0, RunFacts
  <2>2. s \in RunSet /\ s.c = "other"
    BY <1>0, 2 \in Nat, 2 > 0, RunFacts
  <2>3. a = <<r, s>>
    BY <1>3
  <2> HIDE DEF r, s
  <2>4. a \in Seq(RunSet) /\ Len(a) = 2 /\ a[1] = r /\ a[2] = s
    BY <2>1, <2>2, <2>3
  <2>5. \A i \in 1 .. 2 : a[i].c # "colon"
    BY <2>1, <2>2, <2>4
  <2>6. ~TokenChar(s.c)
    BY <2>2, TokenCharsAre
  <2> QED BY <2>4, <2>5, <2>6 DEF EndsApart
<1>4. a = <<>> \/ (\E c \in {"other", "wide"}, n \in {1, 4, 4000} : a = <<Run(c, n)>>) \/ a = <<Run("letter", 3), Run("other", 2)>>
  <2>1. a \in {<<>>, <<Run("other", 1)>>, <<Run("wide", 4)>>, <<Run("letter", 3), Run("other", 2)>>, <<Run("other", 4000)>>}
    BY DEF Edges
  <2> QED BY <2>1
<1> QED BY <1>1, <1>2, <1>3, <1>4

\* A response with a token is a success, and one without never is.
LEMMA ClassifiedByToken ==
  ASSUME NEW response
  PROVE  ClassifyBotfatherResponse(response, {"FloodWait"}) = "Success" <=> ExtractToken(response) # NoToken
<1> DEFINE order == <<"UsernameOccupied", "UsernameInvalid", "LimitReached", "FloodWait">>
           said == {i \in DOMAIN order : order[i] \in {"FloodWait"}}
<1>1. \A i \in DOMAIN order : order[i] # "Success"
  OBVIOUS
<1>2. said # {} => Min(said) \in DOMAIN order
  <2>1. said \in SUBSET Nat
    OBVIOUS
  <2>2. said # {} => Min(said) \in said
    <3> HIDE DEF said
    <3> QED BY <2>1, LeastOf
  <2> QED BY <2>2
<1> HIDE DEF order
<1>3. CASE ExtractToken(response) # NoToken
  BY <1>3 DEF ClassifyBotfatherResponse
<1>4. CASE ExtractToken(response) = NoToken
  <2>1. ClassifyBotfatherResponse(response, {"FloodWait"}) = IF said = {} THEN "Unexpected" ELSE order[Min(said)]
    BY <1>4 DEF ClassifyBotfatherResponse, order
  <2> HIDE DEF said
  <2> QED BY <1>1, <1>2, <1>4, <2>1
<1> QED BY <1>3, <1>4

\* BotFather's answers of the runs.
LEMMA SomeAnswersTaken ==
  ASSUME NEW answer \in Answered
  PROVE  TakenFrom(answer, ExtractToken(Say(answer)))
<1>1. PICK a \in Edges, l \in Lookalikes \cup {<<>>}, t \in Tokens \cup {NoToken}, z \in Edges :
        answer = AnswerOf(a, l, t, z)
  BY DEF Answered
<1> DEFINE o == Run("other", 1)
           before == a \o l \o <<o>>
           after == <<o>> \o z
<1>2. o \in RunSet /\ o.c = "other" /\ ~TokenChar(o.c)
  <2>1. "other" \in TokenChars \cup {"other", "wide"} /\ 1 \in Nat /\ 1 > 0
    OBVIOUS
  <2>2. o \in RunSet /\ o.c = "other"
    BY <2>1, RunFacts
  <2> QED BY <2>2, TokenCharsAre
<1> HIDE DEF o
<1>3. answer.before = before /\ answer.token = t /\ answer.after = after
  BY <1>1 DEF o, AnswerOf
<1>4. before \in Seq(RunSet) /\ Tokenless(before) /\ EndsApart(before)
  <2>1. a \in Seq(RunSet) /\ EndsApart(a) /\ \A i \in 1 .. Len(a) : a[i].c # "colon"
    BY EdgesAre
  <2>2. l \in Seq(RunSet) /\ (\A i \in 1 .. Len(l) : TokenChar(l[i].c)) /\ (l # <<>> => ~IsTokenShape(l))
    <3>1. CASE l \in Lookalikes
      BY <3>1, LookalikesAreNone
    <3>2. CASE l = <<>>
      <4>1. l \in Seq(RunSet) /\ Len(l) = 0
        BY <3>2
      <4> QED BY <3>2, <4>1
    <3> QED BY <3>1, <3>2
  <2>3. before = Cat(Cat(a, l), <<o>>)
    BY DEF Cat
  <2> HIDE DEF before
  <2> QED BY ONLY <1>2, <2>1, <2>2, <2>3, LookalikePassed
<1>5. after \in Seq(RunSet) /\ after # <<>> /\ after[1] = o /\ \A i \in 1 .. Len(after) : after[i].c # "colon"
  <2>1. z \in Seq(RunSet) /\ \A i \in 1 .. Len(z) : z[i].c # "colon"
    BY EdgesAre
  <2> DEFINE f == <<o>>
             w == f \o z
  <2>2. f \in Seq(RunSet) /\ Len(f) = 1 /\ f[1] = o
    BY <1>2
  <2>3. w = after
    OBVIOUS
  <2> HIDE DEF f, after
  <2>4. /\ w \in Seq(RunSet) /\ Len(w) = Len(f) + Len(z)
        /\ \A i \in 1 .. Len(f) + Len(z) : w[i] = IF i <= Len(f) THEN f[i] ELSE z[i - Len(f)]
    BY ONLY <2>1, <2>2, ConcatProperties
  <2> HIDE DEF w
  <2> DEFINE m == Len(z)
  <2>5. m \in Nat
    BY <2>1, LenProperties
  <2>6. Len(w) = m + 1 /\ w[1] = o
    BY <2>2, <2>4, <2>5
  <2>7. ASSUME NEW i \in 1 .. m + 1 PROVE w[i].c # "colon"
    <3>1. CASE i = 1
      BY <1>2, <2>6, <3>1
    <3>2. CASE i # 1
      <4>1. i - 1 \in 1 .. m /\ ~(i <= 1)
        BY <2>5, <3>2
      <4>2. w[i] = z[i - 1]
        BY <2>2, <2>4, <4>1
      <4> QED BY <2>1, <4>1, <4>2
    <3> QED BY <3>1, <3>2
  <2>8. w # <<>>
    <3>1. Len(<<>>) = 0
      OBVIOUS
    <3> QED BY <2>5, <2>6, <3>1
  <2> QED BY <2>3, <2>4, <2>6, <2>7, <2>8
<1>6. t \in Seq(RunSet) /\ (t = NoToken \/ IsToken(t))
  <2>1. NoToken \in Seq(RunSet)
    BY DEF NoToken
  <2> QED BY <2>1, TokensAre
<1> HIDE DEF before, after
<1>7. Size(before \o t) <= MAX_RESPONSE_BYTES => ExtractToken(before \o t \o after) = t
  <2> SUFFICES ASSUME Size(before \o t) <= MAX_RESPONSE_BYTES PROVE ExtractToken(before \o t \o after) = t
    OBVIOUS
  <2>1. \/ t = NoToken /\ \A i \in 1 .. Len(after) : after[i].c # "colon"
        \/ IsToken(t) /\ (after # <<>> => ~TokenChar(after[1].c))
    BY <1>2, <1>5, <1>6
  <2> QED BY <1>4, <1>5, <1>6, <2>1, TokenIsTakenWhole
<1>8. Say(answer) = before \o t \o after
  BY <1>3 DEF Say
<1> DEFINE result == ExtractToken(Say(answer))
<1>9. ClassifyBotfatherResponse(Say(answer), {"FloodWait"}) = "Success" <=> result # NoToken
  BY ClassifiedByToken
<1>10. Size(answer.before \o answer.token) <= MAX_RESPONSE_BYTES => result = answer.token
  BY <1>3, <1>7, <1>8
<1> HIDE DEF result
<1>11. TakenFrom(answer, result)
  BY <1>9, <1>10 DEF TakenFrom
<1> QED BY <1>11 DEF result

\* The inputs of the run are among those of the theorems above.
LEMMA SomePeersKnown == SomePeers \subseteq AnyPeers
<1> SUFFICES ASSUME NEW p \in SomePeers PROVE p \in AnyPeers
  OBVIOUS
<1>1. CASE p \in [kind : {"user", "chat", "channel"}, id : {1, 2, ChannelBase - 1}]
  BY <1>1 DEF AnyPeers, ChannelBase
<1>2. CASE p \in [kind : {"user", "channel"}, id : {ChannelBase, 2 * ChannelBase}]
  BY <1>2 DEF AnyPeers, ChannelBase
<1> QED BY <1>1, <1>2 DEF SomePeers

LEMMA BytesTyped ==
  ASSUME NEW b \in Bytes
  PROVE  b \in Seq(Octets)
<1>1. PICK n \in 0 .. 4 : b \in [1 .. n -> {0, 1, 15, 255}]
  BY DEF Bytes
<1>2. b \in [1 .. n -> Octets] /\ n \in Nat
  BY <1>1 DEF Octets
<1> QED BY <1>2, SeqDef

LEMMA TextsTyped ==
  ASSUME NEW t \in Texts
  PROVE  t \in Text
<1> DEFINE C == {0, 1, 16, 63, 64, 65}
<1>1. ASSUME NEW s \in [1 .. 4 -> C] PROVE s \in Seq(Nat)
  <2> DEFINE n == 4
  <2>1. s \in [1 .. n -> Nat] /\ n \in Nat
    OBVIOUS
  <2> HIDE DEF n
  <2> QED BY <2>1, SeqDef
<1>2. ASSUME NEW a \in Seq(Nat), NEW b \in Seq(Nat) PROVE a \o b \in Seq(Nat)
  BY ConcatProperties
<1>3. CASE t \in [1 .. 4 -> {0, 1, 16, 63, Pad, 65}]
  <2>1. t \in [1 .. 4 -> C]
    BY <1>3 DEF Pad
  <2> HIDE DEF C
  <2> QED BY <1>1, <2>1 DEF Text
<1>4. CASE \E a \in [1 .. 4 -> {1, Pad}], b \in [1 .. 4 -> {16, Pad}] : t = TwoQuads(a, b)
  <2>1. PICK a \in [1 .. 4 -> {1, Pad}], b \in [1 .. 4 -> {16, Pad}] : t = TwoQuads(a, b)
    BY <1>4
  <2>2. a \in [1 .. 4 -> C] /\ b \in [1 .. 4 -> C]
    BY DEF Pad
  <2> HIDE DEF C
  <2>3. a \in Seq(Nat) /\ b \in Seq(Nat)
    BY <1>1, <2>2
  <2> QED BY <1>2, <2>1, <2>3 DEF Text, TwoQuads
<1> QED BY <1>3, <1>4 DEF Texts

LEMMA LengthsTyped ==
  ASSUME NEW n \in BodyLengths
  PROVE  n \in Nat /\ n >= 4 /\ n % 4 = 0
BY DEF BodyLengths

LEMMA IdsTyped ==
  ASSUME NEW id \in ModuleIds
  PROVE  id \in Seq({"m", "d", Separator}) /\ id # <<>> /\ \A i \in DOMAIN id : id[i] # Separator
<1>1. PICK n \in {1, 31, 32} : id = [i \in 1 .. n |-> "m"]
  BY DEF ModuleIds
<1>2. n \in Nat /\ n # 0
  OBVIOUS
<1>3. id \in [1 .. n -> {"m", "d", Separator}]
  BY <1>1
<1>4. id \in Seq({"m", "d", Separator})
  BY <1>2, <1>3, SeqDef
<1>5. 1 \in DOMAIN id
  BY <1>1, <1>2
<1>6. DOMAIN <<>> = {}
  OBVIOUS
<1>7. \A i \in DOMAIN id : id[i] = "m"
  BY <1>1
<1>8. "m" # Separator
  BY DEF Separator
<1> QED BY <1>4, <1>5, <1>6, <1>7, <1>8

LEMMA DataTyped ==
  ASSUME NEW data \in ButtonData
  PROVE  data \in Seq({"m", "d", Separator})
<1>1. PICK n \in {0, 1, 29, 30, 31, 32, 61, 62, 63, 64}, k \in {0, 1, 2, 29} :
        data = [i \in 1 .. n |-> IF i = k THEN Separator ELSE "d"]
  BY DEF ButtonData
<1>2. n \in Nat
  OBVIOUS
<1>3. data \in [1 .. n -> {"m", "d", Separator}]
  BY <1>1
<1> QED BY <1>2, <1>3, SeqDef

LEMMA FramingsTyped == Framings \subseteq Seq(Nat)
BY DEF Framings

LEMMA RepliesTyped ==
  ASSUME NEW r \in Replies
  PROVE  r \in AnyReplies(Names5)
<1>1. PICK s \in {"ok", "timeout", "broken"}, st \in BOOLEAN, d \in {-1, 65537}, c \in Framings, j \in BOOLEAN, k \in BOOLEAN,
           q \in BOOLEAN, b \in BOOLEAN, u \in {x \in Names5 : x.bytes \in {4, 32} /\ (x.word \/ x.bot)} :
        r = [sent |-> s, success |-> st, declared |-> d, chunks |-> c, json |-> j, ok |-> k, result |-> q, is_bot |-> b, username |-> u, id |-> 7]
  BY DEF Replies
<1>2. c \in Seq(Nat) /\ d \in Int /\ u \in Names5
  BY FramingsTyped
<1> HIDE DEF Names5
<1> QED BY <1>1, <1>2 DEF AnyReplies

LEMMA AnswersTyped ==
  ASSUME NEW r \in Answers
  PROVE  r \in AnyReplies(Names5) /\ r.declared <= MAX_GET_ME_BODY_BYTES
<1>1. r \in Replies /\ r.declared = -1
  BY DEF Answers
<1>2. -1 <= MAX_GET_ME_BODY_BYTES
  BY DEF MAX_GET_ME_BODY_BYTES
<1> QED BY <1>1, <1>2, RepliesTyped

LEMMA PressesTyped ==
  ASSUME NEW p \in Presses
  PROVE  p \in AnyPresses(SomePeers)
<1>1. CASE \E x \in SomePeers : p = [chat_id |-> BotApiDialogId(x), message_id |-> 3, inline_message_id |-> 0]
  <2>1. PICK x \in SomePeers : p = ChatPress(x, 3)
    BY <1>1 DEF ChatPress
  <2>2. 3 \in Nat \ {0}
    OBVIOUS
  <2> QED BY <2>1, <2>2 DEF AnyPresses
<1>2. CASE p = [chat_id |-> 0, message_id |-> 0, inline_message_id |-> 5]
  <2>1. p = InlinePress(5)
    BY <1>2 DEF InlinePress
  <2>2. 5 \in Nat \ {0}
    OBVIOUS
  <2> QED BY <2>1, <2>2 DEF AnyPresses
<1> QED BY <1>1, <1>2 DEF Presses

\* The inputs of the codecs and of the bot's wire, and what the code makes of them.
WireJobInv ==
  /\ job.kind = "call" => \E line \in Calls, r \in 1 .. 6 : job = [kind |-> "call", line |-> line, revision |-> r]
  /\ job.kind = "event" => \E e \in Events, v \in 2 .. 6 : job = [kind |-> "event", event |-> e, version |-> v]
  /\ job.kind = "encode" => \E b \in Bytes : job = [kind |-> "encode", bytes |-> b]
  /\ job.kind = "decode" => \E t \in Texts : job = [kind |-> "decode", text |-> t]
  /\ job.kind = "raw" => \E n \in BodyLengths : job = [kind |-> "raw", body |-> n]
  /\ job.kind = "rpc" => \E m \in V6Methods, p \in Params, r \in {"ok", "not_modified", "flood", "broken"} :
       job = [kind |-> "rpc", method |-> m, params |-> p, reply |-> r]
  /\ job.kind = "react" => \E v \in 3 .. 6, a \in Actions : job = [kind |-> "react", version |-> v, action |-> a]
  /\ job.kind = "button" => \E m \in ModuleIds, d \in ButtonData : job = [kind |-> "button", module |-> m, data |-> d]
  /\ job.kind = "peer" => \E p \in SomePeers : job = [kind |-> "peer", peer |-> p]
  /\ job.kind = "reply" => \E r \in Replies : job = [kind |-> "reply", reply |-> r]
  /\ job.kind = "press" => \E p \in Presses, t \in {0, 1, 4096, 4097}, r \in Answers :
       job = [kind |-> "press", press |-> p, text |-> [units |-> t, nul |-> FALSE], reply |-> r]
  /\ job.kind = "botfather" => \E a \in Answered : job = [kind |-> "botfather", answer |-> a]

EventSerialized(j) == IF j.version = 6 THEN V6OutboundSerialize(j.event, Id(1), 100) ELSE SerializeFor(j.event, j.version)
WireOutInv ==
  /\ out.kind = "call" => job.kind = "call" /\ out.result = ParseV6InboundFrame(job.line, job.revision)
  /\ out.kind = "event" => job.kind = "event" /\ out.result = EventSerialized(job)
  /\ out.kind = "encode" => job.kind = "encode" /\ out.result = EncodeBase64(job.bytes)
  /\ out.kind = "decode" => job.kind = "decode" /\ out.result = DecodeBase64(job.text)
  /\ out.kind = "raw" => job.kind = "raw" /\ out.result = RawTlResult(job.body)
  /\ out.kind = "rpc" => job.kind = "rpc" /\ out.result = Execute(job.method, job.params, job.reply)
  /\ out.kind = "react" => job.kind = "react" /\ out.result = ReadReply(job.version, job.action)
  /\ out.kind = "button" => job.kind = "button" /\ out.result = ButtonSent(job.module, job.data)
  /\ out.kind = "peer" => job.kind = "peer" /\ out.result = PeerIdFromBotChatId(BotApiDialogId(job.peer))
  /\ out.kind = "reply" => job.kind = "reply" /\ out.result = ReadReplies(job.reply)
  /\ out.kind = "press" => job.kind = "press" /\ out.result = AnswerPress(job.press, job.text, job.reply)
  /\ out.kind = "botfather" => job.kind = "botfather" /\ out.result = ExtractToken(Say(job.answer))

WireInv == WireJobInv /\ WireOutInv

LEMMA WireTyped == ProtocolsInit => WireInv
<1> SUFFICES ASSUME ProtocolsInit PROVE WireInv
  OBVIOUS
<1>1. out.kind = "pending"
  BY DEF ProtocolsInit, Init, Pending
<1>2. WireJobInv
  <2>1. CASE job = NoJob
    BY <2>1 DEF WireJobInv, NoJob
  <2>2. CASE Init
    <3>1. job.kind = "call" => \E line \in Calls, r \in 1 .. 6 : job = [kind |-> "call", line |-> line, revision |-> r]
      BY <2>2 DEF Init
    <3>2. job.kind = "event" => \E e \in Events, v \in 2 .. 6 : job = [kind |-> "event", event |-> e, version |-> v]
      BY <2>2 DEF Init
    <3>3. job.kind = "encode" => \E b \in Bytes : job = [kind |-> "encode", bytes |-> b]
      BY <2>2 DEF Init
    <3>4. job.kind = "decode" => \E t \in Texts : job = [kind |-> "decode", text |-> t]
      BY <2>2 DEF Init
    <3>5. job.kind = "raw" => \E n \in BodyLengths : job = [kind |-> "raw", body |-> n]
      BY <2>2 DEF Init
    <3>6. job.kind = "rpc" => \E m \in V6Methods, p \in Params, r \in {"ok", "not_modified", "flood", "broken"} :
            job = [kind |-> "rpc", method |-> m, params |-> p, reply |-> r]
      BY <2>2 DEF Init
    <3>7. job.kind = "react" => \E v \in 3 .. 6, a \in Actions : job = [kind |-> "react", version |-> v, action |-> a]
      BY <2>2 DEF Init
    <3>8. job.kind = "button" => \E m \in ModuleIds, d \in ButtonData : job = [kind |-> "button", module |-> m, data |-> d]
      BY <2>2 DEF Init
    <3>9. job.kind = "peer" => \E p \in SomePeers : job = [kind |-> "peer", peer |-> p]
      BY <2>2 DEF Init
    <3>10. job.kind = "reply" => \E r \in Replies : job = [kind |-> "reply", reply |-> r]
      BY <2>2 DEF Init
    <3>11. job.kind = "press" => \E p \in Presses, t \in {0, 1, 4096, 4097}, r \in Answers :
             job = [kind |-> "press", press |-> p, text |-> [units |-> t, nul |-> FALSE], reply |-> r]
      BY <2>2 DEF Init
    <3>12. job.kind = "botfather" => \E a \in Answered : job = [kind |-> "botfather", answer |-> a]
      BY <2>2 DEF Init
    <3> QED BY <3>1, <3>2, <3>3, <3>4, <3>5, <3>6, <3>7, <3>8, <3>9, <3>10, <3>11, <3>12 DEF WireJobInv
  <2> QED BY <2>1, <2>2 DEF ProtocolsInit
<1> QED BY <1>1, <1>2 DEF WireInv, WireOutInv

\* A step evaluates the input by its own algorithm, or leaves both.
LEMMA WireEvaluated ==
  ASSUME Next, WireOutInv
  PROVE  job' = job /\ WireOutInv'
<1>1. ASSUME NEW k, NEW r, Finish(k, r)
      PROVE  job' = job /\ job.kind = k /\ out'.kind = k /\ out'.result = r
  BY <1>1 DEF Finish
<1>2. CASE Done
  BY <1>2 DEF Done, vars, WireOutInv, EventSerialized
<1>3. CASE EvalCall
  <2>1. job' = job /\ job.kind = "call" /\ out'.kind = "call" /\ out'.result = ParseV6InboundFrame(job.line, job.revision)
    BY <1>1, <1>3 DEF EvalCall
  <2> QED BY <2>1 DEF WireOutInv
<1>4. CASE EvalEvent
  <2>1. job' = job /\ job.kind = "event" /\ out'.kind = "event" /\ out'.result = EventSerialized(job)
    BY <1>1, <1>4 DEF EvalEvent, EventSerialized
  <2> QED BY <2>1 DEF WireOutInv, EventSerialized
<1>5. CASE EvalEncode
  <2>1. job' = job /\ job.kind = "encode" /\ out'.kind = "encode" /\ out'.result = EncodeBase64(job.bytes)
    BY <1>1, <1>5 DEF EvalEncode
  <2> QED BY <2>1 DEF WireOutInv
<1>6. CASE EvalDecode
  <2>1. job' = job /\ job.kind = "decode" /\ out'.kind = "decode" /\ out'.result = DecodeBase64(job.text)
    BY <1>1, <1>6 DEF EvalDecode
  <2> QED BY <2>1 DEF WireOutInv
<1>7. CASE EvalRaw
  <2>1. job' = job /\ job.kind = "raw" /\ out'.kind = "raw" /\ out'.result = RawTlResult(job.body)
    BY <1>1, <1>7 DEF EvalRaw
  <2> QED BY <2>1 DEF WireOutInv
<1>8. CASE EvalRpc
  <2>1. job' = job /\ job.kind = "rpc" /\ out'.kind = "rpc" /\ out'.result = Execute(job.method, job.params, job.reply)
    BY <1>1, <1>8 DEF EvalRpc
  <2> QED BY <2>1 DEF WireOutInv
<1>9. CASE EvalReact
  <2>1. job' = job /\ job.kind = "react" /\ out'.kind = "react" /\ out'.result = ReadReply(job.version, job.action)
    BY <1>1, <1>9 DEF EvalReact
  <2> QED BY <2>1 DEF WireOutInv
<1>10. CASE EvalButton
  <2>1. job' = job /\ job.kind = "button" /\ out'.kind = "button" /\ out'.result = ButtonSent(job.module, job.data)
    BY <1>1, <1>10 DEF EvalButton
  <2> QED BY <2>1 DEF WireOutInv
<1>11. CASE EvalPeer
  <2>1. job' = job /\ job.kind = "peer" /\ out'.kind = "peer" /\ out'.result = PeerIdFromBotChatId(BotApiDialogId(job.peer))
    BY <1>1, <1>11 DEF EvalPeer
  <2> QED BY <2>1 DEF WireOutInv
<1>12. CASE EvalReply
  <2>1. job' = job /\ job.kind = "reply" /\ out'.kind = "reply" /\ out'.result = ReadReplies(job.reply)
    BY <1>1, <1>12 DEF EvalReply
  <2> QED BY <2>1 DEF WireOutInv
<1>13. CASE EvalPress
  <2>1. job' = job /\ job.kind = "press" /\ out'.kind = "press" /\ out'.result = AnswerPress(job.press, job.text, job.reply)
    BY <1>1, <1>13 DEF EvalPress
  <2> QED BY <2>1 DEF WireOutInv
<1>14. CASE EvalBotFather
  <2>1. job' = job /\ job.kind = "botfather" /\ out'.kind = "botfather" /\ out'.result = ExtractToken(Say(job.answer))
    BY <1>1, <1>14 DEF EvalBotFather
  <2> QED BY <2>1 DEF WireOutInv
<1>15. CASE EvalManifest \/ EvalAcquire \/ EvalArchive \/ EvalPlan \/ EvalCommand \/ EvalEntity
  <2>1. \E k \in {"manifest", "acquire", "archive", "plan", "command", "entity"} : \E r : Finish(k, r)
    BY <1>15 DEF EvalManifest, EvalAcquire, EvalArchive, EvalPlan, EvalCommand, EvalEntity
  <2>2. job' = job /\ out'.kind \in {"manifest", "acquire", "archive", "plan", "command", "entity"}
    BY <1>1, <2>1
  <2> QED BY <2>2 DEF WireOutInv
<1> QED BY <1>2, <1>3, <1>4, <1>5, <1>6, <1>7, <1>8, <1>9, <1>10, <1>11, <1>12, <1>13, <1>14, <1>15 DEF Next

LEMMA WireAlways == ProtocolsSpec => []WireInv
<1>1. ASSUME WireInv, [ProtocolsNext]_<<which, vars, legacyVars>> PROVE WireInv'
  <2>1. CASE which = "inputs" /\ Next
    <3>1. job' = job /\ WireOutInv'
      BY <1>1, <2>1, WireEvaluated DEF WireInv
    <3>2. WireJobInv'
      BY <1>1, <3>1 DEF WireInv, WireJobInv
    <3> QED BY <3>1, <3>2 DEF WireInv
  <2>2. CASE UNCHANGED vars
    <3>1. job' = job /\ out' = out
      BY <2>2 DEF vars
    <3> QED BY <1>1, <3>1 DEF WireInv, WireJobInv, WireOutInv, EventSerialized
  <2> QED BY <1>1, <2>1, <2>2 DEF ProtocolsNext
<1> QED BY <1>1, WireTyped, PTL DEF ProtocolsSpec

\* What the run checks of the codecs and of the bot's wire, in every state: exchanges can be
\* completed, base64 is exact, replies reach their module, the layers agree on reactions, presses,
\* chat ids and replies come back to where they belong, and a token is taken whole.
THEOREM CodecAlwaysSound == ProtocolsSpec => []CodecInv
<1>1. ASSUME WireInv PROVE ExchangesComplete
  <2>1. ASSUME out.kind = "call" PROVE CallAnswered(job.line, job.revision, out.result)
    <3>1. PICK line \in Calls, r \in 1 .. 6 : job = [kind |-> "call", line |-> line, revision |-> r]
      BY <1>1, <2>1 DEF WireInv, WireJobInv, WireOutInv
    <3>2. job.line = line /\ job.revision = r /\ out.result = ParseV6InboundFrame(line, r)
      BY <1>1, <2>1, <3>1 DEF WireInv, WireOutInv
    <3> QED BY <3>2, SomeCallsAnswered
  <2>2. ASSUME out.kind = "event", out.result PROVE OtherHalfRead(job.event, job.version)
    <3>1. PICK e \in Events, v \in 2 .. 6 : job = [kind |-> "event", event |-> e, version |-> v]
      BY <1>1, <2>2 DEF WireInv, WireJobInv, WireOutInv
    <3>2. job.event = e /\ job.version = v /\ out.result = EventSerialized(job)
      BY <1>1, <2>2, <3>1 DEF WireInv, WireOutInv
    <3>3. v < 6 => SerializeFor(e, v)
      BY <2>2, <3>2 DEF EventSerialized
    <3> QED BY <3>2, <3>3, OtherHalvesAreRead
  <2> QED BY <2>1, <2>2 DEF ExchangesComplete
<1>2. ASSUME WireInv PROVE Base64Exact
  <2>1. ASSUME out.kind = "encode", job.bytes # <<>> PROVE DecodeBase64(out.result) = Accepted(job.bytes)
    <3>1. PICK b \in Bytes : job = [kind |-> "encode", bytes |-> b]
      BY <1>2, <2>1 DEF WireInv, WireJobInv, WireOutInv
    <3>2. job.bytes = b /\ out.result = EncodeBase64(b)
      BY <1>2, <2>1, <3>1 DEF WireInv, WireOutInv
    <3>3. b \in Seq(Octets) /\ b # <<>>
      BY <2>1, <3>2, BytesTyped
    <3> QED BY <3>2, <3>3, BytesComeBack
  <2>2. ASSUME out.kind = "decode", out.result.ok PROVE EncodeBase64(out.result.value) = job.text
    <3>1. PICK t \in Texts : job = [kind |-> "decode", text |-> t]
      BY <1>2, <2>2 DEF WireInv, WireJobInv, WireOutInv
    <3>2. job.text = t /\ out.result = DecodeBase64(t)
      BY <1>2, <2>2, <3>1 DEF WireInv, WireOutInv
    <3>3. t \in Text /\ DecodeBase64(t).ok
      BY <2>2, <3>2, TextsTyped
    <3> QED BY <3>2, <3>3, SpellingIsUnique
  <2> QED BY <2>1, <2>2 DEF Base64Exact
<1>3. ASSUME WireInv PROVE RepliesDelivered
  <2>1. ASSUME out.kind = "rpc" PROVE Reaches(out.result)
    <3>1. PICK m \in V6Methods, p \in Params, r \in {"ok", "not_modified", "flood", "broken"} :
            job = [kind |-> "rpc", method |-> m, params |-> p, reply |-> r]
      BY <1>3, <2>1 DEF WireInv, WireJobInv, WireOutInv
    <3>2. out.result = Execute(m, p, r)
      BY <1>3, <2>1, <3>1 DEF WireInv, WireOutInv
    <3> QED BY <3>2, RepliesReachTheModule
  <2>2. ASSUME out.kind = "raw" PROVE RawReaches(job.body, out.result)
    <3>1. PICK n \in BodyLengths : job = [kind |-> "raw", body |-> n]
      BY <1>3, <2>2 DEF WireInv, WireJobInv, WireOutInv
    <3>2. job.body = n /\ out.result = RawTlResult(n)
      BY <1>3, <2>2, <3>1 DEF WireInv, WireOutInv
    <3>3. n \in Nat /\ n >= 4 /\ n % 4 = 0
      BY LengthsTyped
    <3> QED BY <3>2, <3>3, RawBodiesAreDelivered
  <2> QED BY <2>1, <2>2 DEF RepliesDelivered
<1>4. ASSUME WireInv PROVE ReactionLayersAgree
  <2> SUFFICES ASSUME out.kind = "react", out.result.ok
               PROVE  ValidateReactionAction(Reactor(job.version), [module |-> "mod", request |-> 1, ref |-> 1], 1, job.action)
    BY DEF ReactionLayersAgree
  <2>1. PICK v \in 3 .. 6, a \in Actions : job = [kind |-> "react", version |-> v, action |-> a]
    BY <1>4 DEF WireInv, WireJobInv, WireOutInv
  <2>2. job.version = v /\ job.action = a /\ out.result = ReadReply(v, a)
    BY <1>4, <2>1 DEF WireInv, WireOutInv
  <2>3. WellFormed(a) /\ ReadReply(v, a).ok
    BY <2>2, ActionsWellFormed
  <2> QED BY <2>2, <2>3, ReactionsAgree
<1>5. ASSUME WireInv PROVE PressRoundTrip
  <2> SUFFICES ASSUME out.kind = "button" PROVE PressedAs(job.module, job.data, out.result)
    BY DEF PressRoundTrip
  <2>1. PICK m \in ModuleIds, d \in ButtonData : job = [kind |-> "button", module |-> m, data |-> d]
    BY <1>5 DEF WireInv, WireJobInv, WireOutInv
  <2>2. job.module = m /\ job.data = d /\ out.result = ButtonSent(m, d)
    BY <1>5, <2>1 DEF WireInv, WireOutInv
  <2> DEFINE C == {"m", "d", Separator}
  <2>3. Separator \in C
    OBVIOUS
  <2>4. m \in Seq(C) /\ d \in Seq(C) /\ m # <<>> /\ \A i \in DOMAIN m : m[i] # Separator
    BY IdsTyped, DataTyped
  <2> HIDE DEF C
  <2> QED BY <2>2, <2>3, <2>4, PressesComeBack
<1>6. ASSUME WireInv PROVE ChatIdRoundTrip
  <2> SUFFICES ASSUME out.kind = "peer" PROVE ChatIdOf(job.peer, out.result)
    BY DEF ChatIdRoundTrip
  <2>1. PICK p \in SomePeers : job = [kind |-> "peer", peer |-> p]
    BY <1>6 DEF WireInv, WireJobInv, WireOutInv
  <2>2. job.peer = p /\ out.result = PeerIdFromBotChatId(BotApiDialogId(p))
    BY <1>6, <2>1 DEF WireInv, WireOutInv
  <2>3. p \in AnyPeers
    BY SomePeersKnown
  <2> QED BY <2>2, <2>3, ChatIdsComeBack
<1>7. ASSUME WireInv PROVE ReplyBounded
  <2> SUFFICES ASSUME out.kind = "reply" PROVE ReadAs(job.reply, out.result)
    BY DEF ReplyBounded
  <2>1. PICK r \in Replies : job = [kind |-> "reply", reply |-> r]
    BY <1>7 DEF WireInv, WireJobInv, WireOutInv
  <2>2. job.reply = r /\ out.result = ReadReplies(r)
    BY <1>7, <2>1 DEF WireInv, WireOutInv
  <2>3. r \in AnyReplies(Names5)
    BY RepliesTyped
  <2> QED BY <2>2, <2>3, RepliesAreBounded
<1>8. ASSUME WireInv PROVE PressedMessageEdited
  <2> SUFFICES ASSUME out.kind = "press" PROVE EditedAs(SomePeers, job.press, job.text, job.reply, out.result)
    BY DEF PressedMessageEdited
  <2>1. PICK p \in Presses, t \in {0, 1, 4096, 4097}, r \in Answers :
          job = [kind |-> "press", press |-> p, text |-> [units |-> t, nul |-> FALSE], reply |-> r]
    BY <1>8 DEF WireInv, WireJobInv, WireOutInv
  <2> DEFINE text == [units |-> t, nul |-> FALSE]
  <2>2. job.press = p /\ job.text = text /\ job.reply = r /\ out.result = AnswerPress(p, text, r)
    BY <1>8, <2>1 DEF WireInv, WireOutInv
  <2>3. t \in Nat /\ text = [units |-> t, nul |-> FALSE]
    OBVIOUS
  <2> HIDE DEF text
  <2>4. SomePeers \in SUBSET AnyPeers /\ p \in AnyPresses(SomePeers)
    BY SomePeersKnown, PressesTyped
  <2>5. r \in AnyReplies(Names5) /\ r.declared <= MAX_GET_ME_BODY_BYTES
    BY AnswersTyped
  <2>6. EditedAs(SomePeers, p, text, r, AnswerPress(p, text, r))
    BY <2>3, <2>4, <2>5, PressesEditTheirMessage
  <2> QED BY <2>2, <2>6
<1>9. ASSUME WireInv PROVE TokenWhole
  <2> SUFFICES ASSUME out.kind = "botfather" PROVE TakenFrom(job.answer, out.result)
    BY DEF TokenWhole
  <2>1. PICK a \in Answered : job = [kind |-> "botfather", answer |-> a]
    BY <1>9 DEF WireInv, WireJobInv, WireOutInv
  <2>2. job.answer = a /\ out.result = ExtractToken(Say(a))
    BY <1>9, <2>1 DEF WireInv, WireOutInv
  <2> QED BY <2>2, SomeAnswersTaken
<1> QED BY <1>1, <1>2, <1>3, <1>4, <1>5, <1>6, <1>7, <1>8, <1>9, WireAlways, PTL DEF CodecInv

\* A behaviour of the run is one of the module process, which rests while an input is evaluated.
LEMMA ProtocolsShowTheProcess == ProtocolsSpec => LegacySpec
<1>1. ProtocolsInit => LegacyInit
  BY DEF ProtocolsInit
<1>2. [ProtocolsNext]_<<which, vars, legacyVars>> => [LegacyNext]_legacyVars
  BY DEF ProtocolsNext
<1> QED BY <1>1, <1>2, PTL DEF ProtocolsSpec, LegacySpec

\* In every behaviour of the run: calls of a v2-v5 module are sound and implement the sequential
\* service, and every algorithm keeps its promise on its input.
THEOREM ProtocolsAreSafe ==
  ProtocolsSpec => [](LegacyInv /\ CodecInv /\ GrantsHonoured /\ SourceInv /\ RoutingInv) /\ ImplementsService
BY ProtocolsShowTheProcess, LegacyCallsAreSound, LegacyImplementsService, CodecAlwaysSound, GrantsAlwaysHonoured,
   SourceAlwaysExact, RoutingAlwaysSound, PTL

==============================================================================
