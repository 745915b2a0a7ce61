--------------------------- MODULE TelegramProofs ---------------------------
(***************************************************************************)
(* What holds of the Telegram bridge for any number of chats, messages and *)
(* crashes: the types, that no message of the operator is lost, that the   *)
(* mirror keeps to the order of the messages, and that the last /pause or  *)
(* /resume holds, but for one of the page that a repeated one overrules.   *)
(***************************************************************************)
EXTENDS Telegram, TLAPS

Update == [kind : Kinds, chat : Chats]

\* The update the bridge has come to.
Due == IF offset = 0 THEN confirmed + 1 ELSE offset

\* What the bridge still has of an answer are the updates from there on, one after the other.
BatchFits ==
  /\ batch \in Seq(Ids)
  /\ \A i \in 1 .. Len(batch) : batch[i] = Due + i - 1
  /\ Due + Len(batch) <= Len(updates) + 1

\* What the mirror still has of a page are the messages behind the cursor, one after the other.
RowsFit ==
  /\ rows \in Seq(1 .. messages)
  /\ Len(rows) <= PageSize
  /\ \A i \in 1 .. Len(rows) : rows[i] = cursor + i
  /\ cursor + Len(rows) <= messages

\* Chats are shown messages that exist, and the i-th of them is not before the i-th there is.
ShownFits ==
  /\ mirrored \in [Chats -> Seq(1 .. messages)]
  /\ \A c \in Chats : \A i \in 1 .. Len(mirrored[c]) : i <= mirrored[c][i]

\* The inductive invariant behind the types.
Typed ==
  /\ updates \in Seq(Update) /\ Len(updates) <= MaxUpdates
  /\ confirmed \in Nat /\ confirmed <= Len(updates)
  /\ directives \in [Ids -> Nat] /\ paused \in BOOLEAN
  /\ outcome \in {"pending", "executed", "rejected"}
  /\ messages \in 0 .. MaxMessages
  /\ up \in BOOLEAN /\ (~up => rows = <<>>) /\ pc \in {"poll", "take", "approve", "reply", "complain"}
  /\ offset \in Nat /\ (offset = 0 \/ confirmed < offset)
  /\ at \in Nat /\ at < Due /\ (pc = "approve" => at # 0)
  /\ BatchFits /\ chatIds \subseteq Chats
  /\ cursor \in Nat /\ RowsFit /\ sentTo \subseteq Chats
  /\ handled \subseteq Ids /\ crashes \in 0 .. MaxCrashes
  /\ ShownFits

\* The updates before the one it has come to are dealt with, but for the approval it is waiting for.
Behind ==
  /\ 1 .. confirmed \subseteq handled
  /\ \A u \in 1 .. Due - 1 : u \in handled \/ (pc = "approve" /\ u = at)

\* The switch says what the commands up to some update say that is not before the last one taken: the
\* bridge may have been further before it crashed.
SwitchSays(k) ==
  \A u \in PauseCommands :
    u <= k /\ (\A v \in PauseCommands : v <= k => v <= u) => paused = (updates[u].kind = "pause")

SwitchFits == \E k \in Due - 1 .. Len(updates) : SwitchSays(k)

\* What the page has said.
SaidTyped == pageWord \in {"none", "pause", "resume"} /\ undone \in BOOLEAN

\* Only a crash makes the bridge take again what it has taken.
TakenOnce == crashes = 0 => handled \subseteq 1 .. Due - 1

\* The page's word holds until the chat says something new, or a repeated command overrules it.
WordFits ==
  /\ pageWord = "none" => SwitchFits
  /\ pageWord # "none" /\ ~undone => paused = (pageWord = "pause")
  /\ undone => crashes > 0

\* A chat has been shown nothing beyond the cursor, but for the message that is being sent.
ShownBehind ==
  up => \A c \in Chats : \A i \in 1 .. Len(mirrored[c]) :
          mirrored[c][i] <= IF c \in sentTo THEN cursor + 1 ELSE cursor

-----------------------------------------------------------------------------
(* Sequences of consecutive numbers *)

LEMMA Consecutive ==
  ASSUME NEW n \in Nat, NEW k \in Nat, NEW S, k + 1 .. k + n \subseteq S
  PROVE  /\ [i \in 1 .. n |-> k + i] \in Seq(S)
         /\ Len([i \in 1 .. n |-> k + i]) = n
         /\ \A i \in 1 .. n : [j \in 1 .. n |-> k + j][i] = k + i
OBVIOUS

LEMMA ConsecutiveTail ==
  ASSUME NEW S, NEW s \in Seq(S), s # <<>>, NEW k \in Nat, \A i \in 1 .. Len(s) : s[i] = k + i
  PROVE  /\ Head(s) = k + 1 /\ Head(s) \in S
         /\ Tail(s) \in Seq(S)
         /\ Len(Tail(s)) = Len(s) - 1 /\ Len(s) \in Nat \ {0}
         /\ \A i \in 1 .. Len(Tail(s)) : Tail(s)[i] = k + 1 + i
<1>1. Len(s) \in Nat \ {0} /\ Head(s) = s[1] /\ Len(Tail(s)) = Len(s) - 1 /\ Tail(s) \in Seq(S)
  OBVIOUS
<1>2. Head(s) = k + 1 /\ Head(s) \in S
  BY <1>1
<1>3. \A i \in 1 .. Len(s) - 1 : Tail(s)[i] = s[i + 1]
  BY <1>1
<1>4. ASSUME NEW i \in 1 .. Len(s) - 1 PROVE Tail(s)[i] = k + 1 + i
  <2>1. i + 1 \in 1 .. Len(s) /\ k + (i + 1) = k + 1 + i
    BY <1>1
  <2> QED BY <1>3, <2>1
<1> QED BY <1>1, <1>2, <1>4

LEMMA Element ==
  ASSUME NEW S, NEW s \in Seq(S), NEW i \in 1 .. Len(s)
  PROVE  s[i] \in S
OBVIOUS

LEMMA Wider ==
  ASSUME NEW S, NEW T, S \subseteq T, NEW s \in Seq(S)
  PROVE  s \in Seq(T)
OBVIOUS

LEMMA Appended ==
  ASSUME NEW S, NEW s \in Seq(S), NEW e \in S
  PROVE  /\ Append(s, e) \in Seq(S)
         /\ Len(Append(s, e)) = Len(s) + 1 /\ Len(s) \in Nat
         /\ \A i \in 1 .. Len(s) : Append(s, e)[i] = s[i]
         /\ Append(s, e)[Len(s) + 1] = e
OBVIOUS

\* TypeOK bounds the length of what the invariant calls a sequence.
LEMMA Bounded ==
  ASSUME NEW S, NEW n \in Nat, NEW s \in Seq(S), Len(s) <= n
  PROVE  s \in BoundedSeq(S, n)
BY DEF BoundedSeq, SeqOf

-----------------------------------------------------------------------------
(* The types *)

LEMMA InitTyped == Init => Typed
<1> SUFFICES ASSUME Init PROVE Typed
  OBVIOUS
<1>1. Due = 1 /\ Len(updates) = 0 /\ updates \in Seq(Update)
  BY DEF Init, Due
<1>2. BatchFits
  BY <1>1 DEF Init, BatchFits
<1>3. RowsFit
  BY TelegramConstants DEF Init, RowsFit
<1>4. ShownFits
  BY DEF Init, ShownFits
<1>5. /\ directives \in [Ids -> Nat] /\ paused \in BOOLEAN /\ up \in BOOLEAN
      /\ handled \subseteq Ids /\ chatIds \subseteq Chats /\ sentTo \subseteq Chats
  BY DEF Init
<1>6. /\ Len(updates) <= MaxUpdates /\ messages \in 0 .. MaxMessages /\ crashes \in 0 .. MaxCrashes
      /\ confirmed = 0 /\ offset = 0 /\ at = 0 /\ cursor = 0
  BY <1>1, TelegramConstants DEF Init
<1>7. outcome = "pending" /\ pc = "poll" /\ up
  BY DEF Init
<1> QED BY <1>1, <1>2, <1>3, <1>4, <1>5, <1>6, <1>7 DEF Typed

\* The numbers and sequences there are to reckon with.
LEMMA Numbers ==
  ASSUME Typed
  PROVE  /\ Len(updates) \in Nat /\ Len(updates) <= MaxUpdates /\ MaxUpdates \in Nat
         /\ Len(batch) \in Nat /\ Len(rows) \in Nat
         /\ Due \in Nat \ {0} /\ confirmed < Due /\ Due <= Len(updates) + 1
         /\ messages \in Nat /\ MaxMessages \in Nat /\ PageSize \in Nat /\ MaxCrashes \in Nat
         /\ \A c \in Chats : mirrored[c] \in Seq(1 .. messages) /\ Len(mirrored[c]) \in Nat
BY TelegramConstants, SMTT(30) DEF Typed, BatchFits, RowsFit, ShownFits, Due

LEMMA UserWritesTyped ==
  ASSUME Typed, NEW kind \in Kinds, NEW c \in Chats, UserWrites(kind, c)
  PROVE  Typed'
<1> DEFINE e == [kind |-> kind, chat |-> c]
<1>1. e \in Update
  BY DEF Update
<1>2. updates' = Append(updates, e) /\ Len(updates) < MaxUpdates
  BY DEF UserWrites
<1> HIDE DEF e
<1>3. updates' \in Seq(Update) /\ Len(updates') = Len(updates) + 1 /\ Len(updates) \in Nat
  BY <1>1, <1>2, Appended DEF Typed
<1>4. UNCHANGED <<confirmed, db, up, incoming, mirror, handled, mirrored, said, crashes>>
  BY DEF UserWrites
<1>5. BatchFits' /\ RowsFit' /\ ShownFits'
  <2>1. Due' = Due /\ batch' = batch
    BY <1>4 DEF Due, incoming
  <2>2. BatchFits'
    BY <1>3, <2>1, Numbers, SMTT(30) DEF Typed, BatchFits
  <2> QED BY <1>4, <2>2 DEF Typed, RowsFit, ShownFits, db, mirror
<1>6. updates' \in Seq(Update) /\ Len(updates') <= MaxUpdates /\ confirmed' \in Nat /\ confirmed' <= Len(updates')
  BY <1>2, <1>3, <1>4, Numbers, SMTT(30) DEF Typed
<1>7. at' < Due'
  BY <1>4 DEF Typed, Due, incoming
<1> QED BY <1>4, <1>5, <1>6, <1>7 DEF Typed, db, incoming, mirror

LEMMA DirectorPostsTyped ==
  ASSUME Typed, DirectorPosts
  PROVE  Typed'
<1>1. /\ messages' = messages + 1 /\ messages' \in 0 .. MaxMessages
      /\ UNCHANGED <<bot, directives, paused, outcome, up, incoming, mirror, handled, mirrored, said, crashes>>
  BY Numbers, SMTT(30) DEF DirectorPosts, Typed
<1>2. 1 .. messages \subseteq 1 .. messages'
  BY <1>1, Numbers, SMTT(30)
<1>3. RowsFit'
  BY <1>1, <1>2, Numbers, Wider, SMTT(30) DEF Typed, RowsFit, mirror
<1>4. ShownFits'
  BY <1>1, <1>2, Numbers, Wider DEF Typed, ShownFits
<1>5. BatchFits' /\ Due' = Due
  BY <1>1 DEF Typed, BatchFits, Due, bot, incoming
<1> QED BY <1>1, <1>3, <1>4, <1>5 DEF Typed, bot, incoming, mirror

LEMMA PageCommandTyped ==
  ASSUME Typed, NEW kind, PageCommand(kind)
  PROVE  Typed' /\ Due' = Due
<1>1. /\ paused' = (kind = "pause")
      /\ UNCHANGED <<bot, directives, outcome, messages, up, incoming, mirror, handled, mirrored, crashes>>
  BY DEF PageCommand
<1>2. BatchFits' /\ RowsFit' /\ ShownFits' /\ Due' = Due
  BY <1>1 DEF Typed, BatchFits, RowsFit, ShownFits, Due, bot, incoming, mirror
<1>3. paused' \in BOOLEAN
  BY <1>1
<1> QED BY <1>1, <1>2, <1>3 DEF Typed, bot, incoming, mirror

LEMMA PollUpdatesTyped ==
  ASSUME Typed, PollUpdates
  PROVE  Typed' /\ Due' = Due
<1> DEFINE seen == IF offset = 0 THEN confirmed ELSE offset - 1
           n == Len(updates) - seen
           page == [i \in 1 .. n |-> seen + i]
<1>1. seen \in Nat /\ seen + 1 = Due /\ confirmed <= seen /\ n \in Nat /\ seen + n = Len(updates)
  BY Numbers DEF Typed, Due
<1>2. /\ confirmed' = seen
      /\ (batch' = page /\ pc' = "take") \/ UNCHANGED <<batch, pc>>
      /\ UNCHANGED <<updates, db, up, offset, at, chatIds, mirror, handled, mirrored, said, crashes>>
  BY DEF PollUpdates
<1>3. Due' = Due /\ (offset = 0 \/ seen < offset)
  BY <1>1, <1>2, Numbers DEF Due, Typed
<1>4. page \in Seq(Ids) /\ Len(page) = n /\ \A i \in 1 .. n : page[i] = seen + i
  <2> HIDE DEF seen, n
  <2>1. seen + 1 .. seen + n \subseteq Ids
    BY <1>1, Numbers, SMTT(30) DEF Ids
  <2> QED BY <1>1, <2>1, Consecutive
<1> HIDE DEF seen, n, page
<1>5. BatchFits'
  <2>1. CASE batch' = page
    <3>1. Len(batch') = n /\ batch' \in Seq(Ids)
      BY <1>4, <2>1
    <3>2. \A i \in 1 .. n : page[i] = Due + i - 1
      BY <1>1, <1>4
    <3>3. Due + n <= Len(updates) + 1
      BY <1>1, Numbers
    <3> QED BY <1>2, <1>3, <2>1, <3>1, <3>2, <3>3 DEF BatchFits
  <2>2. CASE batch' = batch
    BY <1>2, <1>3, <2>2 DEF Typed, BatchFits
  <2> QED BY <1>2, <2>1, <2>2
<1>6. RowsFit' /\ ShownFits'
  BY <1>2 DEF Typed, RowsFit, ShownFits, mirror, db
<1>7. confirmed' \in Nat /\ confirmed' <= Len(updates)
  BY <1>1, <1>2, Numbers
<1> QED BY <1>2, <1>3, <1>5, <1>6, <1>7 DEF Typed, db, mirror

\* Taking the first update of the batch: the offset goes one on, and the batch with it.
LEMMA TakeFacts ==
  ASSUME Typed, TakeUpdate
  PROVE  /\ Head(batch) = Due /\ Due \in DOMAIN updates /\ Due \in Ids
         /\ offset' = Due + 1 /\ Due' = Due + 1 /\ batch' = Tail(batch) /\ BatchFits' /\ Said(Due)
         /\ UNCHANGED <<bot, messages, up, mirror, mirrored, crashes>>
         /\ \/ /\ updates[Due].kind = "stranger"
               /\ handled' = handled \cup {Due}
               /\ UNCHANGED <<directives, paused, outcome, pc, at, chatIds>>
            \/ /\ updates[Due].kind # "stranger"
               /\ at' = Due /\ chatIds' = chatIds \cup {updates[Due].chat}
               /\ HandleUpdate(Due)
<1>1. batch \in Seq(Ids) /\ batch # <<>> /\ Due - 1 \in Nat /\ \A i \in 1 .. Len(batch) : batch[i] = Due - 1 + i
  <2>1. batch \in Seq(Ids) /\ batch # <<>> /\ Due - 1 \in Nat
    <3>1. Due - 1 \in Nat
      BY Numbers
    <3>2. batch \in Seq(Ids)
      BY DEF Typed, BatchFits
    <3>3. batch # <<>>
      BY DEF TakeUpdate
    <3> QED BY <3>1, <3>2, <3>3
  <2>2. ASSUME NEW i \in 1 .. Len(batch) PROVE batch[i] = Due - 1 + i
    <3>1. batch[i] = Due + i - 1
      BY DEF Typed, BatchFits
    <3> HIDE DEF Due
    <3> QED BY <3>1, Numbers
  <2> QED BY <2>1, <2>2
<1>2. /\ Head(batch) = Due - 1 + 1 /\ Head(batch) \in Ids
      /\ Tail(batch) \in Seq(Ids) /\ Len(Tail(batch)) = Len(batch) - 1 /\ Len(batch) \in Nat \ {0}
      /\ \A i \in 1 .. Len(Tail(batch)) : Tail(batch)[i] = Due - 1 + 1 + i
  BY <1>1, ConsecutiveTail
<1>3. Head(batch) = Due
  BY <1>2, Numbers
<1>4. /\ AdvanceOffset(Due) /\ batch' = Tail(batch) /\ Said(Due)
      /\ UNCHANGED <<bot, messages, up, mirror, mirrored, crashes>>
  BY <1>3 DEF TakeUpdate
<1>5. offset' = Due + 1
  BY <1>4, Numbers DEF AdvanceOffset, Due, Typed
<1>6. Due' = Due + 1
  BY <1>5, Numbers DEF Due
<1>7. Due \in DOMAIN updates /\ Due \in Ids
  <2>1. Due <= Len(updates)
    BY <1>2, Numbers, SMTT(30) DEF Typed, BatchFits
  <2>2. DOMAIN updates = 1 .. Len(updates)
    BY DEF Typed
  <2> QED BY <1>2, <1>3, <2>1, <2>2, Numbers
<1>8. BatchFits'
  <2>1. \A i \in 1 .. Len(batch') : batch'[i] = Due' + i - 1
    <3>1. ASSUME NEW i \in 1 .. Len(batch') PROVE Due - 1 + 1 + i = Due' + i - 1
      <4>1. i \in Nat
        BY <1>2, <1>4
      <4>2. Due \in Nat
        BY Numbers
      <4> QED BY <1>6, <4>1, <4>2
    <3> QED BY <1>2, <1>4, <3>1
  <2>2. Due' + Len(batch') <= Len(updates) + 1
    <3>1. Due + Len(batch) <= Len(updates) + 1 /\ Len(batch') = Len(batch) - 1
      BY <1>2, <1>4 DEF Typed, BatchFits
    <3> QED BY <1>6, <3>1, Numbers, SMTT(30)
  <2>3. updates' = updates
    BY <1>4 DEF bot
  <2> QED BY <1>2, <1>4, <2>1, <2>2, <2>3 DEF BatchFits
<1>9. IF updates[Due].kind = "stranger"
        THEN handled' = handled \cup {Due} /\ UNCHANGED <<directives, paused, outcome, pc, at, chatIds>>
        ELSE at' = Due /\ chatIds' = chatIds \cup {updates[Due].chat} /\ HandleUpdate(Due)
  BY <1>3 DEF TakeUpdate
<1> QED BY <1>3, <1>4, <1>5, <1>6, <1>7, <1>8, <1>9

LEMMA TakeUpdateTyped ==
  ASSUME Typed, TakeUpdate
  PROVE  Typed'
<1> DEFINE kind == updates[Due].kind
<1>0. /\ Due \in Ids /\ Due' = Due + 1 /\ offset' = Due + 1 /\ BatchFits'
      /\ UNCHANGED <<bot, messages, up, mirror, mirrored, crashes>>
      /\ updates[Due] \in Update
  BY TakeFacts, Numbers, SMTT(30) DEF Typed
<1>1. kind \in Kinds /\ updates[Due].chat \in Chats
  BY <1>0 DEF Update
<1>2. directives' \in [Ids -> Nat] /\ handled' \subseteq Ids
  <2>1. directives' = directives \/ directives' = [directives EXCEPT ![Due] = @ + 1]
    BY TakeFacts DEF HandleUpdate
  <2>2. handled' = handled \/ handled' = handled \cup {Due}
    BY TakeFacts DEF HandleUpdate
  <2>3. directives \in [Ids -> Nat] /\ handled \subseteq Ids
    BY DEF Typed
  <2>4. directives' \in [Ids -> Nat]
    BY <1>0, <2>1, <2>3
  <2> QED BY <1>0, <2>2, <2>3, <2>4
<1>3. paused' \in BOOLEAN
  <2>1. paused' = paused \/ paused' = PausedAfter(kind)
    BY TakeFacts DEF HandleUpdate
  <2>2. PausedAfter(kind) \in BOOLEAN
    BY DEF PausedAfter, Typed
  <2> QED BY <2>1, <2>2 DEF Typed
<1>4. outcome' \in {"pending", "executed", "rejected"}
  BY TakeFacts DEF HandleUpdate, Typed
<1>5. pc' \in {"poll", "take", "approve", "reply", "complain"}
  BY TakeFacts DEF HandleUpdate, Typed
<1>6. at' \in Nat /\ at' < Due' /\ chatIds' \subseteq Chats /\ (pc' = "approve" => at' # 0)
  <2>1. at' \in {at, Due} /\ chatIds' \subseteq chatIds \cup {updates[Due].chat}
    BY TakeFacts
  <2>2. at' \in Nat /\ at' < Due'
    <3>1. at \in Nat /\ at < Due
      BY DEF Typed
    <3> QED BY <1>0, <2>1, <3>1, Numbers, SMTT(30)
  <2>3. pc' = "approve" => at' = Due
    BY TakeFacts DEF TakeUpdate
  <2> QED BY <1>1, <2>1, <2>2, <2>3, Numbers DEF Typed
<1>7. confirmed' < offset' /\ offset' \in Nat
  <2>1. confirmed' = confirmed /\ confirmed \in Nat
    BY <1>0 DEF bot, Typed
  <2> QED BY <1>0, <2>1, Numbers, SMTT(30)
<1>8. RowsFit' /\ ShownFits'
  BY <1>0 DEF Typed, RowsFit, ShownFits, mirror
<1> HIDE DEF kind
<1> QED BY <1>0, <1>2, <1>3, <1>4, <1>5, <1>6, <1>7, <1>8 DEF Typed, bot, mirror

LEMMA IncomingTyped ==
  ASSUME Typed, BatchDone \/ ApproveEnds \/ Reply
  PROVE  Typed' /\ Due' = Due
<1>1. /\ UNCHANGED <<bot, directives, paused, messages, up, offset, chatIds, mirror, mirrored, crashes>>
      /\ outcome' \in {outcome, "executed"}
      /\ handled' = handled \/ (handled' = handled \cup {at} /\ pc = "approve")
      /\ pc' \in {"poll", "take", "reply", "complain"} /\ at' \in {at, 0} /\ batch' \in {batch, <<>>}
  BY DEF BatchDone, ApproveEnds, Reply, db
<1>2. Due' = Due
  BY <1>1 DEF Due, bot
<1>3. BatchFits'
  <2>1. <<>> \in Seq(Ids) /\ Len(<<>>) = 0
    OBVIOUS
  <2>2. CASE batch' = batch
    BY <1>1, <1>2, <2>2 DEF Typed, BatchFits, bot
  <2>3. CASE batch' = <<>>
    BY <1>1, <1>2, <2>1, <2>3, Numbers DEF BatchFits, bot
  <2> QED BY <1>1, <2>2, <2>3
<1>4. RowsFit' /\ ShownFits'
  BY <1>1 DEF Typed, RowsFit, ShownFits, mirror
<1>5. at' \in Nat /\ at' < Due'
  BY <1>1, <1>2, Numbers, SMTT(30) DEF Typed
<1>6. handled' \subseteq Ids
  <2>1. pc = "approve" => at \in Ids
    BY Numbers DEF Typed, Ids
  <2> QED BY <1>1, <2>1 DEF Typed
<1> QED BY <1>1, <1>2, <1>3, <1>4, <1>5, <1>6 DEF Typed, bot, mirror

LEMMA MirrorPageTyped ==
  ASSUME Typed, MirrorPage
  PROVE  Typed'
<1> DEFINE to == IF messages < cursor + PageSize THEN messages ELSE cursor + PageSize
           n == to - cursor
           page == [i \in 1 .. n |-> cursor + i]
<1>1. n \in Nat /\ n <= PageSize /\ cursor + n <= messages /\ cursor \in Nat
  BY Numbers, SMTT(30) DEF MirrorPage, Typed
<1>2. rows' = page /\ up /\ UNCHANGED <<bot, db, up, incoming, cursor, sentTo, handled, mirrored, said, crashes>>
  BY DEF MirrorPage
<1>3. page \in Seq(1 .. messages) /\ Len(page) = n /\ \A i \in 1 .. n : page[i] = cursor + i
  <2> HIDE DEF to, n
  <2>1. cursor + 1 .. cursor + n \subseteq 1 .. messages
    BY <1>1, Numbers
  <2> QED BY <1>1, <2>1, Consecutive
<1> HIDE DEF to, n, page
<1>4. RowsFit'
  BY <1>1, <1>2, <1>3 DEF RowsFit, db
<1>5. BatchFits' /\ ShownFits' /\ Due' = Due
  BY <1>2 DEF Typed, BatchFits, ShownFits, Due, bot, db, incoming
<1> QED BY <1>2, <1>4, <1>5 DEF Typed, bot, db, incoming

\* Moving on to the next message of the page.
LEMMA MirrorNextTyped ==
  ASSUME Typed, MirrorNext
  PROVE  Typed' /\ cursor' = cursor + 1
<1>1. /\ rows \in Seq(1 .. messages) /\ rows # <<>> /\ cursor \in Nat
      /\ \A i \in 1 .. Len(rows) : rows[i] = cursor + i
  BY DEF MirrorNext, Typed, RowsFit
<1>2. /\ Head(rows) = cursor + 1
      /\ Tail(rows) \in Seq(1 .. messages)
      /\ Len(Tail(rows)) = Len(rows) - 1 /\ Len(rows) \in Nat \ {0}
      /\ \A i \in 1 .. Len(Tail(rows)) : Tail(rows)[i] = cursor + 1 + i
  BY <1>1, ConsecutiveTail
<1>3. /\ cursor' = Head(rows) /\ rows' = Tail(rows) /\ sentTo' = {}
      /\ UNCHANGED <<bot, db, up, incoming, handled, mirrored, said, crashes>>
  BY DEF MirrorNext
<1>4. RowsFit'
  <2>1. Len(rows') <= PageSize /\ cursor' + Len(rows') <= messages
    <3>1. Len(rows) <= PageSize /\ cursor + Len(rows) <= messages
      BY DEF Typed, RowsFit
    <3>2. PageSize \in Nat /\ messages \in Nat /\ cursor \in Nat /\ Len(rows) \in Nat
      BY <1>1, Numbers
    <3>3. cursor' = cursor + 1 /\ Len(rows') = Len(rows) - 1
      BY <1>2, <1>3
    <3> QED BY <3>1, <3>2, <3>3
  <2> QED BY <1>2, <1>3, <2>1 DEF RowsFit, db
<1>5. BatchFits' /\ ShownFits' /\ Due' = Due
  BY <1>3 DEF Typed, BatchFits, ShownFits, Due, bot, db, incoming
<1>6. cursor' \in Nat /\ sentTo' \subseteq Chats
  BY <1>1, <1>2, <1>3
<1> QED BY <1>2, <1>3, <1>4, <1>5, <1>6 DEF Typed, bot, db, incoming

\* What is shown to a chat is the message behind the cursor.
LEMMA MirrorSendFacts ==
  ASSUME Typed, NEW c \in Chats, MirrorSend(c)
  PROVE  /\ cursor + 1 \in 1 .. messages
         /\ mirrored' = mirrored \/ mirrored' = [mirrored EXCEPT ![c] = Append(mirrored[c], cursor + 1)]
<1>1. rows \in Seq(1 .. messages) /\ rows # <<>> /\ cursor \in Nat /\ \A i \in 1 .. Len(rows) : rows[i] = cursor + i
  BY DEF MirrorSend, Typed, RowsFit
<1>2. Head(rows) = cursor + 1 /\ Head(rows) \in 1 .. messages
  BY <1>1, ConsecutiveTail, ZenonT(30)
<1> QED BY <1>2 DEF MirrorSend

\* The message behind the cursor is new to the chat it is sent to: so it fits behind what it was shown.
LEMMA MirrorSendTyped ==
  ASSUME Typed, ShownBehind, NEW c \in Chats, MirrorSend(c)
  PROVE  Typed'
<1>0. /\ UNCHANGED <<bot, db, up, incoming, cursor, rows, handled, crashes>>
      /\ sentTo' = sentTo \cup {c} /\ c \notin sentTo /\ up
  BY DEF MirrorSend
<1>1. mirrored \in [Chats -> Seq(1 .. messages)] /\ cursor \in Nat /\ cursor + 1 \in 1 .. messages
  BY MirrorSendFacts DEF Typed, ShownFits
<1>2. ShownFits'
  <2>1. CASE mirrored' = mirrored
    BY <1>0, <2>1 DEF Typed, ShownFits, db
  <2>2. CASE mirrored' = [mirrored EXCEPT ![c] = Append(mirrored[c], cursor + 1)]
    <3> DEFINE s == mirrored[c]
               t == Append(s, cursor + 1)
    <3>1. s \in Seq(1 .. messages) /\ Len(s) \in Nat /\ \A i \in 1 .. Len(s) : i <= s[i] /\ s[i] <= cursor
      BY <1>0, <1>1 DEF Typed, ShownFits, ShownBehind
    <3>2. /\ t \in Seq(1 .. messages) /\ Len(t) = Len(s) + 1
          /\ \A i \in 1 .. Len(s) : t[i] = s[i]
          /\ t[Len(s) + 1] = cursor + 1
      <4> HIDE DEF s
      <4> QED BY <1>1, <3>1, Appended
    <3> HIDE DEF s, t
    <3>3. Len(s) <= cursor
      <4>1. CASE Len(s) = 0
        BY <1>1, <4>1
      <4>2. CASE Len(s) # 0
        <5>1. Len(s) \in 1 .. Len(s)
          BY <3>1, <4>2
        <5>2. s[Len(s)] \in 1 .. messages
          BY <3>1, <5>1, Element
        <5>3. Len(s) <= s[Len(s)] /\ s[Len(s)] <= cursor
          BY <3>1, <5>1
        <5> QED BY <1>1, <3>1, <5>2, <5>3, Numbers, SMTT(30)
      <4> QED BY <4>1, <4>2
    <3>4. \A i \in 1 .. Len(t) : i <= t[i]
      <4> SUFFICES ASSUME NEW i \in 1 .. Len(t) PROVE i <= t[i]
        OBVIOUS
      <4>1. i \in 1 .. Len(s) \/ i = Len(s) + 1
        BY <3>1, <3>2
      <4> QED BY <1>1, <3>1, <3>2, <3>3, <4>1
    <3>5. mirrored' = [mirrored EXCEPT ![c] = t] /\ s = mirrored[c]
      BY <2>2 DEF s, t
    <3>6. mirrored' \in [Chats -> Seq(1 .. messages)]
      BY <1>1, <3>2, <3>5
    <3>7. \A d \in Chats : \A i \in 1 .. Len(mirrored'[d]) : i <= mirrored'[d][i]
      BY <1>1, <3>4, <3>5 DEF Typed, ShownFits
    <3> QED BY <1>0, <3>6, <3>7 DEF ShownFits, db
  <2> QED BY <2>1, <2>2, MirrorSendFacts
<1>3. BatchFits' /\ RowsFit' /\ Due' = Due
  BY <1>0 DEF Typed, BatchFits, RowsFit, Due, bot, db, incoming
<1>4. sentTo' \subseteq Chats
  BY <1>0 DEF Typed
<1> QED BY <1>0, <1>2, <1>3, <1>4 DEF Typed, bot, db, incoming

LEMMA ProcessTyped ==
  ASSUME Typed, Crash \/ Restart
  PROVE  Typed'
<1>0. /\ UNCHANGED <<bot, db, handled, mirrored>>
      /\ up' \in BOOLEAN /\ crashes' \in 0 .. MaxCrashes
  <2>1. crashes \in 0 .. MaxCrashes /\ MaxCrashes \in Nat
    BY Numbers DEF Typed
  <2>2. crashes' = crashes \/ (crashes' = crashes + 1 /\ crashes < MaxCrashes)
    BY DEF Crash, Restart
  <2>3. crashes' \in 0 .. MaxCrashes
    BY <2>1, <2>2
  <2> QED BY <2>3 DEF Crash, Restart
<1>1. <<>> \in Seq(Ids) /\ <<>> \in Seq(1 .. messages) /\ Len(<<>>) = 0
  OBVIOUS
<1>2. ShownFits'
  BY <1>0 DEF Typed, ShownFits, db
<1>3. CASE Crash
  <2>1. /\ pc' = "poll" /\ offset' = 0 /\ batch' = <<>> /\ at' = 0 /\ chatIds' = {}
        /\ cursor' = 0 /\ rows' = <<>> /\ sentTo' = {}
    BY <1>3 DEF Crash
  <2>2. Due' = confirmed + 1
    BY <1>0, <2>1 DEF Due, bot
  <2>3. confirmed \in Nat /\ confirmed <= Len(updates)
    BY DEF Typed
  <2>4. BatchFits'
    BY <1>0, <1>1, <2>1, <2>2, <2>3, Numbers DEF BatchFits, bot
  <2>5. RowsFit'
    BY <1>0, <1>1, <2>1, Numbers DEF RowsFit, db
  <2>6. at' < Due'
    BY <2>1, <2>2, <2>3
  <2> QED BY <1>0, <1>2, <2>1, <2>4, <2>5, <2>6 DEF Typed, bot, db
<1>4. CASE Restart
  <2>1. cursor' = messages /\ UNCHANGED <<bot, db, incoming, rows, sentTo, handled, mirrored, said, crashes>>
    BY <1>4 DEF Restart, StartFromLast
  <2>2. rows = <<>> /\ up'
    BY <1>4 DEF Restart, Typed
  <2>4. RowsFit'
    BY <1>1, <2>1, <2>2, Numbers DEF RowsFit, db
  <2>3. BatchFits' /\ Due' = Due
    BY <2>1 DEF Typed, BatchFits, Due, bot, incoming
  <2> QED BY <1>0, <1>2, <2>1, <2>2, <2>3, <2>4, Numbers DEF Typed, bot, db, incoming
<1> QED BY <1>3, <1>4

LEMMA StutterTyped == Typed /\ UNCHANGED vars => Typed'
<1> SUFFICES ASSUME Typed, UNCHANGED vars PROVE Typed'
  OBVIOUS
<1>1. BatchFits' /\ RowsFit' /\ ShownFits' /\ Due' = Due
  BY DEF vars, Typed, BatchFits, RowsFit, ShownFits, Due, bot, db, incoming, mirror
<1> QED BY <1>1 DEF vars, Typed, bot, db, incoming, mirror

LEMMA TypedStep == Typed /\ ShownBehind /\ [Next]_vars => Typed'
BY UserWritesTyped, DirectorPostsTyped, PageCommandTyped, PollUpdatesTyped, TakeUpdateTyped, IncomingTyped,
   MirrorPageTyped,
   MirrorNextTyped, MirrorSendTyped, ProcessTyped, StutterTyped DEF Next, Incoming, Mirror

\* What each step does to what the chats have been shown, and to where the mirror is.
LEMMA ShownStep ==
  ASSUME Typed, [Next]_vars
  PROVE  \/ mirrored' = mirrored /\ UNCHANGED <<up, cursor, sentTo>>
         \/ mirrored' = mirrored /\ up' = up /\ cursor' = cursor + 1
         \/ mirrored' = mirrored /\ ~up'
         \/ mirrored' = mirrored /\ cursor' = messages /\ UNCHANGED messages
         \/ \E c \in Chats : MirrorSend(c)
<1>1. CASE MirrorNext
  BY <1>1, MirrorNextTyped DEF MirrorNext
<1>2. CASE Restart
  BY <1>2 DEF Restart, StartFromLast, db
<1>3. CASE ~MirrorNext /\ ~Restart
  BY <1>3 DEF Next, vars, Incoming, Mirror, UserWrites, DirectorPosts, PageCommand, PollUpdates,
     TakeUpdate, BatchDone, ApproveEnds, Reply,
              MirrorPage, Crash, mirror
<1> QED BY <1>1, <1>2, <1>3

LEMMA ShownBehindStep == Typed /\ ShownBehind /\ [Next]_vars => ShownBehind'
<1> SUFFICES ASSUME Typed, ShownBehind, [Next]_vars, up', NEW c \in Chats, NEW i \in 1 .. Len(mirrored'[c])
             PROVE  mirrored'[c][i] <= IF c \in sentTo' THEN cursor' + 1 ELSE cursor'
  BY DEF ShownBehind
<1>0. cursor \in Nat /\ mirrored \in [Chats -> Seq(1 .. messages)] /\ messages \in Nat
  BY Numbers DEF Typed, ShownFits
<1>1. ASSUME mirrored' = mirrored
      PROVE  /\ mirrored'[c][i] \in 1 .. messages
             /\ up => mirrored'[c][i] <= IF c \in sentTo THEN cursor + 1 ELSE cursor
  BY <1>0, <1>1, Element DEF ShownBehind
<1>2. CASE mirrored' = mirrored /\ UNCHANGED <<up, cursor, sentTo>>
  BY <1>1, <1>2
<1>3. CASE mirrored' = mirrored /\ up' = up /\ cursor' = cursor + 1
  BY <1>0, <1>1, <1>3
<1>4. CASE mirrored' = mirrored /\ cursor' = messages /\ UNCHANGED messages
  BY <1>0, <1>1, <1>4
<1>5. ASSUME NEW d \in Chats, MirrorSend(d) PROVE mirrored'[c][i] <= IF c \in sentTo' THEN cursor' + 1 ELSE cursor'
  <2>1. up /\ cursor' = cursor /\ sentTo' = sentTo \cup {d} /\ d \notin sentTo
    BY <1>5 DEF MirrorSend
  <2>2. CASE mirrored'[c] = mirrored[c]
    <3>1. mirrored[c][i] \in 1 .. messages
      BY <1>0, <2>2, Element
    <3>2. mirrored[c][i] <= IF c \in sentTo THEN cursor + 1 ELSE cursor
      BY <2>1, <2>2 DEF ShownBehind
    <3> QED BY <1>0, <2>1, <2>2, <3>1, <3>2
  <2>3. CASE c = d /\ mirrored'[c] = Append(mirrored[c], cursor + 1)
    <3> DEFINE s == mirrored[c]
    <3>1. s \in Seq(1 .. messages) /\ cursor + 1 \in 1 .. messages
      BY <1>0, <1>5, MirrorSendFacts
    <3>2. \A j \in 1 .. Len(s) : s[j] <= cursor
      BY <2>1, <2>3 DEF ShownBehind
    <3> HIDE DEF s
    <3>3. /\ Len(Append(s, cursor + 1)) = Len(s) + 1 /\ Len(s) \in Nat
          /\ \A j \in 1 .. Len(s) : Append(s, cursor + 1)[j] = s[j]
          /\ Append(s, cursor + 1)[Len(s) + 1] = cursor + 1
      BY <3>1, Appended
    <3>4. mirrored'[c] = Append(s, cursor + 1)
      BY <2>3 DEF s
    <3>5. i \in 1 .. Len(s) \/ i = Len(s) + 1
      BY <3>3, <3>4
    <3>6. i \in 1 .. Len(s) => s[i] <= cursor /\ s[i] \in 1 .. messages
      BY <3>1, <3>2, Element
    <3>7. mirrored'[c][i] <= cursor + 1
      BY <1>0, <3>3, <3>4, <3>5, <3>6
    <3> QED BY <2>1, <2>3, <3>7
  <2>4. mirrored'[c] = mirrored[c] \/ (c = d /\ mirrored'[c] = Append(mirrored[c], cursor + 1))
    BY <1>0, <1>5, MirrorSendFacts
  <2> QED BY <2>2, <2>3, <2>4
<1> QED BY <1>2, <1>3, <1>4, <1>5, ShownStep

LEMMA MirrorInOrderStep == Typed /\ ShownBehind /\ MirrorInOrder /\ [Next]_vars => MirrorInOrder'
<1> SUFFICES ASSUME Typed, ShownBehind, MirrorInOrder, [Next]_vars, NEW c \in Chats,
                    NEW i \in DOMAIN mirrored'[c], NEW j \in DOMAIN mirrored'[c], i < j
             PROVE  mirrored'[c][i] < mirrored'[c][j]
  BY DEF MirrorInOrder
<1>0. cursor \in Nat /\ mirrored \in [Chats -> Seq(1 .. messages)] /\ messages \in Nat
  BY Numbers DEF Typed, ShownFits
<1>1. CASE mirrored'[c] = mirrored[c]
  BY <1>1 DEF MirrorInOrder
<1>2. ASSUME MirrorSend(c), mirrored'[c] = Append(mirrored[c], cursor + 1) PROVE mirrored'[c][i] < mirrored'[c][j]
  <2> DEFINE s == mirrored[c]
  <2>1. s \in Seq(1 .. messages) /\ cursor + 1 \in 1 .. messages
    BY <1>0, <1>2, MirrorSendFacts
  <2>2. \A k \in 1 .. Len(s) : s[k] <= cursor
    BY <1>2 DEF ShownBehind, MirrorSend
  <2>3. \A k, m \in 1 .. Len(s) : k < m => s[k] < s[m]
    BY <2>1 DEF MirrorInOrder
  <2> HIDE DEF s
  <2>4. /\ Len(Append(s, cursor + 1)) = Len(s) + 1 /\ Len(s) \in Nat
        /\ Append(s, cursor + 1) \in Seq(1 .. messages)
        /\ \A k \in 1 .. Len(s) : Append(s, cursor + 1)[k] = s[k]
        /\ Append(s, cursor + 1)[Len(s) + 1] = cursor + 1
    BY <2>1, Appended
  <2>5. mirrored'[c] = Append(s, cursor + 1)
    BY <1>2 DEF s
  <2>6. i \in 1 .. Len(s) + 1 /\ j \in 1 .. Len(s) + 1
    BY <2>4, <2>5
  <2>7. i \in 1 .. Len(s) /\ s[i] \in 1 .. messages
    <3>1. i \in 1 .. Len(s)
      BY <2>4, <2>6
    <3> QED BY <2>1, <3>1, Element
  <2>8. CASE j = Len(s) + 1
    <3>1. mirrored'[c][i] = s[i] /\ mirrored'[c][j] = cursor + 1 /\ s[i] <= cursor
      BY <2>2, <2>4, <2>5, <2>7, <2>8
    <3> QED BY <1>0, <2>7, <3>1
  <2>9. CASE j \in 1 .. Len(s)
    BY <2>3, <2>4, <2>5, <2>7, <2>9
  <2> QED BY <2>4, <2>6, <2>8, <2>9
<1>3. mirrored'[c] = mirrored[c] \/ (MirrorSend(c) /\ mirrored'[c] = Append(mirrored[c], cursor + 1))
  <2>1. mirrored' = mirrored \/ \E d \in Chats : MirrorSend(d)
    BY ShownStep
  <2> QED BY <1>0, <2>1, MirrorSendFacts
<1> QED BY <1>1, <1>2, <1>3

\* MirrorInOrder: whatever chats join, fail or are lost, what each is shown is in order and not repeated.
THEOREM MirrorKeepsOrder == Spec => []MirrorInOrder
<1>1. Init => Typed /\ ShownBehind /\ MirrorInOrder
  <2>1. Init => ShownBehind /\ MirrorInOrder
    BY DEF Init, ShownBehind, MirrorInOrder
  <2> QED BY <2>1, InitTyped
<1>2. (Typed /\ ShownBehind /\ MirrorInOrder) /\ [Next]_vars => (Typed /\ ShownBehind /\ MirrorInOrder)'
  BY TypedStep, ShownBehindStep, MirrorInOrderStep
<1> QED BY <1>1, <1>2, PTL DEF Spec

LEMMA SaidStep == Typed /\ SaidTyped /\ [Next]_vars => SaidTyped'
<1> SUFFICES ASSUME Typed, SaidTyped, [Next]_vars PROVE SaidTyped'
  OBVIOUS
<1>1. CASE TakeUpdate
  BY <1>1, TakeFacts DEF SaidTyped, Said, said
<1>2. CASE ~TakeUpdate
  BY <1>2 DEF SaidTyped, Next, vars, said, Incoming, Mirror, UserWrites, DirectorPosts, PageCommand,
     PollUpdates, BatchDone,
              ApproveEnds, Reply, MirrorPage, MirrorNext, MirrorSend, Crash, Restart
<1> QED BY <1>1, <1>2

\* TypeOK, lengths included: a chat is shown no more messages than there are, for they ascend.
THEOREM TypeCorrect == Spec => []TypeOK
<1>1. Typed /\ SaidTyped => TypeOK
  <2> SUFFICES ASSUME Typed, SaidTyped PROVE TypeOK
    OBVIOUS
  <2>1. updates \in BoundedSeq(Update, MaxUpdates)
    BY Numbers, Bounded DEF Typed
  <2>2. batch \in BoundedSeq(Ids, MaxUpdates)
    <3>1. Len(batch) <= MaxUpdates
      BY Numbers DEF Typed, BatchFits
    <3> QED BY <3>1, Numbers, Bounded DEF Typed, BatchFits
  <2>3. 1 .. messages \subseteq 1 .. MaxMessages /\ messages <= MaxMessages
    BY Numbers DEF Typed
  <2>4. rows \in BoundedSeq(1 .. MaxMessages, PageSize)
    <3>1. rows \in Seq(1 .. MaxMessages)
      BY <2>3, Wider DEF Typed, RowsFit
    <3> QED BY <3>1, Numbers, Bounded DEF Typed, RowsFit
  <2>5. mirrored \in [Chats -> BoundedSeq(1 .. MaxMessages, MaxMessages)]
    <3> SUFFICES ASSUME NEW c \in Chats PROVE mirrored[c] \in BoundedSeq(1 .. MaxMessages, MaxMessages)
      BY DEF Typed, ShownFits
    <3> DEFINE s == mirrored[c]
    <3>1. s \in Seq(1 .. messages) /\ Len(s) \in Nat /\ \A i \in 1 .. Len(s) : i <= s[i]
      BY DEF Typed, ShownFits
    <3> HIDE DEF s
    <3>2. s \in Seq(1 .. MaxMessages)
      BY <2>3, <3>1, Wider
    <3>3. Len(s) <= MaxMessages
      <4>1. CASE Len(s) = 0
        BY <4>1, Numbers
      <4>2. CASE Len(s) # 0
        <5>1. Len(s) \in 1 .. Len(s)
          BY <3>1, <4>2
        <5>2. Len(s) <= s[Len(s)]
          BY <3>1, <5>1
        <5>3. s[Len(s)] \in 1 .. MaxMessages
          BY <3>2, <5>1, Element
        <5> QED BY <3>1, <5>2, <5>3, Numbers
      <4> QED BY <4>1, <4>2
    <3>4. s \in BoundedSeq(1 .. MaxMessages, MaxMessages)
      BY <3>2, <3>3, Numbers, Bounded
    <3> QED BY <3>4 DEF s
  <2>6. /\ confirmed \in 0 .. MaxUpdates /\ offset \in 0 .. MaxUpdates + 1 /\ at \in 0 .. MaxUpdates
        /\ cursor \in 0 .. MaxMessages
    <3>1. confirmed \in Nat /\ at \in Nat /\ cursor \in Nat /\ offset \in Nat /\ at < Due
          /\ confirmed <= Len(updates) /\ cursor + Len(rows) <= messages
      BY DEF Typed, RowsFit
    <3>2. offset = 0 \/ offset = Due
      BY DEF Due
    <3> QED BY <2>3, <3>1, <3>2, Numbers, SMTT(30)
  <2> QED BY <2>1, <2>2, <2>4, <2>5, <2>6 DEF TypeOK, Typed, SaidTyped, Update
<1>2. Init => Typed /\ ShownBehind /\ SaidTyped
  <2>1. Init => ShownBehind
    BY DEF Init, ShownBehind
  <2>2. Init => SaidTyped
    BY DEF Init, SaidTyped
  <2> QED BY <2>1, <2>2, InitTyped
<1>3. (Typed /\ ShownBehind /\ SaidTyped) /\ [Next]_vars => (Typed /\ ShownBehind /\ SaidTyped)'
  BY TypedStep, ShownBehindStep, SaidStep
<1> QED BY <1>1, <1>2, <1>3, PTL DEF Spec

-----------------------------------------------------------------------------
(* The operator's messages *)

LEMMA BehindStep == Typed /\ Behind /\ [Next]_vars => Behind'
<1> SUFFICES ASSUME Typed, Behind, [Next]_vars PROVE Behind'
  OBVIOUS
<1>1. CASE TakeUpdate
  <2>1. Due' = Due + 1 /\ Due \in Nat \ {0} /\ confirmed' = confirmed /\ pc = "take"
    BY <1>1, TakeFacts, Numbers DEF bot, TakeUpdate
  <2>2. handled \subseteq handled' /\ (Due \in handled' \/ (pc' = "approve" /\ at' = Due))
    BY <1>1, TakeFacts DEF HandleUpdate
  <2>3. \A u \in 1 .. Due - 1 : u \in handled
    BY <2>1 DEF Behind
  <2>4. ASSUME NEW u \in 1 .. Due' - 1 PROVE u \in handled' \/ (pc' = "approve" /\ u = at')
    <3>1. u \in 1 .. Due - 1 \/ u = Due
      BY <2>1
    <3> QED BY <2>2, <2>3, <3>1
  <2> QED BY <2>1, <2>2, <2>4 DEF Behind
<1>2. CASE PollUpdates
  <2>1. Due' = Due /\ handled' = handled /\ pc = "poll"
    BY <1>2, PollUpdatesTyped DEF PollUpdates
  <2>2. \A u \in 1 .. Due - 1 : u \in handled
    BY <2>1 DEF Behind
  <2>3. confirmed' = Due - 1
    BY <1>2, Numbers DEF PollUpdates, Due, Typed
  <2> QED BY <2>1, <2>2, <2>3 DEF Behind
<1>3. CASE Crash
  <2>1. Due' = confirmed + 1 /\ confirmed' = confirmed /\ handled' = handled /\ confirmed \in Nat
    BY <1>3 DEF Crash, Due, bot, Typed
  <2>2. Due' - 1 = confirmed
    BY <2>1
  <2> QED BY <2>1, <2>2 DEF Behind
<1>4. CASE BatchDone \/ ApproveEnds \/ Reply
  <2>1. Due' = Due /\ confirmed' = confirmed
    BY <1>4, IncomingTyped DEF BatchDone, ApproveEnds, Reply, bot
  <2>2. handled \subseteq handled' /\ (pc = "approve" => at \in handled')
    BY <1>4 DEF BatchDone, ApproveEnds, Reply
  <2> QED BY <2>1, <2>2 DEF Behind
<1>5. CASE ~TakeUpdate /\ ~PollUpdates /\ ~Crash /\ ~(BatchDone \/ ApproveEnds \/ Reply)
  <2>1. UNCHANGED <<confirmed, offset, handled, pc, at>>
    BY <1>5 DEF Next, vars, Incoming, Mirror, UserWrites, DirectorPosts, PageCommand, MirrorPage,
       MirrorNext, MirrorSend, Restart, incoming, bot
  <2> QED BY <2>1 DEF Behind, Due
<1> QED BY <1>1, <1>2, <1>3, <1>4, <1>5

\* NothingLost: an update Telegram has forgotten was dealt with.
THEOREM NothingIsLost == Spec => []NothingLost
<1>1. Init => Typed /\ ShownBehind /\ Behind
  <2>1. Init => ShownBehind
    BY DEF Init, ShownBehind
  <2>2. Init => Behind
    BY DEF Init, Behind, Due
  <2> QED BY <2>1, <2>2, InitTyped
<1>2. (Typed /\ ShownBehind /\ Behind) /\ [Next]_vars => (Typed /\ ShownBehind /\ Behind)'
  BY TypedStep, ShownBehindStep, BehindStep
<1>3. Behind => NothingLost
  BY DEF Behind, NothingLost
<1> QED BY <1>1, <1>2, <1>3, PTL DEF Spec

-----------------------------------------------------------------------------
(* The switch *)

\* Only taking an update and the page move the switch.
LEMMA SwitchStep ==
  ASSUME [Next]_vars, ~TakeUpdate, ~\E kind \in Kinds \cap {"pause", "resume"} : PageCommand(kind)
  PROVE  /\ UNCHANGED <<paused, said>>
         /\ updates' = updates \/ \E kind \in Kinds, c \in Chats : UserWrites(kind, c)
BY DEF Next, vars, Incoming, Mirror, UserWrites, DirectorPosts, PollUpdates, BatchDone, ApproveEnds, Reply,
       MirrorPage, MirrorNext, MirrorSend, Crash, Restart, db, bot

\* Messages behind k do not matter to what the commands up to k say.
LEMMA SaysSame ==
  ASSUME Typed, NEW k \in 0 .. Len(updates), SwitchSays(k), paused' = paused,
         updates' = updates \/ \E kind \in Kinds, c \in Chats : UserWrites(kind, c)
  PROVE  SwitchSays(k)' /\ k <= Len(updates')
<1>0. updates \in Seq(Update) /\ Len(updates) \in Nat
  BY Numbers DEF Typed
<1>1. CASE updates' = updates
  BY <1>0, <1>1 DEF SwitchSays, PauseCommands
<1>2. ASSUME NEW kind \in Kinds, NEW c \in Chats, UserWrites(kind, c)
      PROVE  SwitchSays(k)' /\ k <= Len(updates')
  <2> DEFINE e == [kind |-> kind, chat |-> c]
  <2>1. e \in Update /\ updates' = Append(updates, e)
    BY <1>2 DEF Update, UserWrites
  <2> HIDE DEF e
  <2>2. Len(updates') = Len(updates) + 1 /\ \A u \in 1 .. Len(updates) : updates'[u] = updates[u]
    BY <1>0, <2>1, Appended
  <2>3. DOMAIN updates = 1 .. Len(updates) /\ DOMAIN updates' = 1 .. Len(updates')
    <3>1. updates' \in Seq(Update)
      BY <1>0, <2>1, Appended
    <3> QED BY <1>0, <3>1
  <2>4. \A u \in 1 .. k : u \in PauseCommands' <=> u \in PauseCommands
    BY <1>0, <2>2, <2>3 DEF PauseCommands
  <2>5. ASSUME NEW u \in PauseCommands', u <= k, \A v \in PauseCommands' : v <= k => v <= u
        PROVE  paused = (updates'[u].kind = "pause")
    <3>1. u \in 1 .. k /\ u \in 1 .. Len(updates)
      BY <1>0, <2>3, <2>5 DEF PauseCommands
    <3>2. u \in PauseCommands
      BY <2>4, <3>1
    <3>3. \A v \in PauseCommands : v <= k => v <= u
      <4>1. \A v \in PauseCommands : v <= k => v \in 1 .. k
        BY <1>0, <2>3 DEF PauseCommands
      <4> QED BY <2>4, <2>5, <4>1
    <3>4. paused = (updates[u].kind = "pause")
      BY <2>5, <3>2, <3>3 DEF SwitchSays
    <3> QED BY <2>2, <3>1, <3>4
  <2>6. SwitchSays(k)'
    BY <2>5 DEF SwitchSays
  <2> QED BY <1>0, <2>2, <2>6
<1> QED BY <1>1, <1>2

\* Where taking an update leads.
LEMMA TakenFacts ==
  ASSUME Typed, TakeUpdate, NEW d \in Nat, d = Due
  PROVE  /\ d \in DOMAIN updates /\ Due' = d + 1 /\ updates' = updates
         /\ d <= Len(updates) /\ Len(updates') \in Nat /\ DOMAIN updates = 1 .. Len(updates) /\ d >= 1
         /\ PauseCommands' = PauseCommands /\ PauseCommands \subseteq Nat
         /\ paused' = IF updates[d].kind \in {"pause", "resume"} THEN updates[d].kind = "pause" ELSE paused
<1>1. d \in DOMAIN updates /\ Due' = d + 1 /\ updates' = updates
  BY TakeFacts DEF bot
<1>2. DOMAIN updates = 1 .. Len(updates)
  BY DEF Typed
<1>3. PauseCommands' = PauseCommands /\ PauseCommands \subseteq Nat
  BY <1>1, <1>2 DEF PauseCommands
<1>4. paused' = IF updates[d].kind \in {"pause", "resume"} THEN updates[d].kind = "pause" ELSE paused
  BY TakeFacts DEF HandleUpdate, PausedAfter
<1> QED BY <1>1, <1>2, <1>3, <1>4, Numbers

\* A command that is taken has the last word up to there, whatever was said before.
LEMMA CommandTaken ==
  ASSUME Typed, TakeUpdate, updates[Due].kind \in {"pause", "resume"}
  PROVE  SwitchFits'
<1> PICK d \in Nat : d = Due
  BY Numbers
<1>1. /\ d \in DOMAIN updates /\ Due' = d + 1 /\ updates' = updates
      /\ d <= Len(updates) /\ Len(updates') \in Nat /\ DOMAIN updates = 1 .. Len(updates) /\ d >= 1
      /\ PauseCommands' = PauseCommands /\ PauseCommands \subseteq Nat
      /\ paused' = (updates[d].kind = "pause")
  BY TakenFacts
<1>2. d \in PauseCommands
  BY <1>1 DEF PauseCommands
<1>3. ASSUME NEW u \in PauseCommands, u <= d, \A v \in PauseCommands : v <= d => v <= u
      PROVE  paused' = (updates[u].kind = "pause")
  <2>1. d <= u
    BY <1>2, <1>3
  <2>2. u = d
    BY <1>1, <1>3, <2>1
  <2> QED BY <1>1, <2>2
<1>4. SwitchSays(d)'
  BY <1>1, <1>3 DEF SwitchSays
<1>5. d \in Due' - 1 .. Len(updates')
  BY <1>1
<1> QED BY <1>4, <1>5 DEF SwitchFits

\* Anything else that is taken changes nothing.
LEMMA OtherTaken ==
  ASSUME Typed, SwitchFits, TakeUpdate, updates[Due].kind \notin {"pause", "resume"}
  PROVE  SwitchFits'
<1> PICK d \in Nat : d = Due
  BY Numbers
<1> PICK k \in d - 1 .. Len(updates) : SwitchSays(k)
  BY DEF SwitchFits
<1>1. /\ d \in DOMAIN updates /\ Due' = d + 1 /\ updates' = updates
      /\ d <= Len(updates) /\ Len(updates') \in Nat /\ DOMAIN updates = 1 .. Len(updates) /\ d >= 1
      /\ PauseCommands' = PauseCommands /\ PauseCommands \subseteq Nat
      /\ paused' = paused
  BY TakenFacts
<1>2. k \in 0 .. Len(updates) /\ d - 1 <= k /\ k <= Len(updates')
  BY <1>1, Numbers
<1>3. CASE k # d - 1
  <2>1. SwitchSays(k)'
    BY <1>1, <1>2, <1>3, SaysSame
  <2>2. k \in Due' - 1 .. Len(updates')
    BY <1>1, <1>2, <1>3
  <2> QED BY <2>1, <2>2 DEF SwitchFits
<1>4. CASE k = d - 1
  <2>1. d \notin PauseCommands
    BY DEF PauseCommands
  <2>2. \A u \in PauseCommands : u <= d <=> u <= k
    BY <1>1, <1>4, <2>1
  <2>3. SwitchSays(d)
    BY <2>2 DEF SwitchSays
  <2>4. d \in 0 .. Len(updates)
    BY <1>1, Numbers
  <2>5. SwitchSays(d)'
    BY <1>1, <1>4, <2>3, <2>4, SaysSame
  <2>6. d \in Due' - 1 .. Len(updates')
    BY <1>1
  <2> QED BY <2>5, <2>6 DEF SwitchFits
<1> QED BY <1>3, <1>4

\* Only a message that is taken brings the bridge further.
LEMMA DueStep ==
  ASSUME Typed, [Next]_vars, ~TakeUpdate
  PROVE  Due' \in Nat /\ Due' <= Due
<1>0. Due \in Nat /\ confirmed \in Nat /\ confirmed < Due
  BY Numbers DEF Typed
<1>1. CASE offset' = offset /\ confirmed' = confirmed
  <2>1. Due' = Due
    BY <1>1 DEF Due
  <2> QED BY <1>0, <2>1
<1>2. CASE PollUpdates \/ BatchDone \/ ApproveEnds \/ Reply
  BY <1>0, <1>2, PollUpdatesTyped, IncomingTyped
<1>3. CASE Crash
  <2>1. offset' = 0 /\ confirmed' = confirmed
    BY <1>3 DEF Crash, bot
  <2>2. Due' = confirmed + 1
    BY <2>1 DEF Due
  <2> QED BY <1>0, <2>2
<1>4. CASE ~(PollUpdates \/ BatchDone \/ ApproveEnds \/ Reply) /\ ~Crash
  <2>1. offset' = offset /\ confirmed' = confirmed
    BY <1>4 DEF Next, vars, Incoming, Mirror, UserWrites, DirectorPosts, PageCommand, MirrorPage,
       MirrorNext, MirrorSend,
                Restart, incoming, bot
  <2> QED BY <1>1, <2>1
<1> QED BY <1>2, <1>3, <1>4

LEMMA Between ==
  ASSUME NEW d \in Nat, NEW e \in Nat, e <= d, NEW m \in Nat, NEW k \in Int, d - 1 <= k, k <= m
  PROVE  k \in e - 1 .. m
OBVIOUS

\* Neither side speaks.
LEMMA SwitchStays ==
  ASSUME Typed, ShownBehind, SwitchFits, [Next]_vars, ~TakeUpdate, ~\E kind \in Kinds \cap {"pause", "resume"} : PageCommand(kind)
  PROVE  SwitchFits'
<1>1. PICK k \in Due - 1 .. Len(updates) : SwitchSays(k)
  BY DEF SwitchFits
<1>2. k \in 0 .. Len(updates) /\ k \in Int /\ Due - 1 <= k /\ Due \in Nat
  BY <1>1, Numbers
<1>3. SwitchSays(k)' /\ k <= Len(updates')
  BY <1>1, <1>2, SwitchStep, SaysSame
<1>4. Due' \in Nat /\ Due' <= Due
  BY DueStep
<1>5. Len(updates') \in Nat
  BY TypedStep, Numbers DEF Typed
<1>6. k \in Due' - 1 .. Len(updates')
  BY <1>2, <1>3, <1>4, <1>5, Between
<1> QED BY <1>3, <1>6 DEF SwitchFits

LEMMA TakenOnceStep == Typed /\ TakenOnce /\ [Next]_vars => TakenOnce'
<1> SUFFICES ASSUME Typed, TakenOnce, [Next]_vars, crashes' = 0 PROVE handled' \subseteq 1 .. Due' - 1
  BY DEF TakenOnce
<1>1. ~Crash /\ crashes = 0
  <2>1. crashes \in Nat
    BY TelegramConstants DEF Typed
  <2>2. crashes' = crashes \/ crashes' = crashes + 1
    BY DEF Next, vars, Incoming, Mirror, UserWrites, DirectorPosts, PageCommand, PollUpdates, TakeUpdate,
       BatchDone,
           ApproveEnds, Reply, MirrorPage, MirrorNext, MirrorSend, Crash, Restart
  <2> QED BY <2>1, <2>2 DEF Crash
<1>2. handled \subseteq 1 .. Due - 1 /\ Due \in Nat \ {0}
  BY <1>1, Numbers DEF TakenOnce
<1>3. CASE TakeUpdate
  <2>1. handled' \subseteq handled \cup {Due} /\ Due' = Due + 1
    BY <1>3, TakeFacts DEF HandleUpdate
  <2> QED BY <1>2, <2>1
<1>4. CASE BatchDone \/ ApproveEnds \/ Reply
  <2>1. Due' = Due
    BY <1>4, IncomingTyped
  <2>2. handled' = handled \/ (handled' = handled \cup {at} /\ pc = "approve")
    BY <1>4 DEF BatchDone, ApproveEnds, Reply
  <2>3. pc = "approve" => at \in 1 .. Due - 1
    BY <1>2 DEF Typed
  <2> QED BY <1>2, <2>1, <2>2, <2>3
<1>5. CASE PollUpdates
  BY <1>2, <1>5, PollUpdatesTyped DEF PollUpdates
<1>6. CASE ~TakeUpdate /\ ~(BatchDone \/ ApproveEnds \/ Reply) /\ ~PollUpdates
  <2>1. UNCHANGED <<confirmed, offset, handled>>
    BY <1>1, <1>6 DEF Next, vars, Incoming, Mirror, UserWrites, DirectorPosts, PageCommand, MirrorPage,
       MirrorNext,
                      MirrorSend, Restart, incoming, bot
  <2> QED BY <1>2, <2>1 DEF Due
<1> QED BY <1>3, <1>4, <1>5, <1>6

LEMMA WordFitsStep == Typed /\ ShownBehind /\ TakenOnce /\ WordFits /\ [Next]_vars => WordFits'
<1> SUFFICES ASSUME Typed, ShownBehind, TakenOnce, WordFits, [Next]_vars PROVE WordFits'
  OBVIOUS
<1>0. crashes \in Nat
  BY TelegramConstants DEF Typed
<1>1. ASSUME NEW kind \in Kinds \cap {"pause", "resume"}, PageCommand(kind) PROVE WordFits'
  BY <1>1 DEF PageCommand, WordFits
<1>2. CASE TakeUpdate
  <2> DEFINE kind == updates[Due].kind
  <2>1. Said(Due) /\ crashes' = crashes
    BY <1>2, TakeFacts
  <2>2. CASE kind \in {"pause", "resume"}
    <3>1. /\ pageWord' = IF Due \notin handled THEN "none" ELSE pageWord
          /\ undone' = (Due \in handled /\ pageWord # "none")
      BY <2>1, <2>2 DEF Said
    <3>2. Due \in handled => crashes > 0
      BY <1>0, Numbers DEF TakenOnce
    <3>3. SwitchFits'
      BY <1>2, <2>2, CommandTaken
    <3> QED BY <2>1, <3>1, <3>2, <3>3 DEF WordFits
  <2>3. CASE kind \notin {"pause", "resume"}
    <3>1. UNCHANGED said
      BY <2>1, <2>3 DEF Said
    <3>2. paused' = paused
      BY <1>2, <2>3, Numbers, TakenFacts
    <3>3. SwitchFits => SwitchFits'
      BY <1>2, <2>3, OtherTaken
    <3> QED BY <2>1, <3>1, <3>2, <3>3 DEF WordFits, said
  <2> QED BY <2>2, <2>3
<1>3. CASE ~TakeUpdate /\ ~\E kind \in Kinds \cap {"pause", "resume"} : PageCommand(kind)
  <2>1. UNCHANGED <<paused, pageWord, undone>>
    BY <1>3, SwitchStep DEF said
  <2>2. SwitchFits => SwitchFits'
    BY <1>3, SwitchStays
  <2>3. crashes > 0 => crashes' > 0
    <3>1. crashes' = crashes \/ crashes' = crashes + 1
      BY DEF Next, vars, Incoming, Mirror, UserWrites, DirectorPosts, PageCommand, PollUpdates, TakeUpdate,
         BatchDone,
             ApproveEnds, Reply, MirrorPage, MirrorNext, MirrorSend, Crash, Restart
    <3> QED BY <1>0, <3>1
  <2> QED BY <2>1, <2>2, <2>3 DEF WordFits
<1> QED BY <1>1, <1>2, <1>3

\* LastWordHolds: with all confirmed, the last /pause or /resume is what holds, of the page or of the chat (the bridge's
\* handlePause, the page's runSlashCommand); only the page's may have been overruled, by one that Telegram repeated
\* after a crash.
THEOREM LastWordIsKept == Spec => []LastWordHolds
<1>1. Init => Typed /\ ShownBehind /\ TakenOnce /\ WordFits
  <2>1. Init => ShownBehind
    BY DEF Init, ShownBehind
  <2>2. Init => TakenOnce /\ WordFits
    <3> SUFFICES ASSUME Init PROVE TakenOnce /\ WordFits
      OBVIOUS
    <3>1. Due - 1 = 0 /\ Len(updates) = 0 /\ PauseCommands = {}
      BY DEF Init, Due, PauseCommands
    <3>2. SwitchFits
      BY <3>1 DEF SwitchFits, SwitchSays
    <3> QED BY <3>2 DEF Init, TakenOnce, WordFits
  <2> QED BY <2>1, <2>2, InitTyped
<1>2. (Typed /\ ShownBehind /\ TakenOnce /\ WordFits) /\ [Next]_vars
        => (Typed /\ ShownBehind /\ TakenOnce /\ WordFits)'
  BY TypedStep, ShownBehindStep, TakenOnceStep, WordFitsStep
<1>3. Typed /\ WordFits => LastWordHolds
  <2> SUFFICES ASSUME Typed, WordFits, Len(updates) = confirmed PROVE
        IF pageWord # "none"
          THEN paused = (pageWord = "pause") \/ (undone /\ crashes > 0)
          ELSE \A u \in PauseCommands : (\A v \in PauseCommands : v <= u) => paused = (updates[u].kind = "pause")
    BY DEF LastWordHolds
  <2>1. CASE pageWord # "none"
    BY <2>1 DEF WordFits
  <2>2. CASE pageWord = "none"
    <3>1. SwitchSays(Len(updates))
      BY <2>2, Numbers DEF WordFits, SwitchFits
    <3>2. \A u \in PauseCommands : u <= Len(updates)
      BY Numbers DEF PauseCommands, Typed
    <3> QED BY <2>2, <3>1, <3>2 DEF SwitchSays
  <2> QED BY <2>1, <2>2
<1> QED BY <1>1, <1>2, <1>3, PTL DEF Spec
=============================================================================
