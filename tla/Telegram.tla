------------------------------ MODULE Telegram ------------------------------
(***************************************************************************)
(* The Telegram bridge of the director (director/telegram.ts): one loop    *)
(* takes the operator's messages from the Bot API and acts on them, one    *)
(* carries what the director and the system write in the chat to every     *)
(* Telegram chat that has spoken since the start.  Where the bridge has    *)
(* got to is in memory only; Telegram repeats an update until a later      *)
(* getUpdates confirms it.                                                 *)
(*                                                                         *)
(* Updates and messages are numbered from 1, as their ids are.             *)
(***************************************************************************)
EXTENDS Naturals, Sequences, FiniteSets, SequencesExt

CONSTANTS
  Chats,       \* the Telegram chats of the allowed users
  PageSize,    \* LIMIT of a round of the mirror
  \* bounds on what the world does
  Kinds,       \* what the users write
  MaxUpdates, MaxMessages, MaxCrashes

ASSUME TelegramConstants ==
  /\ Kinds \subseteq {"text", "pause", "resume", "approve", "reject", "help", "stranger"}
  /\ {PageSize, MaxUpdates, MaxMessages} \subseteq Nat \ {0} /\ MaxCrashes \in Nat

VARIABLES
  updates,    \* what was written to the bot: kind and chat
  confirmed,  \* Telegram forgets the updates up to here
  \* the database
  directives, \* how often the text of an update was recorded as a directive
  paused,     \* director_budget_state.paused
  outcome,    \* of the one decision the commands are about
  messages,   \* how many messages of the director and the system there are
  \* the bridge
  up,
  pc,         \* of the incoming loop
  offset,     \* the id it will ask for
  batch,      \* the updates of the last answer that are still to be taken
  at,         \* the update being handled
  chatIds,
  cursor,     \* lastMirroredMessageId
  rows,       \* the messages of the round that are still to be sent
  sentTo,     \* the chats that the first of them was sent to
  \* history, for the properties and the bounds
  handled,    \* updates that were acted upon, or refused
  mirrored,   \* what reached each chat, in order
  pageWord,   \* "pause" or "resume" of the chat page, until the chat says something new
  undone,     \* an update that was repeated has turned the switch since the page spoke
  crashes

bot == <<updates, confirmed>>
db == <<directives, paused, outcome, messages>>
incoming == <<pc, offset, batch, at, chatIds>>
mirror == <<cursor, rows, sentTo>>
said == <<pageWord, undone>>
vars == <<bot, db, up, incoming, mirror, handled, mirrored, said, crashes>>

Ids == 1 .. MaxUpdates

TypeOK ==
  /\ updates \in BoundedSeq([kind : Kinds, chat : Chats], MaxUpdates)
  /\ confirmed \in 0 .. MaxUpdates
  /\ directives \in [Ids -> Nat] /\ paused \in BOOLEAN
  /\ outcome \in {"pending", "executed", "rejected"}
  /\ messages \in 0 .. MaxMessages
  /\ up \in BOOLEAN /\ pc \in {"poll", "take", "approve", "reply", "complain"}
  /\ offset \in 0 .. MaxUpdates + 1 /\ at \in 0 .. MaxUpdates
  /\ batch \in BoundedSeq(Ids, MaxUpdates) /\ chatIds \subseteq Chats
  /\ cursor \in 0 .. MaxMessages /\ rows \in BoundedSeq(1 .. MaxMessages, PageSize)
  /\ sentTo \subseteq Chats
  /\ handled \subseteq Ids /\ crashes \in 0 .. MaxCrashes
  /\ pageWord \in {"none", "pause", "resume"} /\ undone \in BOOLEAN
  /\ mirrored \in [Chats -> BoundedSeq(1 .. MaxMessages, MaxMessages)]

Init ==
  /\ updates = <<>> /\ confirmed = 0
  /\ directives = [u \in Ids |-> 0] /\ paused = FALSE
  /\ outcome = "pending" /\ messages = 0
  /\ up = TRUE /\ pc = "poll" /\ offset = 0 /\ batch = <<>> /\ at = 0 /\ chatIds = {}
  /\ cursor = 0 /\ rows = <<>> /\ sentTo = {}
  /\ handled = {} /\ mirrored = [c \in Chats |-> <<>>] /\ crashes = 0
  /\ pageWord = "none" /\ undone = FALSE

-----------------------------------------------------------------------------
(* The world *)

UserWrites(kind, chat) ==
  /\ Len(updates) < MaxUpdates
  /\ updates' = Append(updates, [kind |-> kind, chat |-> chat])
  /\ UNCHANGED <<confirmed, db, up, incoming, mirror, handled, mirrored, said, crashes>>

\* A tick, a digest, a command of the chat page, an approval or rejection, one from here
\* included.
DirectorPosts ==
  /\ messages < MaxMessages
  /\ messages' = messages + 1
  /\ UNCHANGED <<bot, directives, paused, outcome, up, incoming, mirror, handled, mirrored, said, crashes>>

\* /pause or /resume on the chat page of the main service, which is up while the bridge is
\* not; that the page says so in the chat is DirectorPosts.
PageCommand(kind) ==
  /\ paused' = (kind = "pause")
  /\ pageWord' = kind /\ undone' = FALSE
  /\ UNCHANGED <<bot, directives, outcome, messages, up, incoming, mirror, handled, mirrored, crashes>>

-----------------------------------------------------------------------------
(* The incoming loop *)

\* getUpdates: asking for an id confirms the ones before it.  The request may time out
\* after Telegram has confirmed them; the loop asks again.
PollUpdates ==
  LET seen == IF offset = 0 THEN confirmed ELSE offset - 1 IN
  /\ up /\ pc = "poll"
  /\ confirmed' = seen
  /\ \/ /\ batch' = [i \in 1 .. Len(updates) - seen |-> seen + i]
        /\ batch' # <<>>
        /\ pc' = "take"
     \/ UNCHANGED <<batch, pc>>
  /\ UNCHANGED <<updates, db, up, offset, at, chatIds, mirror, handled, mirrored, said, crashes>>

\* (mutant) Both commands turn the switch over.
TurnedOver(kind) == IF kind \in {"pause", "resume"} THEN ~paused ELSE paused

PausedAfter(kind) == CASE kind = "pause" -> TRUE [] kind = "resume" -> FALSE [] OTHER -> paused

\* What handleIncoming does before its first await: a directive is recorded, the director
\* paused or resumed, the decision rejected; an approval begins.
HandleUpdate(u) ==
  LET kind == updates[u].kind IN
  /\ directives' = IF kind = "text" THEN [directives EXCEPT ![u] = @ + 1] ELSE directives
  /\ paused' = PausedAfter(kind)
  /\ outcome' = IF kind = "reject" /\ outcome = "pending" THEN "rejected" ELSE outcome
  /\ IF kind = "approve" /\ outcome = "pending"
       THEN pc' = "approve" /\ UNCHANGED handled
       ELSE pc' = "reply" /\ handled' = handled \cup {u}

\* History: a command that is taken for the first time has the last word; one that Telegram
\* repeats goes over the page's.
Said(u) ==
  LET new == u \notin handled IN
  IF updates[u].kind \in {"pause", "resume"}
    THEN /\ pageWord' = IF new THEN "none" ELSE pageWord
         /\ undone' = (~new /\ pageWord # "none")
    ELSE UNCHANGED said

\* (mutant) The offset is moved past the whole answer at once.
OffsetPastBatch(u) == offset' = Last(batch) + 1

AdvanceOffset(u) == offset' = IF offset < u + 1 THEN u + 1 ELSE offset

TakeUpdate ==
  /\ up /\ pc = "take" /\ batch # <<>>
  /\ LET u == Head(batch) IN
     /\ AdvanceOffset(u)
     /\ batch' = Tail(batch)
     /\ Said(u)
     /\ IF updates[u].kind = "stranger"
          THEN handled' = handled \cup {u} /\ UNCHANGED <<directives, paused, outcome, pc, at, chatIds>>
          ELSE at' = u /\ chatIds' = chatIds \cup {updates[u].chat} /\ HandleUpdate(u)
  /\ UNCHANGED <<bot, messages, up, mirror, mirrored, crashes>>

BatchDone ==
  /\ up /\ pc = "take" /\ batch = <<>>
  /\ pc' = "poll"
  /\ UNCHANGED <<bot, db, up, offset, batch, at, chatIds, mirror, handled, mirrored, said, crashes>>

\* approveDecision has been awaited; the page may have rejected the decision meanwhile.
ApproveEnds ==
  /\ up /\ pc = "approve"
  /\ outcome' = "executed"
  /\ handled' = handled \cup {at}
  /\ pc' = "reply"
  /\ UNCHANGED <<bot, directives, paused, messages, up, offset, batch, at, chatIds, mirror,
                 mirrored, said, crashes>>

\* The reply is sent; or it fails, and so the message about the error is sent; or that
\* fails too, and the rest of the answer is given up until the next getUpdates.
Reply ==
  /\ up /\ pc \in {"reply", "complain"}
  /\ \/ pc' = "take" /\ at' = 0 /\ UNCHANGED batch
     \/ pc = "reply" /\ pc' = "complain" /\ UNCHANGED <<batch, at>>
     \/ pc = "complain" /\ pc' = "poll" /\ at' = 0 /\ batch' = <<>>
  /\ UNCHANGED <<bot, db, up, offset, chatIds, mirror, handled, mirrored, said, crashes>>

-----------------------------------------------------------------------------
(* The mirror *)

MirrorPage ==
  LET to == IF messages < cursor + PageSize THEN messages ELSE cursor + PageSize IN
  /\ up /\ rows = <<>> /\ chatIds # {}
  /\ cursor < messages
  /\ rows' = [i \in 1 .. to - cursor |-> cursor + i]
  /\ UNCHANGED <<bot, db, up, incoming, cursor, sentTo, handled, mirrored, said, crashes>>

\* One chat; a send that fails is logged.  What Telegram refuses it has not shown: the same text
\* without Markdown, which sendMessage tries then, is the same send.
MirrorSend(c) ==
  /\ up /\ rows # <<>> /\ c \in chatIds \ sentTo
  /\ sentTo' = sentTo \cup {c}
  /\ \/ mirrored' = [mirrored EXCEPT ![c] = Append(@, Head(rows))]
     \/ UNCHANGED mirrored
  /\ UNCHANGED <<bot, db, up, incoming, cursor, rows, handled, said, crashes>>

MirrorNext ==
  /\ up /\ rows # <<>> /\ chatIds \subseteq sentTo
  /\ cursor' = Head(rows)
  /\ rows' = Tail(rows)
  /\ sentTo' = {}
  /\ UNCHANGED <<bot, db, up, incoming, handled, mirrored, said, crashes>>

-----------------------------------------------------------------------------
(* The process *)

Crash ==
  /\ up /\ crashes < MaxCrashes
  /\ up' = FALSE
  /\ crashes' = crashes + 1
  /\ pc' = "poll" /\ offset' = 0 /\ batch' = <<>> /\ at' = 0 /\ chatIds' = {}
  /\ cursor' = 0 /\ rows' = <<>> /\ sentTo' = {}
  /\ UNCHANGED <<bot, db, handled, mirrored, said>>

\* (mutant) The mirror begins with the first message there is.
StartFromFirst == cursor' = 0

StartFromLast == cursor' = messages

Restart ==
  /\ ~up
  /\ up' = TRUE
  /\ StartFromLast
  /\ UNCHANGED <<bot, db, incoming, rows, sentTo, handled, mirrored, said, crashes>>

Incoming == PollUpdates \/ TakeUpdate \/ BatchDone \/ ApproveEnds \/ Reply

Mirror == MirrorPage \/ MirrorNext \/ \E c \in Chats : MirrorSend(c)

Next ==
  \/ \E kind \in Kinds, c \in Chats : UserWrites(kind, c)
  \/ DirectorPosts
  \/ \E kind \in Kinds \cap {"pause", "resume"} : PageCommand(kind)
  \/ Incoming \/ Mirror \/ Crash \/ Restart

Spec == Init /\ [][Next]_vars

-----------------------------------------------------------------------------
\* Telegram has forgotten only what the bridge has acted upon: a crash in the middle of an
\* answer or replies that fail lose none of the operator's messages.
NothingLost == 1 .. confirmed \subseteq handled

\* What each chat is shown is in the order it was written and nothing twice, although
\* the cursor is lost with the process and chats join in the middle of a round.
MirrorInOrder ==
  \A c \in Chats : \A i, j \in DOMAIN mirrored[c] : i < j => mirrored[c][i] < mirrored[c][j]

PauseCommands == {u \in DOMAIN updates : updates[u].kind \in {"pause", "resume"}}

\* When all is confirmed the director is paused as the operator said last, on the page or in
\* Telegram, whatever Telegram repeated.  The page alone may be overruled: where it spoke after
\* the bridge had acted on a command, a crash before the next getUpdates makes the bridge take
\* that command again.
LastWordHolds ==
  Len(updates) = confirmed =>
    IF pageWord # "none"
      THEN paused = (pageWord = "pause") \/ (undone /\ crashes > 0)
      ELSE \A u \in PauseCommands :
             (\A v \in PauseCommands : v <= u) => paused = (updates[u].kind = "pause")
=============================================================================
