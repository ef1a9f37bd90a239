----------------------------- MODULE Playground -----------------------------
(***************************************************************************)
(* The chat playground of the web front end: the conversation shown on the *)
(* page, the answer on its way (a server-sent event stream or one request),*)
(* the chunks waiting for the next flush, the message editor, and the copy *)
(* of the conversation kept in the browser's storage.                      *)
(*                                                                         *)
(* Every handler runs to its end before the next one, and React renders in *)
(* between: an action is a whole handler.  The key of an assistant message *)
(* also names the request sent for it.  A text is a sequence of the keys   *)
(* of the requests its pieces came from, or Notice for text that no        *)
(* request produced (an error, an edit).  Reasoning text takes the same    *)
(* path as content and is not kept apart.                                  *)
(***************************************************************************)
EXTENDS Naturals, Sequences, SequencesExt

CONSTANTS
    Modes,             \* values config.stream may have
    ChunkSizes,        \* lengths of the chunks of a stream
    MaxStored,         \* MAX_STORED_MESSAGES
    MaxStoredChars,    \* MAX_STORED_MESSAGES_BYTES
    MaxLoadedChars,    \* MAX_LOADED_MESSAGES_CHARS
    MaxMessageChars,   \* MAX_LOADED_MESSAGE_CHARS
    MaxKey,            \* bound on messages created
    MaxChunks,         \* bound on the chunks of an answer
    MaxVisits,         \* bound on leaving and reloading the page
    MaxSaveFaults      \* bound on writes the storage refuses

ASSUME PlaygroundAssumption ==
    /\ Modes \subseteq BOOLEAN /\ Modes # {}
    /\ ChunkSizes \subseteq Nat \ {0}
    /\ MaxStored \in Nat \ {0} /\ MaxMessageChars \in Nat \ {0}
    /\ MaxStoredChars \in Nat /\ MaxLoadedChars \in Nat
    /\ MaxKey \in Nat /\ MaxChunks \in Nat /\ MaxVisits \in Nat
    /\ MaxSaveFaults \in Nat

VARIABLES
    messages,    \* the conversation shown
    loaded,      \* hasLoadedMessagesRef
    editing,     \* editingMessageKey, or None
    dirty,       \* the editor holds a changed text
    stream,      \* config.stream
    source,      \* sseSourceRef: the key it answers and whether it is open
    pending,     \* pendingStreamChunksRef
    flushTimer,  \* streamFlushTimerRef # null
    requesting,  \* isRequesting
    calls,       \* requests in flight: key and whether aborted
    requestId,   \* requestIdRef
    controller,  \* abortControllerRef: the key of its request, or None
    saved,       \* the messages in localStorage
    saveTimer,   \* messagesSaveTimerRef # null
    stale,       \* the storage does not hold what this page saved last
    nextKey,     \* the next message key
    chunks,      \* chunks received of the current stream
    visits,      \* pages left or reloaded
    left,        \* exchanges that go on although their page was left
    late,        \* conversations a page that was left may still write
    crossed,     \* an edit was submitted while an answer was on its way
    faults

editor == <<editing, dirty>>
net == <<source, pending, flushTimer, chunks>>
request == <<requesting, calls, requestId, controller>>
store == <<saved, saveTimer, stale, faults>>
past == <<visits, left, late, crossed>>
vars == <<messages, loaded, editor, stream, net, request, store, nextKey, past>>

None == 0
Notice == 0
NoSource == [ex |-> None, open |-> FALSE]
isStreaming == source # NoSource
isGenerating == isStreaming \/ requesting

Final == {"complete", "error"}
Pending == {"loading", "streaming"}

createUserMessage(k) ==
    [key |-> k, from |-> "user", status |-> "none", text |-> <<Notice>>]
createLoadingAssistantMessage(k) ==
    [key |-> k, from |-> "assistant", status |-> "loading", text |-> <<>>]

-----------------------------------------------------------------------------
(* Updates of one message and of the last one.                             *)

getAppendableChunk(cur, chunk) ==
    IF cur # <<>> /\ IsPrefix(cur, chunk)
    THEN SubSeq(chunk, Len(cur) + 1, Len(chunk))
    ELSE chunk

mergePendingStreamChunk(cur, chunk) ==
    IF cur = <<>> \/ ~IsPrefix(cur, chunk) THEN cur \o chunk ELSE chunk

applyStreamingChunk(m, chunk) ==
    IF m.status = "error" THEN m
    ELSE [m EXCEPT !.text = @ \o getAppendableChunk(@, chunk),
                   !.status = "streaming"]

applyChatCompletionResponse(m, text) == [m EXCEPT !.text = text, !.status = "complete"]

completeAssistantMessage(m) == [m EXCEPT !.status = "complete"]

isAssistantMessageFinal(m) == m.status \in Final
isAssistantMessagePending(m) == m.status \in Pending

(* updated is what the updater makes of the last message.                  *)
updateLastAssistantMessage(ms, updated) ==
    IF ms # <<>> /\ Last(ms).from = "assistant"
    THEN [ms EXCEPT ![Len(ms)] = updated]
    ELSE ms

updateAssistantMessageWithError(ms) ==
    updateLastAssistantMessage(ms,
        [Last(ms) EXCEPT !.text = <<Notice>>, !.status = "error"])

(* The conversation after flushStreamUpdates.                              *)
flushed ==
    IF pending = <<>> THEN messages
    ELSE updateLastAssistantMessage(messages,
             applyStreamingChunk(Last(messages), pending))

FlushStreamUpdates == pending' = <<>> /\ flushTimer' = FALSE

-----------------------------------------------------------------------------
(* Storage.                                                                *)

trimMessages(ms) ==
    IF Len(ms) <= MaxStored THEN ms
    ELSE SubSeq(ms, Len(ms) - MaxStored + 1, Len(ms))

SizeOf(ms) == FoldSeq(LAMBDA m, n : n + Len(m.text), 0, ms)

truncateText(text) ==
    IF Len(text) <= MaxMessageChars THEN text
    ELSE SubSeq(text, 1, MaxMessageChars - 1) \o <<Notice>>

normalizeStoredMessageForLoad(m) ==
    LET short == [m EXCEPT !.text = truncateText(@)]
    IN  IF isAssistantMessagePending(short) /\ short.text # <<>>
        THEN completeAssistantMessage(short) ELSE short

(* The longest suffix that fits, and never less than the last message.     *)
trimMessagesByContentSize(ms) ==
    LET Suffix(i) == SubSeq(ms, i, Len(ms))
        fits == {i \in 1 .. Len(ms) :
                    i = Len(ms) \/ SizeOf(Suffix(i)) <= MaxLoadedChars}
    IN  IF ms = <<>> THEN ms
        ELSE Suffix(CHOOSE i \in fits : \A j \in fits : i <= j)

(* Mutant: a message stuck without text is left as it is.                  *)
SanitizeNothing(ms) == ms

(* Only the last pending message is repaired.                              *)
sanitizeMessagesOnLoad(ms) ==
    LET stuck == {i \in 1 .. Len(ms) : isAssistantMessagePending(ms[i])}
        target == CHOOSE i \in stuck : \A j \in stuck : j <= i
    IN  IF stuck = {} THEN ms
        ELSE [ms EXCEPT ![target] =
                 IF @.text # <<>> THEN completeAssistantMessage(@)
                 ELSE [@ EXCEPT !.text = <<Notice>>, !.status = "error"]]

loadMessages(ms) ==
    IF SizeOf(ms) > MaxStoredChars THEN <<>>
    ELSE LET normalized == [i \in 1 .. Len(ms) |-> normalizeStoredMessageForLoad(ms[i])]
         IN  sanitizeMessagesOnLoad(trimMessagesByContentSize(trimMessages(normalized)))

saveMessages(ms) ==
    \/ /\ saved' = trimMessages(ms) /\ stale' = FALSE
       /\ UNCHANGED faults
    \/ /\ faults < MaxSaveFaults
       /\ faults' = faults + 1 /\ stale' = TRUE
       /\ UNCHANGED saved

(* Mutant: a pending save is cancelled and not scheduled again.            *)
UpdateCancelsSave(ms) ==
    /\ messages' = ms
    /\ saveTimer' = (loaded /\ ~saveTimer)
    /\ UNCHANGED <<saved, stale, faults>>

(* updateMessages: show ms, restart the save timer.  The editor takes the  *)
(* text of the message again whenever the messages change.                 *)
updateMessages(ms) ==
    /\ messages' = ms
    /\ saveTimer' = (loaded \/ saveTimer)
    /\ UNCHANGED <<saved, stale, faults>>

-----------------------------------------------------------------------------
(* Requests.                                                               *)

sendStreamingChat(k) ==
    /\ requesting' = TRUE
    /\ source' = [ex |-> k, open |-> TRUE]
    /\ chunks' = 0
    /\ UNCHANGED <<pending, flushTimer, calls, requestId, controller>>

sendNonStreamingChat(k) ==
    /\ requestId' = k /\ controller' = k /\ requesting' = TRUE
    /\ calls' = calls \cup {[ex |-> k, aborted |-> FALSE]}
    /\ UNCHANGED net

sendChat(k) == IF stream THEN sendStreamingChat(k) ELSE sendNonStreamingChat(k)

handleSendMessage ==
    /\ loaded /\ (~isGenerating \/ messages = <<>>)
    /\ nextKey + 1 <= MaxKey
    /\ updateMessages(messages \o <<createUserMessage(nextKey),
                                    createLoadingAssistantMessage(nextKey + 1)>>)
    /\ sendChat(nextKey + 1)
    /\ nextKey' = nextKey + 2
    /\ dirty' = FALSE
    /\ UNCHANGED <<loaded, editing, stream, past>>

(* Regenerate, or Retry on an error: cut behind the message, ask again.    *)
createRegeneratedMessages(i) ==
    SubSeq(messages, 1, IF messages[i].from = "user" THEN i ELSE i - 1)
        \o <<createLoadingAssistantMessage(nextKey)>>

handleRegenerateMessage(i) ==
    /\ loaded /\ ~isGenerating
    /\ messages[i].text # <<>>
    /\ nextKey <= MaxKey
    /\ updateMessages(createRegeneratedMessages(i))
    /\ sendChat(nextKey)
    /\ nextKey' = nextKey + 1
    /\ dirty' = FALSE
    /\ UNCHANGED <<loaded, editing, stream, past>>

handleEditMessage(i) ==
    /\ loaded /\ ~isGenerating
    /\ messages[i].text # <<>>
    /\ editing' = messages[i].key /\ dirty' = FALSE
    /\ UNCHANGED <<messages, loaded, stream, net, request, store, nextKey, past>>

TypeInEditor ==
    /\ \E i \in DOMAIN messages : messages[i].key = editing
    /\ ~dirty /\ dirty' = TRUE
    /\ UNCHANGED <<messages, loaded, editing, stream, net, request, store, nextKey, past>>

CancelEdit ==
    /\ editing # None
    /\ editing' = None /\ dirty' = FALSE
    /\ UNCHANGED <<messages, loaded, stream, net, request, store, nextKey, past>>

(* Save: the editor does not ask whether an answer is on its way.          *)
SaveEdit(i) ==
    /\ messages[i].key = editing /\ dirty
    /\ updateMessages([messages EXCEPT ![i].text = <<Notice>>])
    /\ editing' = None /\ dirty' = FALSE
    /\ UNCHANGED <<loaded, stream, net, request, nextKey, past>>

SaveEditAndSubmit(i) ==
    /\ messages[i].key = editing /\ dirty /\ messages[i].from = "user"
    /\ nextKey <= MaxKey
    /\ updateMessages(SubSeq(messages, 1, i) \o <<createLoadingAssistantMessage(nextKey)>>)
    /\ sendChat(nextKey)
    /\ nextKey' = nextKey + 1
    /\ editing' = None /\ dirty' = FALSE
    /\ crossed' = (crossed \/ isGenerating)
    /\ UNCHANGED <<loaded, stream, visits, left, late>>

handleDeleteMessage(i) ==
    /\ loaded /\ ~isGenerating
    /\ updateMessages(RemoveAt(messages, i))
    /\ dirty' = FALSE
    /\ UNCHANGED <<loaded, editing, stream, net, request, nextKey, past>>

handleClearMessages ==
    /\ loaded /\ ~isGenerating /\ messages # <<>>
    /\ updateMessages(<<>>)
    /\ editing' = None /\ dirty' = FALSE
    /\ UNCHANGED <<loaded, stream, net, request, nextKey, past>>

-----------------------------------------------------------------------------
(* Answers.                                                                *)

answerFrame == <<loaded, editing, stream, nextKey, past>>

KeepEditor == dirty' = (dirty /\ messages' = messages)

(* A message of the stream that carries text.                              *)
handleStreamUpdate(n) ==
    /\ source.open /\ chunks < MaxChunks
    /\ pending' = mergePendingStreamChunk(pending, [i \in 1 .. n |-> source.ex])
    /\ flushTimer' = TRUE
    /\ chunks' = chunks + 1
    /\ UNCHANGED <<messages, dirty, source, request, store>>
    /\ UNCHANGED answerFrame

flushTimerFires ==
    /\ flushTimer
    /\ FlushStreamUpdates
    /\ IF pending = <<>> THEN UNCHANGED <<messages, store>> ELSE updateMessages(flushed)
    /\ KeepEditor
    /\ UNCHANGED <<source, chunks, request>>
    /\ UNCHANGED answerFrame

(* Mutant: isRequesting is not reset.                                      *)
CompleteStillRequesting ==
    /\ source.open
    /\ source' = NoSource
    /\ FlushStreamUpdates
    /\ updateMessages(updateLastAssistantMessage(flushed,
           completeAssistantMessage(Last(flushed))))
    /\ KeepEditor
    /\ UNCHANGED <<chunks, request>>
    /\ UNCHANGED answerFrame

(* [DONE].                                                                 *)
handleStreamComplete ==
    /\ source.open
    /\ source' = NoSource
    /\ FlushStreamUpdates
    /\ requesting' = FALSE
    /\ updateMessages(updateLastAssistantMessage(flushed,
           IF isAssistantMessageFinal(Last(flushed)) THEN Last(flushed)
           ELSE completeAssistantMessage(Last(flushed))))
    /\ KeepEditor
    /\ UNCHANGED <<chunks, calls, requestId, controller>>
    /\ UNCHANGED answerFrame

(* An error event, a message that does not parse, a stream that does not   *)
(* start.                                                                  *)
handleStreamError ==
    /\ source.open
    /\ FlushStreamUpdates
    /\ requesting' = FALSE
    /\ updateMessages(updateAssistantMessageWithError(flushed))
    /\ source' = NoSource
    /\ KeepEditor
    /\ UNCHANGED <<chunks, calls, requestId, controller>>
    /\ UNCHANGED answerFrame

(* The server closes the connection, status 200, without [DONE]: none of   *)
(* the listeners acts on it.                                               *)
closedWithoutDone ==
    /\ source.open
    /\ source' = [source EXCEPT !.open = FALSE]
    /\ UNCHANGED <<messages, dirty, pending, flushTimer, chunks, request, store>>
    /\ UNCHANGED answerFrame

(* Mutant: without the test of requestId.                                  *)
FinishAnyCall(c, requestingNow) ==
    /\ calls' = calls \ {c}
    /\ controller' = None /\ requesting' = FALSE
    /\ UNCHANGED requestId

(* The finally block of sendNonStreamingChat.                              *)
FinishCall(c, requestingNow) ==
    /\ calls' = calls \ {c}
    /\ IF requestId = c.ex
       THEN controller' = None /\ requesting' = FALSE
       ELSE requesting' = requestingNow /\ UNCHANGED controller
    /\ UNCHANGED requestId

callAborted(c) ==
    /\ c.aborted
    /\ FinishCall(c, requesting)
    /\ UNCHANGED <<messages, dirty, net, store>>
    /\ UNCHANGED answerFrame

(* n is the length of the answer: it may be empty.                         *)
callAnswered(c, n) ==
    /\ ~c.aborted
    /\ updateMessages(updateLastAssistantMessage(messages,
           applyChatCompletionResponse(Last(messages), [i \in 1 .. n |-> c.ex])))
    /\ FinishCall(c, requesting)
    /\ KeepEditor
    /\ UNCHANGED net
    /\ UNCHANGED answerFrame

(* The request failed or the response has no choice.                       *)
callFailed(c) ==
    /\ ~c.aborted
    /\ FlushStreamUpdates
    /\ updateMessages(updateAssistantMessageWithError(flushed))
    /\ FinishCall(c, FALSE)
    /\ KeepEditor
    /\ UNCHANGED <<source, chunks>>
    /\ UNCHANGED answerFrame

(* Mutant: chunks that wait are not flushed.                               *)
StopWithoutFlush ==
    /\ isGenerating
    /\ source' = NoSource
    /\ calls' = {[c EXCEPT !.aborted = @ \/ c.ex = controller] : c \in calls}
    /\ controller' = None
    /\ requesting' = FALSE
    /\ updateMessages(updateLastAssistantMessage(messages,
           IF isAssistantMessagePending(Last(messages))
           THEN completeAssistantMessage(Last(messages)) ELSE Last(messages)))
    /\ KeepEditor
    /\ UNCHANGED <<pending, flushTimer, chunks, requestId>>
    /\ UNCHANGED answerFrame

stopGeneration ==
    /\ isGenerating
    /\ source' = NoSource
    /\ FlushStreamUpdates
    /\ calls' = {[c EXCEPT !.aborted = @ \/ c.ex = controller] : c \in calls}
    /\ controller' = None
    /\ requesting' = FALSE
    /\ updateMessages(updateLastAssistantMessage(flushed,
           IF isAssistantMessagePending(Last(flushed))
           THEN completeAssistantMessage(Last(flushed)) ELSE Last(flushed)))
    /\ KeepEditor
    /\ UNCHANGED <<chunks, requestId>>
    /\ UNCHANGED answerFrame

-----------------------------------------------------------------------------
(* The page comes and goes.                                                *)

saveTimerFires ==
    /\ saveTimer
    /\ saveTimer' = FALSE
    /\ saveMessages(messages)
    /\ UNCHANGED <<messages, loaded, editor, stream, net, request, nextKey, past>>

(* State of a component that has just been mounted, with refs of its own.  *)
Mounted ==
    /\ messages' = <<>> /\ loaded' = FALSE
    /\ editing' = None /\ dirty' = FALSE
    /\ source' = NoSource /\ pending' = <<>> /\ flushTimer' = FALSE /\ chunks' = 0
    /\ requesting' = FALSE /\ calls' = {} /\ requestId' = None /\ controller' = None
    /\ saveTimer' = FALSE
    /\ visits' = visits + 1
    /\ UNCHANGED <<stream, nextKey, crossed>>

Runs == (IF source.open THEN {source.ex} ELSE {})
            \cup {c.ex : c \in {d \in calls : ~d.aborted}}

(* What a callback of the exchange k may still bring: chunks, with those   *)
(* that wait (the clean-up leaves them), or an answer.                     *)
LateTexts(k) ==
    IF stream
    THEN {mergePendingStreamChunk(pending, [i \in 1 .. n |-> k]) : n \in ChunkSizes}
             \cup ({pending} \ {<<>>})
    ELSE {[i \in 1 .. n |-> k] : n \in {0, 1}}

LateMessages(text) ==
    updateLastAssistantMessage(messages,
        IF stream THEN applyStreamingChunk(Last(messages), text)
        ELSE applyChatCompletionResponse(Last(messages), text))

(* Navigation inside the application.  The clean-ups clear the timers and  *)
(* make up for a pending save; the stream and the requests go on.  React   *)
(* drops the updates of a component that is gone, but may compute the      *)
(* first of them, and its updater sets the save timer again.               *)
leavePage ==
    /\ visits < MaxVisits /\ loaded
    /\ Mounted
    /\ IF saveTimer THEN saveMessages(messages) ELSE UNCHANGED <<saved, stale, faults>>
    /\ left' = left \cup Runs
    /\ late' \in {late} \cup
           {late \cup {LateMessages(text)} : text \in UNION {LateTexts(k) : k \in Runs}}

(* The save timer of a page that was left.                                 *)
leftPageSaves(ms) ==
    /\ late' = late \ {ms}
    /\ saved' = trimMessages(ms) /\ stale' = TRUE
    /\ UNCHANGED <<messages, loaded, editor, stream, net, request, saveTimer, faults,
                   nextKey, visits, left, crossed>>

leftExchangeEnds(k) ==
    /\ left' = left \ {k}
    /\ UNCHANGED <<messages, loaded, editor, stream, net, request, store,
                   nextKey, visits, late, crossed>>

(* The browser reloads or ends: nothing runs.                              *)
reloadPage ==
    /\ visits < MaxVisits /\ loaded
    /\ Mounted
    /\ left' = {} /\ late' = {}
    /\ UNCHANGED <<saved, stale, faults>>

(* trimMessagesByContentSize builds a new array, so loading always writes  *)
(* unless nothing is stored; a conversation that is too large is removed.  *)
loadOnMount ==
    /\ ~loaded /\ loaded' = TRUE
    /\ messages' = loadMessages(saved)
    /\ IF saved = <<>> \/ SizeOf(saved) > MaxStoredChars
       THEN saved' = <<>> /\ stale' = FALSE /\ UNCHANGED faults
       ELSE saveMessages(messages')
    /\ UNCHANGED <<editor, stream, net, request, saveTimer, nextKey, past>>

-----------------------------------------------------------------------------

Init ==
    /\ messages = <<>> /\ loaded = FALSE
    /\ editing = None /\ dirty = FALSE
    /\ stream \in Modes
    /\ source = NoSource /\ pending = <<>> /\ flushTimer = FALSE /\ chunks = 0
    /\ requesting = FALSE /\ calls = {} /\ requestId = None /\ controller = None
    /\ saved = <<>> /\ saveTimer = FALSE /\ stale = FALSE /\ faults = 0
    /\ nextKey = 1
    /\ visits = 0 /\ left = {} /\ late = {} /\ crossed = FALSE

User ==
    \/ handleSendMessage \/ TypeInEditor \/ CancelEdit
    \/ handleClearMessages \/ stopGeneration
    \/ \E i \in DOMAIN messages :
        \/ handleRegenerateMessage(i) \/ handleEditMessage(i)
        \/ SaveEdit(i) \/ SaveEditAndSubmit(i) \/ handleDeleteMessage(i)

StreamEnds == handleStreamComplete \/ handleStreamError \/ closedWithoutDone

CallEnds(c) == callAborted(c) \/ callFailed(c) \/ \E n \in {0, 1} : callAnswered(c, n)

Next ==
    \/ User
    \/ \E n \in ChunkSizes : handleStreamUpdate(n)
    \/ flushTimerFires
    \/ StreamEnds
    \/ \E c \in calls : CallEnds(c)
    \/ saveTimerFires
    \/ leavePage \/ reloadPage \/ loadOnMount
    \/ \E ms \in late : leftPageSaves(ms)
    \/ \E k \in left : leftExchangeEnds(k)

Spec == Init /\ [][Next]_vars

(* Timers fire, and the server and the network end every stream and every  *)
(* request at some time.                                                   *)
Fairness ==
    /\ WF_vars(flushTimerFires)
    /\ WF_vars(saveTimerFires)
    /\ WF_vars(loadOnMount)
    /\ WF_vars(StreamEnds)
    /\ WF_vars(\E c \in calls : CallEnds(c))

FairSpec == Spec /\ Fairness
-----------------------------------------------------------------------------
(* Properties.                                                             *)

Keys == 1 .. MaxKey
Message ==
    [key : Keys, from : {"user", "assistant"},
     status : {"none"} \cup Pending \cup Final, text : Seq(Keys \cup {Notice})]

(* The variables have their types.                                         *)
TypeOK ==
    /\ messages \in Seq(Message) /\ saved \in Seq(Message)
    /\ loaded \in BOOLEAN /\ dirty \in BOOLEAN /\ stream \in BOOLEAN
    /\ editing \in Keys \cup {None}
    /\ source \in [ex : Keys \cup {None}, open : BOOLEAN]
    /\ pending \in Seq(Keys) /\ flushTimer \in BOOLEAN /\ chunks \in 0 .. MaxChunks
    /\ requesting \in BOOLEAN /\ calls \subseteq [ex : Keys, aborted : BOOLEAN]
    /\ requestId \in Keys \cup {None} /\ controller \in Keys \cup {None}
    /\ saveTimer \in BOOLEAN /\ stale \in BOOLEAN /\ faults \in 0 .. MaxSaveFaults
    /\ nextKey \in 1 .. MaxKey + 1 /\ visits \in 0 .. MaxVisits
    /\ left \subseteq Keys /\ late \subseteq Seq(Message) /\ crossed \in BOOLEAN

(* The text of an answer ends up in the message it was asked for: chunks   *)
(* that wait for the flush timer and answers that arrive late are applied  *)
(* to "the last assistant message", whichever that is by then              *)
(* (use-chat-handler.ts, flushStreamUpdates and sendNonStreamingChat).     *)
AnswerInOwnMessage ==
    \A i \in DOMAIN messages :
        messages[i].from = "assistant" =>
            Range(messages[i].text) \subseteq {messages[i].key, Notice}

(* A message is shown as loading or streaming only as the last one and     *)
(* while the Stop button is there; so none is after a reload, whatever was *)
(* stored (sanitizeMessagesOnLoad).                                        *)
PendingOnlyWhileGenerating ==
    \A i \in DOMAIN messages :
        isAssistantMessagePending(messages[i]) => i = Len(messages) /\ isGenerating

(* What the page shows as running is what runs, and Stop ends it: a stream *)
(* that is open or a request that was not aborted is the one Stop closes   *)
(* or aborts (the requestId test of the finally block keeps the end of an  *)
(* old request from ending a new one).  Two exceptions go on behind the    *)
(* page: what a page that was left had started, and the request an edit    *)
(* was submitted over.                                                     *)
RunsCanBeStopped ==
    /\ source.open => isGenerating
    /\ \A c \in calls :
        ~c.aborted => crossed \/ (isGenerating /\ controller = c.ex)
    /\ isGenerating /\ source = NoSource => \E c \in calls : ~c.aborted

(* With no save pending and no write refused, the storage holds what the   *)
(* page shows, up to the number of messages it keeps: every path that      *)
(* changes the conversation restarts the save timer (persistMessages).  A  *)
(* page that was left may write its own conversation over it.              *)
SavedIsShown ==
    loaded /\ ~saveTimer /\ ~stale => saved = trimMessages(messages)

(* Generating ends once the server has ended the stream or the request,    *)
(* unless it closed the stream without [DONE] or an error event            *)
(* (use-stream-request.ts has no listener for that).                       *)
GenerationEnds ==
    isGenerating ~> (~isGenerating \/ (isStreaming /\ ~source.open))

(* Refinement: an answer as the page shows it (one message has its key).   *)
(* The page is opened anew when it is mounted and again when the stored    *)
(* messages appear.                                                        *)
PhaseOf(m) ==
    IF m.status = "loading" THEN "asked"
    ELSE IF m.status = "streaming" THEN "growing" ELSE "ended"

Absent == [phase |-> "absent", text |-> <<>>]

AnswerIn(ms, k) ==
    LET found == {i \in 1 .. Len(ms) : ms[i].key = k /\ ms[i].from = "assistant"}
        m == ms[CHOOSE i \in found : TRUE]
    IN  IF found = {} THEN Absent ELSE [phase |-> PhaseOf(m), text |-> m.text]

Answer(k) == INSTANCE Exchange
                 WITH Key <- k, answer <- AnswerIn(messages, k),
                      session <- 2 * visits + (IF loaded THEN 1 ELSE 0)

(* Every answer goes from asked to growing to ended, and one that has      *)
(* ended changes only by the user's edit: a stream that was stopped,       *)
(* failed or finished never comes back to life, and a page that comes back *)
(* does not wait for an answer nobody will bring; until an edit is         *)
(* submitted while an answer is on its way.  (Answer(k)!Spec for every k,  *)
(* written so that the quantifier is inside the box.)                      *)
AnswersFollowExchange ==
    /\ \A k \in Keys : Answer(k)!Init
    /\ [][crossed' \/ \A k \in Keys : Answer(k)!Next \/ Answer(k)!Same]_vars
=============================================================================
