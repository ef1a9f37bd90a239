-------------------------- MODULE Playground_proofs --------------------------
(***************************************************************************)
(* Proofs about Playground, for any number of messages, chunks, visits and *)
(* refused writes and any limits of the storage: what the page keeps, then *)
(* whose text a message shows, and that each answer follows Exchange.      *)
(***************************************************************************)
EXTENDS Playground, SequenceTheorems, WellFoundedInduction, TLAPS

-----------------------------------------------------------------------------
(* The inductive invariants.                                               *)

\* The requests: a stream or one call at a time runs, of the key the page
\* remembers; calls that were aborted may still be on their way, under keys of
\* their own, so that their end is not taken for the end of the one that runs.
Running == [ex |-> requestId, aborted |-> FALSE]
Requests ==
    /\ calls \subseteq [ex : 1 .. nextKey - 1, aborted : BOOLEAN]
    /\ \A c, d \in calls : c.ex = d.ex => c = d
    /\ \A c \in calls : ~ c.aborted => requesting /\ controller = c.ex /\ requestId = c.ex
    /\ stream => calls = {}
    /\ requesting /\ ~ stream => Running \in calls

\* The stream: chunks wait only for a stream that is there.
Sources ==
    /\ isStreaming => stream
    /\ requesting /\ stream => isStreaming
    /\ pending # <<>> => isStreaming

\* There is something on the page while an answer is on its way, and nothing
\* before the stored messages are there.
Shown ==
    /\ isGenerating => loaded /\ messages # <<>>
    /\ ~ loaded => messages = <<>>

\* Only the last message may wait for an answer, on the page and in the
\* storage, and on the page only while one is on its way.
NonePending(ms) == \A i \in 1 .. Len(ms) : ~ isAssistantMessagePending(ms[i])
OnlyLastPending(ms) ==
    \A i \in 1 .. Len(ms) :
        isAssistantMessagePending(ms[i]) => i = Len(ms) /\ ms[i].from = "assistant"
Waiting ==
    /\ OnlyLastPending(messages) /\ OnlyLastPending(saved)
    /\ ~ isGenerating => NonePending(messages)

-----------------------------------------------------------------------------
(* Texts and messages.                                                     *)

Text == Seq(Keys \cup {Notice})

LEMMA NotKeys == None \notin Keys /\ Notice \notin Keys /\ Keys \subseteq Nat
  BY PlaygroundAssumption DEF None, Notice, Keys

LEMMA TextsConcat == ASSUME NEW s \in Text, NEW t \in Text PROVE s \o t \in Text
  BY ConcatProperties DEF Text

LEMMA SubText ==
  ASSUME NEW S, NEW s \in Seq(S), NEW a \in Nat \ {0}, NEW b \in Int, b <= Len(s)
  PROVE  /\ SubSeq(s, a, b) \in Seq(S)
         /\ Len(SubSeq(s, a, b)) = IF a <= b THEN b - a + 1 ELSE 0
         /\ \A i \in 1 .. Len(SubSeq(s, a, b)) : SubSeq(s, a, b)[i] = s[a + i - 1]
<1>1. \A i \in a .. b : s[i] \in S
  BY ElementOfSeq, LenProperties
<1>2. a \in Int
  OBVIOUS
<1>3. /\ SubSeq(s, a, b) \in Seq(S)
      /\ Len(SubSeq(s, a, b)) = IF a <= b THEN b - a + 1 ELSE 0
      /\ \A i \in 1 .. b - a + 1 : SubSeq(s, a, b)[i] = s[a + i - 1]
  BY <1>1, <1>2, SubSeqProperties
<1> QED
  BY <1>3

LEMMA MessageParts ==
  ASSUME NEW m \in Message
  PROVE  /\ m.key \in Keys /\ m.from \in {"user", "assistant"}
         /\ m.status \in {"none"} \cup Pending \cup Final /\ m.text \in Text
  BY DEF Message, Text

LEMMA MessageChanged ==
  ASSUME NEW m \in Message, NEW t \in Text, NEW s \in {"none"} \cup Pending \cup Final
  PROVE  /\ [m EXCEPT !.text = t, !.status = s] \in Message
         /\ [m EXCEPT !.text = t, !.status = s].key = m.key
         /\ [m EXCEPT !.text = t, !.status = s].from = m.from
         /\ [m EXCEPT !.text = t, !.status = s].text = t
         /\ [m EXCEPT !.text = t, !.status = s].status = s
  BY DEF Message, Text

LEMMA NoticeText == <<Notice>> \in Text
  BY DEF Text

\* A chunk leaves the key, the author and, but for an error, a streaming
\* message.
LEMMA ChunkApplied ==
  ASSUME NEW m \in Message, NEW chunk \in Text
  PROVE  /\ applyStreamingChunk(m, chunk) \in Message
         /\ applyStreamingChunk(m, chunk).key = m.key
         /\ applyStreamingChunk(m, chunk).from = m.from
<1>1. m.text \in Text
  BY MessageParts
<1>2. getAppendableChunk(m.text, chunk) \in Text
  <2>1. Len(m.text) + 1 \in Nat \ {0} /\ Len(chunk) \in Int /\ Len(chunk) <= Len(chunk)
    BY <1>1, LenProperties DEF Text
  <2>2. SubSeq(chunk, Len(m.text) + 1, Len(chunk)) \in Text
    BY <2>1, SubText DEF Text
  <2> QED
    BY <2>2 DEF getAppendableChunk
<1>3. m.text \o getAppendableChunk(m.text, chunk) \in Text
  BY <1>1, <1>2, TextsConcat
<1>4. "streaming" \in {"none"} \cup Pending \cup Final
  BY DEF Pending
<1>5. CASE m.status = "error"
  BY <1>5 DEF applyStreamingChunk
<1>6. CASE m.status # "error"
  <2> DEFINE t == m.text \o getAppendableChunk(m.text, chunk)
  <2>1. applyStreamingChunk(m, chunk) = [m EXCEPT !.text = t, !.status = "streaming"]
    BY <1>6 DEF applyStreamingChunk
  <2>2. t \in Text
    BY <1>3
  <2> HIDE DEF t
  <2>3. /\ [m EXCEPT !.text = t, !.status = "streaming"] \in Message
        /\ [m EXCEPT !.text = t, !.status = "streaming"].key = m.key
        /\ [m EXCEPT !.text = t, !.status = "streaming"].from = m.from
    BY <2>2 DEF Message, Text, Pending
  <2> QED
    BY <2>1, <2>3, Zenon
<1> QED
  BY <1>5, <1>6

LEMMA Completed ==
  ASSUME NEW m \in Message
  PROVE  /\ completeAssistantMessage(m) \in Message
         /\ completeAssistantMessage(m).key = m.key
         /\ completeAssistantMessage(m).from = m.from
         /\ completeAssistantMessage(m).text = m.text
         /\ completeAssistantMessage(m).status = "complete"
  BY DEF completeAssistantMessage, Message, Final

\* Only the last message changes, and only when it is the assistant's.
LEMMA LastUpdated ==
  ASSUME NEW ms \in Seq(Message), NEW u,
         ms # <<>> /\ Last(ms).from = "assistant" => u \in Message
  PROVE  /\ updateLastAssistantMessage(ms, u) \in Seq(Message)
         /\ Len(updateLastAssistantMessage(ms, u)) = Len(ms)
         /\ \A j \in 1 .. Len(ms) :
              updateLastAssistantMessage(ms, u)[j] =
                IF j = Len(ms) /\ ms[j].from = "assistant" THEN u ELSE ms[j]
<1>1. CASE ms # <<>> /\ Last(ms).from = "assistant"
  <2>1. Len(ms) \in 1 .. Len(ms)
    BY <1>1, EmptySeq, LenProperties
  <2>2. updateLastAssistantMessage(ms, u) = [ms EXCEPT ![Len(ms)] = u]
    BY <1>1 DEF updateLastAssistantMessage
  <2> QED
    BY <1>1, <2>1, <2>2, ExceptSeq DEF Last
<1>2. CASE ~ (ms # <<>> /\ Last(ms).from = "assistant")
  <2>1. updateLastAssistantMessage(ms, u) = ms
    BY <1>2 DEF updateLastAssistantMessage
  <2> QED
    BY <1>2, <2>1, EmptySeq, LenProperties DEF Last
<1> QED
  BY <1>1, <1>2

LEMMA LastIsMessage ==
  ASSUME NEW S, NEW ms \in Seq(S), ms # <<>>
  PROVE  Last(ms) \in S /\ Len(ms) \in 1 .. Len(ms)
  BY EmptySeq, LenProperties, ElementOfSeq DEF Last

-----------------------------------------------------------------------------
(* The types.                                                              *)

RequestTypes ==
    /\ requesting \in BOOLEAN /\ calls \subseteq [ex : Keys, aborted : BOOLEAN]
    /\ requestId \in Keys \cup {None} /\ controller \in Keys \cup {None}
NetTypes ==
    /\ source \in [ex : Keys \cup {None}, open : BOOLEAN]
    /\ source # NoSource => source.ex \in Keys
    /\ pending \in Seq(Keys) /\ flushTimer \in BOOLEAN /\ chunks \in 0 .. MaxChunks
StoreTypes ==
    /\ saved \in Seq(Message) /\ saveTimer \in BOOLEAN /\ stale \in BOOLEAN
    /\ faults \in 0 .. MaxSaveFaults
PageTypes ==
    /\ messages \in Seq(Message) /\ loaded \in BOOLEAN
    /\ editing \in Keys \cup {None} /\ dirty \in BOOLEAN /\ stream \in BOOLEAN
    /\ nextKey \in 1 .. MaxKey + 1 /\ visits \in 0 .. MaxVisits
Types == RequestTypes /\ NetTypes /\ StoreTypes /\ PageTypes

PageInv == Types /\ Requests /\ Sources /\ Shown /\ Waiting

\* What pages that were left may still write.
LateInv ==
    /\ left \subseteq Keys /\ crossed \in BOOLEAN /\ late \subseteq Seq(Message)
    /\ \A ms \in late : OnlyLastPending(ms)

LEMMA TypesAreTypeOK == Types /\ LateInv => TypeOK
  BY DEF Types, RequestTypes, NetTypes, StoreTypes, PageTypes, LateInv, TypeOK

LEMMA InitTypes == Init => Types
<1> SUFFICES ASSUME Init PROVE Types
  OBVIOUS
<1>1. RequestTypes
  BY DEF Init, RequestTypes
<1>2. NetTypes
  <2>1. chunks \in 0 .. MaxChunks
    BY PlaygroundAssumption DEF Init
  <2>2. source \in [ex : Keys \cup {None}, open : BOOLEAN] /\ source = NoSource
    BY DEF Init, NoSource
  <2>3. pending \in Seq(Keys) /\ flushTimer \in BOOLEAN
    BY EmptySeq DEF Init
  <2> QED
    BY <2>1, <2>2, <2>3 DEF NetTypes
<1>3. StoreTypes
  <2>1. faults \in 0 .. MaxSaveFaults
    BY PlaygroundAssumption DEF Init
  <2> QED
    BY <2>1, EmptySeq DEF Init, StoreTypes
<1>4. PageTypes
  <2>1. nextKey \in 1 .. MaxKey + 1 /\ visits \in 0 .. MaxVisits
    BY PlaygroundAssumption DEF Init
  <2>2. stream \in BOOLEAN
    BY PlaygroundAssumption DEF Init
  <2> QED
    BY <2>1, <2>2, EmptySeq DEF Init, PageTypes
<1> QED
  BY <1>1, <1>2, <1>3, <1>4 DEF Types

\* What a handler leaves alone.
LEMMA NetKept ==
  UNCHANGED net => source' = source /\ pending' = pending /\ flushTimer' = flushTimer
                   /\ chunks' = chunks
  BY DEF net
LEMMA RequestKept ==
  UNCHANGED request => requesting' = requesting /\ calls' = calls /\ requestId' = requestId
                       /\ controller' = controller
  BY DEF request
LEMMA StoreKept ==
  UNCHANGED store => saved' = saved /\ saveTimer' = saveTimer /\ stale' = stale
                     /\ faults' = faults
  BY DEF store

LEMMA MessagesUpdated ==
  ASSUME Types, NEW ms \in Seq(Message), updateMessages(ms)
  PROVE  messages' \in Seq(Message) /\ StoreTypes'
<1>1. saveTimer' \in BOOLEAN
  BY Zenon DEF updateMessages
<1> QED
  BY <1>1 DEF updateMessages, Types, StoreTypes

LEMMA FlushedMessages ==
  ASSUME Types
  PROVE  /\ flushed \in Seq(Message) /\ Len(flushed) = Len(messages)
         /\ \A j \in 1 .. Len(messages) :
              /\ flushed[j].key = messages[j].key /\ flushed[j].from = messages[j].from
              /\ j # Len(messages) \/ messages[j].from # "assistant" \/ pending = <<>> =>
                   flushed[j] = messages[j]
              /\ j = Len(messages) /\ messages[j].from = "assistant" /\ pending # <<>> =>
                   flushed[j] = applyStreamingChunk(messages[j], pending)
<1> DEFINE u == applyStreamingChunk(Last(messages), pending)
<1>0. messages \in Seq(Message)
  BY DEF Types, PageTypes
<1>1. pending \in Text
  BY SeqMonotonic DEF Types, NetTypes, Text
<1>2. messages # <<>> => u \in Message /\ u.key = Last(messages).key /\ u.from = Last(messages).from
  BY <1>0, <1>1, LastIsMessage, ChunkApplied
<1>3. CASE pending = <<>>
  BY <1>0, <1>3 DEF flushed
<1>4. CASE pending # <<>>
  <2>1. flushed = updateLastAssistantMessage(messages, u)
    BY <1>4 DEF flushed
  <2>2. /\ flushed \in Seq(Message) /\ Len(flushed) = Len(messages)
        /\ \A j \in 1 .. Len(messages) :
             flushed[j] = IF j = Len(messages) /\ messages[j].from = "assistant" THEN u
                          ELSE messages[j]
    BY <1>0, <1>2, <2>1, LastUpdated
  <2>3. \A j \in 1 .. Len(messages) : messages # <<>>
    BY <1>0, EmptySeq
  <2>4. Last(messages) = messages[Len(messages)]
    BY DEF Last
  <2> QED
    BY <1>2, <1>4, <2>2, <2>3, <2>4
<1> QED
  BY <1>3, <1>4

-----------------------------------------------------------------------------
(* What a page shows of what was stored.                                   *)

\* t is the end of s.
IsTail(t, s) == Len(t) <= Len(s) /\ \A i \in 1 .. Len(t) : t[i] = s[Len(s) - Len(t) + i]

LEMMA SuffixIsTail ==
  ASSUME NEW ms \in Seq(Message), NEW a \in 1 .. Len(ms) + 1
  PROVE  SubSeq(ms, a, Len(ms)) \in Seq(Message) /\ IsTail(SubSeq(ms, a, Len(ms)), ms)
<1>1. Len(ms) \in Nat /\ a \in Nat \ {0}
  BY LenProperties
<1>2. Len(ms) \in Int /\ Len(ms) <= Len(ms)
  BY <1>1
<1> DEFINE t == SubSeq(ms, a, Len(ms))
<1>3. /\ t \in Seq(Message) /\ Len(t) = IF a <= Len(ms) THEN Len(ms) - a + 1 ELSE 0
      /\ \A i \in 1 .. Len(t) : t[i] = ms[a + i - 1]
  BY <1>1, <1>2, SubText
<1> HIDE DEF t
<1>4. Len(t) = Len(ms) - a + 1
  BY <1>1, <1>3
<1>5. \A i \in 1 .. Len(t) : Len(ms) - Len(t) + i = a + i - 1
  BY <1>1, <1>4
<1>6. IsTail(t, ms)
  BY <1>1, <1>3, <1>4, <1>5 DEF IsTail
<1> QED
  BY <1>3, <1>6 DEF t

LEMMA TrimmedIsTail ==
  ASSUME NEW ms \in Seq(Message)
  PROVE  trimMessages(ms) \in Seq(Message) /\ IsTail(trimMessages(ms), ms)
<1>1. Len(ms) \in Nat /\ MaxStored \in Nat \ {0}
  BY LenProperties, PlaygroundAssumption
<1>2. CASE Len(ms) <= MaxStored
  BY <1>1, <1>2 DEF trimMessages, IsTail
<1>3. CASE Len(ms) > MaxStored
  BY <1>1, <1>3, SuffixIsTail DEF trimMessages
<1> QED
  BY <1>1, <1>2, <1>3

LEMMA LeastExists ==
  ASSUME NEW S, S \subseteq Nat, S # {}
  PROVE  \E i \in S : \A j \in S : i <= j
<1>1. \E x \in S : \A y \in S : ~ (<<y, x>> \in OpToRel(<, Nat))
  BY NatLessThanWellFounded, WFMin
<1>2. ASSUME NEW x \in Nat, NEW y \in Nat, y < x PROVE <<y, x>> \in OpToRel(<, Nat)
  <2>1. <<y, x>> \in Nat \X Nat /\ <<y, x>>[1] = y /\ <<y, x>>[2] = x
    OBVIOUS
  <2> QED
    BY <1>2, <2>1, Zenon DEF OpToRel
<1>3. PICK x \in S : \A y \in S : ~ (<<y, x>> \in OpToRel(<, Nat))
  BY <1>1
<1>4. ASSUME NEW y \in S PROVE x <= y
  <2>1. x \in Nat /\ y \in Nat
    BY <1>3
  <2>2. ~ y < x
    BY <1>2, <1>3, <2>1
  <2> QED
    BY <2>1, <2>2
<1> QED
  BY <1>3, <1>4

LEMMA SizedIsTail ==
  ASSUME NEW ms \in Seq(Message)
  PROVE  trimMessagesByContentSize(ms) \in Seq(Message) /\ IsTail(trimMessagesByContentSize(ms), ms)
<1> DEFINE fits == {i \in 1 .. Len(ms) :
                      i = Len(ms) \/ SizeOf(SubSeq(ms, i, Len(ms))) <= MaxLoadedChars}
           first == CHOOSE i \in fits : \A j \in fits : i <= j
<1>1. Len(ms) \in Nat
  BY LenProperties
<1>2. CASE ms = <<>>
  BY <1>1, <1>2 DEF trimMessagesByContentSize, IsTail
<1>3. CASE ms # <<>>
  <2>1. Len(ms) \in fits /\ fits \subseteq Nat
    BY <1>1, <1>3, LastIsMessage
  <2>2. first \in fits
    <3> HIDE DEF fits
    <3> QED
      BY <2>1, LeastExists
  <2>3. first \in 1 .. Len(ms) + 1
    BY <1>1, <2>2
  <2>4. trimMessagesByContentSize(ms) = SubSeq(ms, first, Len(ms))
    BY <1>3 DEF trimMessagesByContentSize
  <2> QED
    BY <2>3, <2>4, SuffixIsTail
<1> QED
  BY <1>2, <1>3

LEMMA Normalized ==
  ASSUME NEW m \in Message
  PROVE  /\ normalizeStoredMessageForLoad(m) \in Message
         /\ normalizeStoredMessageForLoad(m).key = m.key
         /\ normalizeStoredMessageForLoad(m).from = m.from
         /\ normalizeStoredMessageForLoad(m).text = truncateText(m.text)
         /\ isAssistantMessagePending(normalizeStoredMessageForLoad(m)) =>
              isAssistantMessagePending(m)
<1> DEFINE short == [m EXCEPT !.text = truncateText(@)]
<1>1. truncateText(m.text) \in Text
  <2>1. m.text \in Text /\ Len(m.text) \in Nat /\ MaxMessageChars \in Nat \ {0}
    BY MessageParts, LenProperties, PlaygroundAssumption DEF Text
  <2>2. ~ Len(m.text) <= MaxMessageChars =>
          SubSeq(m.text, 1, MaxMessageChars - 1) \in Text
    BY <2>1, SubText DEF Text
  <2> QED
    BY <2>1, <2>2, NoticeText, TextsConcat DEF truncateText
<1>2. short \in Message /\ short.key = m.key /\ short.from = m.from
      /\ short.text = truncateText(m.text) /\ short.status = m.status
  BY <1>1 DEF Message, Text
<1>3. normalizeStoredMessageForLoad(m) =
        IF isAssistantMessagePending(short) /\ short.text # <<>>
        THEN completeAssistantMessage(short) ELSE short
  BY DEF normalizeStoredMessageForLoad
<1> HIDE DEF short
<1>4. CASE isAssistantMessagePending(short) /\ short.text # <<>>
  <2>1. /\ completeAssistantMessage(short) \in Message
        /\ completeAssistantMessage(short).key = short.key
        /\ completeAssistantMessage(short).from = short.from
        /\ completeAssistantMessage(short).text = short.text
        /\ completeAssistantMessage(short).status = "complete"
    BY <1>2, Completed
  <2> QED
    BY <1>2, <1>3, <1>4, <2>1 DEF isAssistantMessagePending
<1>5. CASE ~ (isAssistantMessagePending(short) /\ short.text # <<>>)
  BY <1>2, <1>3, <1>5 DEF isAssistantMessagePending
<1> QED
  BY <1>4, <1>5

LEMMA TailOnlyLastPending ==
  ASSUME NEW ms \in Seq(Message), NEW t \in Seq(Message), IsTail(t, ms), OnlyLastPending(ms)
  PROVE  OnlyLastPending(t)
<1> SUFFICES ASSUME NEW i \in 1 .. Len(t), isAssistantMessagePending(t[i])
             PROVE  i = Len(t) /\ t[i].from = "assistant"
  BY DEF OnlyLastPending
<1>1. Len(ms) \in Nat /\ Len(t) \in Nat
  BY LenProperties
<1>2. t[i] = ms[Len(ms) - Len(t) + i] /\ Len(ms) - Len(t) + i \in 1 .. Len(ms)
  BY <1>1 DEF IsTail
<1>3. Len(ms) - Len(t) + i = Len(ms) /\ t[i].from = "assistant"
  BY <1>2 DEF OnlyLastPending
<1> QED
  BY <1>1, <1>3

\* When only the last message can be waiting, repairing the last one that
\* waits repairs all.
LEMMA Sanitized ==
  ASSUME NEW ms \in Seq(Message), OnlyLastPending(ms)
  PROVE  /\ sanitizeMessagesOnLoad(ms) \in Seq(Message) /\ NonePending(sanitizeMessagesOnLoad(ms))
         /\ Len(sanitizeMessagesOnLoad(ms)) = Len(ms)
         /\ \A j \in 1 .. Len(ms) :
              \/ sanitizeMessagesOnLoad(ms)[j] = ms[j]
              \/ /\ sanitizeMessagesOnLoad(ms)[j].key = ms[j].key
                 /\ sanitizeMessagesOnLoad(ms)[j].from = ms[j].from
                 /\ sanitizeMessagesOnLoad(ms)[j].text \in {ms[j].text, <<Notice>>}
<1> DEFINE stuck == {i \in 1 .. Len(ms) : isAssistantMessagePending(ms[i])}
           target == CHOOSE i \in stuck : \A j \in stuck : j <= i
           m == ms[Len(ms)]
           fixed == IF m.text # <<>> THEN completeAssistantMessage(m)
                    ELSE [m EXCEPT !.text = <<Notice>>, !.status = "error"]
<1>1. Len(ms) \in Nat
  BY LenProperties
<1>2. CASE stuck = {}
  <2>1. sanitizeMessagesOnLoad(ms) = ms
    BY <1>2 DEF sanitizeMessagesOnLoad
  <2> QED
    BY <1>2, <2>1 DEF NonePending
<1>3. CASE stuck # {}
  <2>1. stuck = {Len(ms)}
    BY <1>3 DEF OnlyLastPending
  <2>2. target = Len(ms)
    BY <1>1, <2>1
  <2>3. Len(ms) \in 1 .. Len(ms) /\ m \in Message
    BY <2>1, ElementOfSeq
  <2>4. sanitizeMessagesOnLoad(ms) = [ms EXCEPT ![Len(ms)] = fixed]
    <3>1. sanitizeMessagesOnLoad(ms) =
            [ms EXCEPT ![target] = IF ms[target].text # <<>>
                                   THEN completeAssistantMessage(ms[target])
                                   ELSE [ms[target] EXCEPT !.text = <<Notice>>, !.status = "error"]]
      BY <1>3, Zenon DEF sanitizeMessagesOnLoad
    <3> QED
      BY <2>2, <3>1, Zenon
  <2>5. /\ fixed \in Message /\ fixed.key = m.key /\ fixed.from = m.from
        /\ fixed.text \in {m.text, <<Notice>>} /\ ~ isAssistantMessagePending(fixed)
    <3>1. CASE m.text # <<>>
      <4>1. fixed = completeAssistantMessage(m)
        BY <3>1
      <4> QED
        BY <2>3, <4>1, Completed DEF isAssistantMessagePending, Pending
    <3>2. CASE m.text = <<>>
      <4>1. fixed = [m EXCEPT !.text = <<Notice>>, !.status = "error"]
        BY <3>2
      <4> QED
        BY <2>3, <4>1, NoticeText DEF Message, Text, Final, isAssistantMessagePending,
           Pending
    <3> QED
      BY <3>1, <3>2
  <2> HIDE DEF fixed, m
  <2>6. /\ sanitizeMessagesOnLoad(ms) \in Seq(Message)
        /\ Len(sanitizeMessagesOnLoad(ms)) = Len(ms)
        /\ \A j \in 1 .. Len(ms) :
             sanitizeMessagesOnLoad(ms)[j] = IF j = Len(ms) THEN fixed ELSE ms[j]
    BY <2>3, <2>4, <2>5, ExceptSeq
  <2>7. NonePending(sanitizeMessagesOnLoad(ms))
    BY <2>1, <2>5, <2>6 DEF NonePending
  <2> QED
    BY <2>5, <2>6, <2>7 DEF m
<1> QED
  BY <1>2, <1>3

LEMMA LoadedMessages ==
  ASSUME NEW ms \in Seq(Message), OnlyLastPending(ms)
  PROVE  loadMessages(ms) \in Seq(Message) /\ NonePending(loadMessages(ms))
<1> DEFINE normalized == [i \in 1 .. Len(ms) |-> normalizeStoredMessageForLoad(ms[i])]
           trimmed == trimMessages(normalized)
           sized == trimMessagesByContentSize(trimmed)
<1>1. Len(ms) \in Nat /\ \A i \in 1 .. Len(ms) : ms[i] \in Message
  BY LenProperties, ElementOfSeq
<1>2. normalized \in Seq(Message) /\ Len(normalized) = Len(ms)
  BY <1>1, Normalized
<1>3. OnlyLastPending(normalized)
  BY <1>1, <1>2, Normalized DEF OnlyLastPending
<1>4. loadMessages(ms) = IF SizeOf(ms) > MaxStoredChars THEN <<>>
                         ELSE sanitizeMessagesOnLoad(sized)
  BY DEF loadMessages
<1> HIDE DEF normalized
<1>5. trimmed \in Seq(Message) /\ OnlyLastPending(trimmed)
  BY <1>2, <1>3, TrimmedIsTail, TailOnlyLastPending
<1> HIDE DEF trimmed
<1>6. sized \in Seq(Message) /\ OnlyLastPending(sized)
  BY <1>5, SizedIsTail, TailOnlyLastPending
<1> HIDE DEF sized
<1>7. <<>> \in Seq(Message) /\ NonePending(<<>>)
  BY EmptySeq DEF NonePending
<1> QED
  BY <1>4, <1>6, <1>7, Sanitized

-----------------------------------------------------------------------------
(* The steps.                                                              *)

LEMMA InitPageInv == Init => PageInv
<1> SUFFICES ASSUME Init PROVE PageInv
  OBVIOUS
<1>1. Requests
  BY DEF Init, Requests
<1>2. Sources /\ Shown
  BY DEF Init, Sources, Shown, isGenerating, isStreaming
<1>3. Waiting
  BY DEF Init, Waiting, OnlyLastPending, NonePending
<1> QED
  BY <1>1, <1>2, <1>3, InitTypes DEF PageInv

\* A step that leaves the requests alone and the page loaded.
RunFrame ==
    /\ source' = source /\ pending' = pending /\ flushTimer' = flushTimer /\ chunks' = chunks
    /\ requesting' = requesting /\ calls' = calls /\ requestId' = requestId
    /\ controller' = controller
    /\ stream' = stream /\ nextKey' = nextKey /\ loaded' = loaded /\ visits' = visits

LEMMA RunKept ==
  ASSUME PageInv, RunFrame, messages' = <<>> => messages = <<>> \/ ~ isGenerating,
         ~ loaded => messages' = <<>>
  PROVE  /\ RequestTypes' /\ NetTypes' /\ Requests' /\ Sources' /\ Shown'
         /\ isGenerating' = isGenerating
<1>1. RequestTypes' /\ NetTypes'
  BY DEF PageInv, Types, RunFrame, RequestTypes, NetTypes
<1>2. Requests'
  BY DEF PageInv, RunFrame, Requests, Running
<1>3. Sources' /\ Shown' /\ isGenerating' = isGenerating
  BY DEF PageInv, RunFrame, Sources, Shown, isGenerating, isStreaming
<1> QED
  BY <1>1, <1>2, <1>3

LEMMA EditorStep ==
  ASSUME PageInv, RunFrame, messages' = messages, UNCHANGED store,
         editing' \in Keys \cup {None}, dirty' \in BOOLEAN
  PROVE  PageInv'
<1>1. PageTypes'
  BY DEF PageInv, Types, PageTypes, RunFrame
<1>2. StoreTypes' /\ saved' = saved
  BY StoreKept DEF PageInv, Types, StoreTypes
<1>3. ~ loaded => messages' = <<>>
  BY DEF PageInv, Shown
<1>4. Waiting'
  BY <1>2, <1>3, RunKept DEF PageInv, Waiting
<1> QED
  BY <1>1, <1>2, <1>3, <1>4, RunKept DEF PageInv, Types

\* A step of the user that changes the conversation and sends nothing.
LEMMA RewriteStep ==
  ASSUME PageInv, RunFrame, NEW ms \in Seq(Message), updateMessages(ms),
         ms = <<>> => messages = <<>> \/ ~ isGenerating, ~ loaded => ms = <<>>,
         OnlyLastPending(ms), ~ isGenerating => NonePending(ms),
         editing' \in Keys \cup {None}, dirty' \in BOOLEAN
  PROVE  PageInv'
<1>1. messages' = ms /\ saved' = saved /\ StoreTypes'
  BY MessagesUpdated DEF PageInv, updateMessages
<1>2. PageTypes'
  BY <1>1 DEF PageInv, Types, PageTypes, RunFrame
<1>3. Waiting'
  BY <1>1, RunKept DEF PageInv, Waiting
<1> QED
  BY <1>1, <1>2, <1>3, RunKept DEF PageInv, Types

LEMMA MessageTypes ==
  ASSUME PageInv
  PROVE  /\ messages \in Seq(Message) /\ DOMAIN messages = 1 .. Len(messages)
         /\ Len(messages) \in Nat /\ \A i \in 1 .. Len(messages) : messages[i] \in Message
  BY LenProperties, ElementOfSeq DEF PageInv, Types, PageTypes

LEMMA EditingStep ==
  ASSUME PageInv,
         \/ TypeInEditor \/ CancelEdit \/ UNCHANGED vars
         \/ \E i \in DOMAIN messages : handleEditMessage(i)
  PROVE  PageInv'
<1>1. RunFrame /\ messages' = messages /\ UNCHANGED store
  BY NetKept, RequestKept DEF TypeInEditor, CancelEdit, handleEditMessage, vars,
     RunFrame, past
<1>2. editing' \in Keys \cup {None}
  BY MessageTypes, MessageParts DEF TypeInEditor, CancelEdit, handleEditMessage, vars,
     editor, PageInv, Types, PageTypes
<1>3. dirty' \in BOOLEAN
  BY DEF TypeInEditor, CancelEdit, handleEditMessage, vars, editor, PageInv, Types,
     PageTypes
<1> QED
  BY <1>1, <1>2, <1>3, EditorStep

LEMMA SaveEditStep ==
  ASSUME PageInv, NEW i \in DOMAIN messages, SaveEdit(i)
  PROVE  PageInv'
<1> DEFINE m == [messages[i] EXCEPT !.text = <<Notice>>]
           ms == [messages EXCEPT ![i] = m]
<1>1. i \in 1 .. Len(messages) /\ messages[i] \in Message
  BY MessageTypes
<1>2. m \in Message /\ m.from = messages[i].from /\ m.status = messages[i].status
  BY <1>1, NoticeText DEF Message, Text
<1>3. updateMessages(ms)
  BY DEF SaveEdit
<1> HIDE DEF m
<1>4. /\ ms \in Seq(Message) /\ Len(ms) = Len(messages)
      /\ \A j \in 1 .. Len(messages) : ms[j] = IF j = i THEN m ELSE messages[j]
  BY <1>1, <1>2, MessageTypes, ExceptSeq
<1> HIDE DEF ms
<1>5. OnlyLastPending(ms) /\ (~ isGenerating => NonePending(ms))
  BY <1>2, <1>4 DEF PageInv, Waiting, OnlyLastPending, NonePending,
     isAssistantMessagePending
<1>6. ms # <<>> /\ loaded
  BY <1>1, <1>4 DEF PageInv, Shown
<1>7. RunFrame /\ editing' \in Keys \cup {None} /\ dirty' \in BOOLEAN
  BY NetKept, RequestKept DEF SaveEdit, RunFrame, past
<1> QED
  BY <1>3, <1>4, <1>5, <1>6, <1>7, RewriteStep

LEMMA DeleteStep ==
  ASSUME PageInv, NEW i \in DOMAIN messages, handleDeleteMessage(i)
  PROVE  PageInv'
<1> DEFINE before == SubSeq(messages, 1, i - 1)
           after == SubSeq(messages, i + 1, Len(messages))
           ms == RemoveAt(messages, i)
<1>1. i \in 1 .. Len(messages) /\ Len(messages) \in Nat /\ messages \in Seq(Message)
  BY MessageTypes
<1>2. NonePending(messages) /\ ~ isGenerating
  BY DEF PageInv, Waiting, handleDeleteMessage
<1>3. before \in Seq(Message) /\ NonePending(before)
  BY <1>1, <1>2, SubText DEF NonePending
<1>4. after \in Seq(Message) /\ NonePending(after)
  <2>1. i + 1 \in Nat \ {0} /\ Len(messages) \in Int /\ Len(messages) <= Len(messages)
    BY <1>1
  <2>2. /\ after \in Seq(Message)
        /\ Len(after) = IF i + 1 <= Len(messages) THEN Len(messages) - (i + 1) + 1 ELSE 0
        /\ \A j \in 1 .. Len(after) : after[j] = messages[i + 1 + j - 1]
    BY <1>1, <2>1, SubText
  <2> HIDE DEF after
  <2>3. \A j \in 1 .. Len(after) : i + 1 + j - 1 \in 1 .. Len(messages)
    BY <1>1, <2>2
  <2> QED
    BY <1>2, <2>2, <2>3 DEF NonePending
<1>5. ms = before \o after
  BY DEF RemoveAt
<1> HIDE DEF before, after, ms
<1>6. ms \in Seq(Message) /\ NonePending(ms)
  BY <1>3, <1>4, <1>5, ConcatProperties DEF NonePending
<1>7. RunFrame /\ editing' \in Keys \cup {None} /\ dirty' \in BOOLEAN /\ updateMessages(ms)
      /\ loaded
  BY NetKept, RequestKept DEF handleDeleteMessage, RunFrame, PageInv, Types, PageTypes,
     ms, past
<1> QED
  BY <1>2, <1>6, <1>7, RewriteStep DEF OnlyLastPending, NonePending

LEMMA ClearStep == ASSUME PageInv, handleClearMessages PROVE PageInv'
<1>1. <<>> \in Seq(Message) /\ OnlyLastPending(<<>>) /\ NonePending(<<>>)
  BY EmptySeq DEF OnlyLastPending, NonePending
<1>2. /\ RunFrame /\ editing' \in Keys \cup {None} /\ dirty' \in BOOLEAN
      /\ updateMessages(<<>>) /\ ~ isGenerating /\ loaded
  BY NetKept, RequestKept DEF handleClearMessages, RunFrame, past
<1> QED
  BY <1>1, <1>2, RewriteStep

-----------------------------------------------------------------------------
(* A new request.                                                          *)

LEMMA SentRun ==
  ASSUME PageInv, ~ isGenerating, NEW k \in Keys, nextKey <= k, sendChat(k),
         nextKey' = k + 1, stream' = stream
  PROVE  RequestTypes' /\ NetTypes' /\ Requests' /\ Sources' /\ isGenerating'
<1>0. k \in Nat \ {0} /\ nextKey \in Nat \ {0} /\ stream \in BOOLEAN
  BY NotKeys DEF PageInv, Types, PageTypes, Keys
<1>1. ~ requesting /\ ~ isStreaming /\ pending = <<>> /\ \A c \in calls : c.aborted
  BY DEF PageInv, isGenerating, Sources, Requests
<1>2. CASE stream
  <2>1. sendStreamingChat(k)
    BY <1>2 DEF sendChat
  <2>2. calls = {} /\ calls' = {}
    BY <1>2, <2>1 DEF sendStreamingChat, PageInv, Requests
  <2>3. source' # NoSource
    BY <1>0, <2>1 DEF sendStreamingChat, NoSource, None
  <2>4. RequestTypes'
    BY <2>1, <2>2 DEF sendStreamingChat, PageInv, Types, RequestTypes
  <2>5. NetTypes'
    BY <2>1, PlaygroundAssumption DEF sendStreamingChat, PageInv, Types, NetTypes
  <2>6. Requests'
    BY <1>2, <2>2 DEF Requests
  <2>7. Sources' /\ isGenerating'
    BY <1>2, <2>3 DEF Sources, isGenerating, isStreaming
  <2> QED
    BY <2>4, <2>5, <2>6, <2>7
<1>3. CASE ~ stream
  <2> DEFINE new == [ex |-> k, aborted |-> FALSE]
  <2>1. /\ requestId' = k /\ controller' = k /\ requesting' = TRUE
        /\ calls' = calls \cup {new} /\ UNCHANGED net
    BY <1>3 DEF sendChat, sendNonStreamingChat
  <2>2. RequestTypes' /\ NetTypes'
    <3>1. new \in [ex : Keys, aborted : BOOLEAN]
      OBVIOUS
    <3>2. RequestTypes'
      BY <2>1, <3>1 DEF PageInv, Types, RequestTypes
    <3>3. NetTypes'
      BY <2>1, NetKept DEF PageInv, Types, NetTypes
    <3> QED
      BY <3>2, <3>3
  <2>3. \A c \in calls : c.ex \in 1 .. nextKey - 1 /\ c.aborted \in BOOLEAN /\ c.ex # k
    BY <1>0 DEF PageInv, Requests
  <2>4. calls' \subseteq [ex : 1 .. nextKey' - 1, aborted : BOOLEAN]
    <3>1. nextKey' - 1 = k /\ 1 .. nextKey - 1 \subseteq 1 .. k /\ k \in 1 .. k
      BY <1>0
    <3>2. new \in [ex : 1 .. k, aborted : BOOLEAN]
      BY <3>1
    <3>3. calls \subseteq [ex : 1 .. k, aborted : BOOLEAN]
      BY <3>1 DEF PageInv, Requests
    <3> QED
      BY <2>1, <3>1, <3>2, <3>3
  <2>5. \A c, d \in calls' : c.ex = d.ex => c = d
    <3>1. new.ex = k /\ \A c \in calls' : c \in calls \/ c = new
      BY <2>1
    <3> HIDE DEF new
    <3> QED
      BY <2>3, <3>1 DEF PageInv, Requests
  <2>6. Requests'
    BY <1>1, <1>3, <2>1, <2>4, <2>5 DEF Requests, Running
  <2>7. Sources' /\ isGenerating'
    BY <1>1, <1>3, <2>1, NetKept DEF Sources, isGenerating, isStreaming
  <2> QED
    BY <2>2, <2>6, <2>7
<1> QED
  BY <1>2, <1>3

\* The conversation with new messages, the last of which waits.
LEMMA AskedMessages ==
  ASSUME NEW ms \in Seq(Message), NonePending(ms),
         NEW q \in Seq(Message), q # <<>>, OnlyLastPending(q)
  PROVE  ms \o q \in Seq(Message) /\ ms \o q # <<>> /\ OnlyLastPending(ms \o q)
<1> DEFINE t == ms \o q
<1>1. Len(ms) \in Nat /\ Len(q) \in Nat \ {0}
  BY LenProperties, EmptySeq
<1>2. /\ t \in Seq(Message) /\ Len(t) = Len(ms) + Len(q)
      /\ \A i \in 1 .. Len(ms) + Len(q) : t[i] = IF i <= Len(ms) THEN ms[i] ELSE q[i - Len(ms)]
  BY ConcatProperties
<1> HIDE DEF t
<1>3. t # <<>>
  BY <1>1, <1>2
<1>4. ASSUME NEW i \in 1 .. Len(t), isAssistantMessagePending(t[i])
      PROVE  i = Len(t) /\ t[i].from = "assistant"
  <2>1. CASE i <= Len(ms)
    BY <1>1, <1>2, <1>4, <2>1 DEF NonePending
  <2>2. CASE i > Len(ms)
    <3>1. i - Len(ms) \in 1 .. Len(q) /\ t[i] = q[i - Len(ms)]
      BY <1>1, <1>2, <2>2
    <3>2. i - Len(ms) = Len(q) /\ t[i].from = "assistant"
      BY <1>4, <3>1 DEF OnlyLastPending
    <3> QED
      BY <1>1, <1>2, <3>2
  <2> QED
    BY <1>1, <1>2, <2>1, <2>2
<1>5. OnlyLastPending(t)
  BY <1>4 DEF OnlyLastPending
<1> QED
  BY <1>2, <1>3, <1>5 DEF t

LEMMA AskStep ==
  ASSUME PageInv, ~ isGenerating, loaded, NEW k \in Keys, nextKey <= k, sendChat(k),
         nextKey' = k + 1, stream' = stream, loaded' = loaded, visits' = visits,
         NEW ms \in Seq(Message), ms # <<>>, OnlyLastPending(ms), updateMessages(ms),
         editing' \in Keys \cup {None}, dirty' \in BOOLEAN
  PROVE  PageInv'
<1>1. messages' = ms /\ saved' = saved /\ StoreTypes'
  BY MessagesUpdated DEF PageInv, updateMessages
<1>2. RequestTypes' /\ NetTypes' /\ Requests' /\ Sources' /\ isGenerating'
  BY SentRun
<1>3. nextKey' \in 1 .. MaxKey + 1
  BY PlaygroundAssumption DEF Keys
<1>4. PageTypes'
  BY <1>1, <1>3 DEF PageInv, Types, PageTypes
<1>5. Shown' /\ Waiting'
  BY <1>1, <1>2 DEF PageInv, Shown, Waiting
<1> QED
  BY <1>1, <1>2, <1>4, <1>5 DEF PageInv, Types

LEMMA NewMessages ==
  ASSUME NEW k \in Keys
  PROVE  /\ createUserMessage(k) \in Message
         /\ ~ isAssistantMessagePending(createUserMessage(k))
         /\ createLoadingAssistantMessage(k) \in Message
         /\ createLoadingAssistantMessage(k).from = "assistant"
<1>1. <<>> \in Text /\ <<Notice>> \in Text
  BY NoticeText, EmptySeq DEF Text
<1>2. createUserMessage(k) \in Message
  BY <1>1 DEF createUserMessage, Message, Text
<1>3. createLoadingAssistantMessage(k) \in Message
  BY <1>1 DEF createLoadingAssistantMessage, Message, Text, Pending
<1> QED
  BY <1>2, <1>3 DEF createUserMessage, createLoadingAssistantMessage,
     isAssistantMessagePending, Pending

LEMMA SendStep == ASSUME PageInv, handleSendMessage PROVE PageInv'
<1> DEFINE k == nextKey + 1
           q == <<createUserMessage(nextKey), createLoadingAssistantMessage(nextKey + 1)>>
<1>1. ~ isGenerating /\ loaded
  BY DEF handleSendMessage, PageInv, Shown
<1>2. nextKey \in Keys /\ k \in Keys /\ nextKey <= k /\ nextKey' = k + 1
  BY PlaygroundAssumption DEF handleSendMessage, PageInv, Types, PageTypes, Keys
<1>3. q \in Seq(Message) /\ q # <<>> /\ OnlyLastPending(q)
  <2>1. /\ createUserMessage(nextKey) \in Message
        /\ ~ isAssistantMessagePending(createUserMessage(nextKey))
        /\ createLoadingAssistantMessage(nextKey + 1) \in Message
        /\ createLoadingAssistantMessage(nextKey + 1).from = "assistant"
    BY <1>2, NewMessages
  <2> QED
    BY <2>1 DEF OnlyLastPending
<1>4. messages \in Seq(Message) /\ NonePending(messages)
  BY <1>1 DEF PageInv, Types, PageTypes, Waiting
<1>5. /\ updateMessages(messages \o q) /\ sendChat(k)
      /\ stream' = stream /\ loaded' = loaded /\ visits' = visits
      /\ editing' \in Keys \cup {None} /\ dirty' \in BOOLEAN
  BY DEF handleSendMessage, PageInv, Types, PageTypes, past
<1> HIDE DEF k, q
<1>6. messages \o q \in Seq(Message) /\ messages \o q # <<>> /\ OnlyLastPending(messages \o q)
  BY <1>3, <1>4, AskedMessages
<1> QED
  BY <1>1, <1>2, <1>5, <1>6, AskStep

\* The messages up to n, and an answer to come.
LEMMA AskAgainStep ==
  ASSUME PageInv, ~ isGenerating, loaded, NEW n \in 0 .. Len(messages), nextKey <= MaxKey,
         updateMessages(SubSeq(messages, 1, n) \o <<createLoadingAssistantMessage(nextKey)>>),
         sendChat(nextKey), nextKey' = nextKey + 1,
         stream' = stream, loaded' = loaded, visits' = visits,
         editing' \in Keys \cup {None}, dirty' \in BOOLEAN
  PROVE  PageInv'
<1> DEFINE q == <<createLoadingAssistantMessage(nextKey)>>
           kept == SubSeq(messages, 1, n)
<1>1. messages \in Seq(Message) /\ NonePending(messages) /\ Len(messages) \in Nat
  BY MessageTypes DEF PageInv, Waiting
<1>2. nextKey \in Keys /\ nextKey <= nextKey
  BY PlaygroundAssumption DEF PageInv, Types, PageTypes, Keys
<1>3. q \in Seq(Message) /\ q # <<>> /\ OnlyLastPending(q)
  <2>1. /\ createLoadingAssistantMessage(nextKey) \in Message
        /\ createLoadingAssistantMessage(nextKey).from = "assistant"
    BY <1>2, NewMessages
  <2> QED
    BY <2>1 DEF OnlyLastPending
<1>4. kept \in Seq(Message) /\ NonePending(kept)
  <2>1. 1 \in Nat \ {0} /\ n \in Int /\ n <= Len(messages)
    BY <1>1
  <2>2. /\ kept \in Seq(Message) /\ Len(kept) = IF 1 <= n THEN n - 1 + 1 ELSE 0
        /\ \A j \in 1 .. Len(kept) : kept[j] = messages[1 + j - 1]
    BY <1>1, <2>1, SubText
  <2> HIDE DEF kept
  <2>3. \A j \in 1 .. Len(kept) : 1 + j - 1 \in 1 .. Len(messages)
    BY <1>1, <2>1, <2>2
  <2> QED
    BY <1>1, <2>2, <2>3 DEF NonePending
<1> HIDE DEF q, kept
<1>5. kept \o q \in Seq(Message) /\ kept \o q # <<>> /\ OnlyLastPending(kept \o q)
  BY <1>3, <1>4, AskedMessages
<1>6. updateMessages(kept \o q)
  BY DEF kept, q
<1> QED
  BY <1>2, <1>5, <1>6, AskStep

LEMMA RegenerateStep ==
  ASSUME PageInv, NEW i \in DOMAIN messages, handleRegenerateMessage(i)
  PROVE  PageInv'
<1> DEFINE n == IF messages[i].from = "user" THEN i ELSE i - 1
<1>1. n \in 0 .. Len(messages)
  BY MessageTypes
<1>2. /\ updateMessages(SubSeq(messages, 1, n) \o <<createLoadingAssistantMessage(nextKey)>>)
      /\ ~ isGenerating /\ loaded /\ nextKey <= MaxKey
      /\ sendChat(nextKey) /\ nextKey' = nextKey + 1
      /\ stream' = stream /\ loaded' = loaded /\ visits' = visits
      /\ editing' \in Keys \cup {None} /\ dirty' \in BOOLEAN
  BY DEF handleRegenerateMessage, createRegeneratedMessages, PageInv, Types, PageTypes,
     past
<1> HIDE DEF n
<1> QED
  BY <1>1, <1>2, AskAgainStep

LEMMA SubmitStep ==
  ASSUME PageInv, ~ crossed', NEW i \in DOMAIN messages, SaveEditAndSubmit(i)
  PROVE  PageInv'
<1>1. i \in 0 .. Len(messages) /\ loaded
  BY MessageTypes DEF PageInv, Shown
<1>2. /\ updateMessages(SubSeq(messages, 1, i) \o <<createLoadingAssistantMessage(nextKey)>>)
      /\ ~ isGenerating /\ nextKey <= MaxKey
      /\ sendChat(nextKey) /\ nextKey' = nextKey + 1
      /\ stream' = stream /\ loaded' = loaded /\ visits' = visits
      /\ editing' \in Keys \cup {None} /\ dirty' \in BOOLEAN
  BY DEF SaveEditAndSubmit
<1> QED
  BY <1>1, <1>2, AskAgainStep

-----------------------------------------------------------------------------
(* The stream.                                                             *)

LEMMA ChunkStep ==
  ASSUME PageInv, NEW n \in ChunkSizes, handleStreamUpdate(n)
  PROVE  PageInv'
<1> DEFINE chunk == [i \in 1 .. n |-> source.ex]
<1>1. isStreaming /\ source.ex \in Keys
  BY DEF handleStreamUpdate, PageInv, Types, NetTypes, isStreaming, NoSource
<1>2. chunk \in Seq(Keys)
  BY <1>1, PlaygroundAssumption
<1> HIDE DEF chunk
<1>3. pending' \in Seq(Keys)
  BY <1>2, ConcatProperties DEF handleStreamUpdate, mergePendingStreamChunk, PageInv,
     Types, NetTypes, chunk
<1>4. NetTypes'
  BY <1>3, PlaygroundAssumption DEF handleStreamUpdate, PageInv, Types, NetTypes
<1>5. /\ messages' = messages /\ UNCHANGED store /\ source' = source /\ UNCHANGED request
      /\ dirty' = dirty /\ loaded' = loaded /\ editing' = editing /\ stream' = stream
      /\ nextKey' = nextKey /\ visits' = visits
  BY DEF handleStreamUpdate, answerFrame, past
<1>6. RequestTypes' /\ StoreTypes' /\ PageTypes'
  BY <1>5, RequestKept, StoreKept DEF PageInv, Types, RequestTypes, StoreTypes, PageTypes
<1>7. Requests'
  BY <1>5, RequestKept DEF PageInv, Requests, Running
<1>8. Sources' /\ Shown' /\ Waiting'
  BY <1>1, <1>5, RequestKept, StoreKept DEF PageInv, Sources, Shown, Waiting,
     isGenerating, isStreaming
<1> QED
  BY <1>4, <1>6, <1>7, <1>8 DEF PageInv, Types

\* A listener closes the source but the page goes on waiting.
LEMMA SilentCloseStep == ASSUME PageInv, closedWithoutDone PROVE PageInv'
<1>1. isStreaming /\ source.ex \in Keys
  BY DEF closedWithoutDone, PageInv, Types, NetTypes, isStreaming, NoSource
<1>2. /\ source' \in [ex : Keys \cup {None}, open : BOOLEAN]
      /\ source'.ex = source.ex
  BY DEF closedWithoutDone, PageInv, Types, NetTypes
<1>3. source' # NoSource
  BY <1>1, <1>2, NotKeys DEF NoSource
<1>4. /\ messages' = messages /\ UNCHANGED store /\ pending' = pending /\ UNCHANGED request
      /\ flushTimer' = flushTimer /\ chunks' = chunks
      /\ dirty' = dirty /\ loaded' = loaded /\ editing' = editing /\ stream' = stream
      /\ nextKey' = nextKey /\ visits' = visits
  BY DEF closedWithoutDone, answerFrame, past
<1>5. RequestTypes' /\ StoreTypes' /\ PageTypes'
  BY <1>4, RequestKept, StoreKept DEF PageInv, Types, RequestTypes, StoreTypes, PageTypes
<1>6. NetTypes'
  BY <1>1, <1>2, <1>4 DEF PageInv, Types, NetTypes
<1>7. Requests'
  BY <1>4, RequestKept DEF PageInv, Requests, Running
<1>8. Sources' /\ Shown' /\ Waiting'
  BY <1>1, <1>3, <1>4, RequestKept, StoreKept DEF PageInv, Sources, Shown, Waiting,
     isGenerating, isStreaming
<1> QED
  BY <1>5, <1>6, <1>7, <1>8 DEF PageInv, Types

\* The conversation b after an answer's handler: at most the last message has
\* changed, and only when it is the assistant's.
Answered(b) ==
    /\ b \in Seq(Message) /\ Len(b) = Len(messages)
    /\ \A j \in 1 .. Len(messages) :
         /\ b[j].from = messages[j].from
         /\ j # Len(messages) \/ messages[j].from # "assistant" => b[j] = messages[j]

LEMMA AnsweredPending ==
  ASSUME PageInv, NEW b, Answered(b)
  PROVE  OnlyLastPending(b) /\ (b = <<>> <=> messages = <<>>)
<1>1. Len(messages) \in Nat /\ Len(b) = Len(messages)
  BY MessageTypes DEF Answered
<1>2. b = <<>> <=> messages = <<>>
  BY <1>1, MessageTypes, EmptySeq DEF Answered
<1>3. OnlyLastPending(b)
  BY <1>1 DEF Answered, OnlyLastPending, PageInv, Waiting
<1> QED
  BY <1>2, <1>3

LEMMA FlushedAnswered == PageInv => Answered(flushed)
  BY FlushedMessages DEF PageInv, Answered

\* The answer ends: its message waits no more.
LEMMA EndedMessages ==
  ASSUME PageInv, NEW b, Answered(b), NEW u,
         b # <<>> => u \in Message /\ u.from = Last(b).from /\ ~ isAssistantMessagePending(u)
  PROVE  /\ Answered(updateLastAssistantMessage(b, u))
         /\ NonePending(updateLastAssistantMessage(b, u))
<1> DEFINE t == updateLastAssistantMessage(b, u)
<1>0. b \in Seq(Message) /\ Len(b) = Len(messages) /\ Len(b) \in Nat
  BY MessageTypes DEF Answered
<1>1. /\ t \in Seq(Message) /\ Len(t) = Len(b)
      /\ \A j \in 1 .. Len(b) :
           t[j] = IF j = Len(b) /\ b[j].from = "assistant" THEN u ELSE b[j]
  BY <1>0, LastUpdated
<1>2. \A j \in 1 .. Len(b) : b # <<>>
  BY <1>0, EmptySeq
<1> HIDE DEF t
<1>3. Answered(t)
  BY <1>0, <1>1, <1>2 DEF Answered, Last
<1>4. ASSUME NEW j \in 1 .. Len(t), isAssistantMessagePending(t[j]) PROVE FALSE
  <2>1. OnlyLastPending(b)
    BY AnsweredPending
  <2>2. CASE j = Len(b) /\ b[j].from = "assistant"
    BY <1>0, <1>1, <1>2, <1>4, <2>2
  <2>3. CASE ~ (j = Len(b) /\ b[j].from = "assistant")
    BY <1>0, <1>1, <1>4, <2>1, <2>3 DEF OnlyLastPending
  <2> QED
    BY <2>2, <2>3
<1>5. NonePending(t)
  BY <1>4 DEF NonePending
<1> QED
  BY <1>3, <1>5 DEF t

LEMMA AnswerStep ==
  ASSUME PageInv, NEW ms, Answered(ms), updateMessages(ms), UNCHANGED answerFrame, KeepEditor,
         RequestTypes', NetTypes', Requests', Sources',
         isGenerating' => isGenerating, ~ isGenerating' => NonePending(ms)
  PROVE  PageInv'
<1>1. messages' = ms /\ saved' = saved /\ StoreTypes'
  BY MessagesUpdated DEF PageInv, updateMessages, Answered
<1>2. /\ loaded' = loaded /\ editing' = editing /\ stream' = stream /\ nextKey' = nextKey
      /\ visits' = visits
  BY DEF answerFrame, past
<1>3. dirty' \in BOOLEAN
  BY DEF KeepEditor
<1>4. PageTypes'
  BY <1>1, <1>2, <1>3 DEF PageInv, Types, PageTypes, Answered
<1>5. OnlyLastPending(ms) /\ (ms = <<>> <=> messages = <<>>)
  BY AnsweredPending
<1>6. Shown' /\ Waiting'
  BY <1>1, <1>2, <1>5 DEF PageInv, Shown, Waiting
<1> QED
  BY <1>1, <1>4, <1>6 DEF PageInv, Types

\* The chunks that waited are shown.
LEMMA FlushStep == ASSUME PageInv, flushTimerFires PROVE PageInv'
<1>1. source' = source /\ pending' = <<>> /\ flushTimer' = FALSE /\ chunks' = chunks
      /\ UNCHANGED request /\ UNCHANGED answerFrame /\ KeepEditor
  BY DEF flushTimerFires, FlushStreamUpdates
<1>2. /\ loaded' = loaded /\ editing' = editing /\ stream' = stream /\ nextKey' = nextKey
      /\ visits' = visits
  BY <1>1 DEF answerFrame, past
<1>3. NetTypes'
  BY <1>1, EmptySeq DEF PageInv, Types, NetTypes
<1>4. RequestTypes' /\ Requests'
  BY <1>1, <1>2, RequestKept DEF PageInv, Types, RequestTypes, Requests, Running
<1>5. Sources' /\ isGenerating' = isGenerating
  BY <1>1, <1>2, RequestKept DEF PageInv, Sources, isGenerating, isStreaming
<1>6. CASE pending = <<>>
  <2>1. messages' = messages /\ UNCHANGED store
    BY <1>6 DEF flushTimerFires
  <2>2. dirty' \in BOOLEAN
    BY <1>1 DEF KeepEditor
  <2>3. StoreTypes' /\ PageTypes'
    BY <1>2, <2>1, <2>2, StoreKept DEF PageInv, Types, StoreTypes, PageTypes
  <2>4. Shown' /\ Waiting'
    BY <1>2, <1>5, <2>1, StoreKept DEF PageInv, Shown, Waiting
  <2> QED
    BY <1>3, <1>4, <1>5, <2>3, <2>4 DEF PageInv, Types
<1>7. CASE pending # <<>>
  <2>1. updateMessages(flushed) /\ isGenerating
    BY <1>7 DEF flushTimerFires, PageInv, Sources, isGenerating
  <2> QED
    BY <1>1, <1>3, <1>4, <1>5, <2>1, FlushedAnswered, AnswerStep
<1> QED
  BY <1>6, <1>7

\* What the handlers make of the last message.
LEMMA EndedUpdates ==
  ASSUME NEW m \in Message
  PROVE  /\ LET u == IF isAssistantMessageFinal(m) THEN m ELSE completeAssistantMessage(m)
            IN  u \in Message /\ u.from = m.from /\ ~ isAssistantMessagePending(u)
         /\ LET u == IF isAssistantMessagePending(m) THEN completeAssistantMessage(m) ELSE m
            IN  u \in Message /\ u.from = m.from /\ ~ isAssistantMessagePending(u)
         /\ \A t \in Text : \A st \in Final :
              LET u == [m EXCEPT !.text = t, !.status = st]
              IN  u \in Message /\ u.from = m.from /\ ~ isAssistantMessagePending(u)
<1>1. LET u == IF isAssistantMessageFinal(m) THEN m ELSE completeAssistantMessage(m)
      IN  u \in Message /\ u.from = m.from /\ ~ isAssistantMessagePending(u)
  BY Completed DEF isAssistantMessageFinal, isAssistantMessagePending, Final, Pending
<1>2. LET u == IF isAssistantMessagePending(m) THEN completeAssistantMessage(m) ELSE m
      IN  u \in Message /\ u.from = m.from /\ ~ isAssistantMessagePending(u)
  BY Completed DEF isAssistantMessagePending, Pending
<1>3. ASSUME NEW t \in Text, NEW st \in Final
      PROVE  LET u == [m EXCEPT !.text = t, !.status = st]
             IN  u \in Message /\ u.from = m.from /\ ~ isAssistantMessagePending(u)
  BY DEF Message, Text, Final, Pending, isAssistantMessagePending
<1> QED
  BY <1>1, <1>2, <1>3

LEMMA ErrorMessages ==
  ASSUME PageInv
  PROVE  /\ Answered(updateAssistantMessageWithError(flushed))
         /\ NonePending(updateAssistantMessageWithError(flushed))
<1> DEFINE u == [Last(flushed) EXCEPT !.text = <<Notice>>, !.status = "error"]
<1>1. flushed \in Seq(Message)
  BY FlushedAnswered DEF Answered
<1>2. flushed # <<>> => u \in Message /\ u.from = Last(flushed).from
                        /\ ~ isAssistantMessagePending(u)
  <2>1. "error" \in Final
    BY DEF Final
  <2> QED
    BY <1>1, <2>1, LastIsMessage, NoticeText, EndedUpdates
<1>3. updateAssistantMessageWithError(flushed) = updateLastAssistantMessage(flushed, u)
  BY DEF updateAssistantMessageWithError
<1> HIDE DEF u
<1> QED
  BY <1>2, <1>3, FlushedAnswered, EndedMessages

\* The end of the stream.
LEMMA StreamEndStep ==
  ASSUME PageInv, handleStreamComplete \/ handleStreamError
  PROVE  PageInv'
<1>1. /\ source.open /\ source' = NoSource /\ pending' = <<>> /\ flushTimer' = FALSE
      /\ requesting' = FALSE /\ chunks' = chunks /\ calls' = calls /\ requestId' = requestId
      /\ controller' = controller /\ UNCHANGED answerFrame /\ KeepEditor
  BY DEF handleStreamComplete, handleStreamError, FlushStreamUpdates
<1>2. isStreaming /\ stream /\ stream' = stream /\ nextKey' = nextKey /\ calls = {}
  BY <1>1 DEF PageInv, Sources, Requests, isStreaming, NoSource, answerFrame
<1>3. NetTypes'
  <2>1. NoSource \in [ex : Keys \cup {None}, open : BOOLEAN]
    BY DEF NoSource
  <2> QED
    BY <1>1, <2>1, EmptySeq DEF PageInv, Types, NetTypes
<1>4. RequestTypes' /\ Requests'
  BY <1>1, <1>2 DEF PageInv, Types, RequestTypes, Requests
<1>5. Sources' /\ ~ isGenerating'
  BY <1>1 DEF Sources, isGenerating, isStreaming
<1>6. CASE handleStreamComplete
  <2> DEFINE u == IF isAssistantMessageFinal(Last(flushed)) THEN Last(flushed)
                  ELSE completeAssistantMessage(Last(flushed))
  <2>1. updateMessages(updateLastAssistantMessage(flushed, u))
    BY <1>6 DEF handleStreamComplete
  <2>2. flushed \in Seq(Message)
    BY FlushedAnswered DEF Answered
  <2>3. flushed # <<>> => u \in Message /\ u.from = Last(flushed).from
                          /\ ~ isAssistantMessagePending(u)
    BY <2>2, LastIsMessage, EndedUpdates
  <2> HIDE DEF u
  <2>4. /\ Answered(updateLastAssistantMessage(flushed, u))
        /\ NonePending(updateLastAssistantMessage(flushed, u))
    BY <2>3, FlushedAnswered, EndedMessages
  <2> QED
    BY <1>1, <1>3, <1>4, <1>5, <2>1, <2>4, AnswerStep
<1>7. CASE handleStreamError
  <2>1. updateMessages(updateAssistantMessageWithError(flushed))
    BY <1>7 DEF handleStreamError
  <2> QED
    BY <1>1, <1>3, <1>4, <1>5, <2>1, ErrorMessages, AnswerStep
<1> QED
  BY <1>6, <1>7

-----------------------------------------------------------------------------
(* Stop, and the end of a call.                                            *)

\* Stop aborts the call that runs: after it none does.
LEMMA StopStep == ASSUME PageInv, stopGeneration PROVE PageInv'
<1> DEFINE abort(c) == [c EXCEPT !.aborted = @ \/ c.ex = controller]
<1>1. /\ source' = NoSource /\ pending' = <<>> /\ flushTimer' = FALSE /\ requesting' = FALSE
      /\ chunks' = chunks /\ requestId' = requestId /\ controller' = None
      /\ calls' = {abort(c) : c \in calls}
      /\ UNCHANGED answerFrame /\ KeepEditor /\ isGenerating
  BY DEF stopGeneration, FlushStreamUpdates
<1>2. stream' = stream /\ nextKey' = nextKey
  BY <1>1 DEF answerFrame
<1>3. NetTypes'
  <2>1. NoSource \in [ex : Keys \cup {None}, open : BOOLEAN]
    BY DEF NoSource
  <2> QED
    BY <1>1, <2>1, EmptySeq DEF PageInv, Types, NetTypes
<1>4. \A c \in calls : abort(c) = [ex |-> c.ex, aborted |-> TRUE]
  <2> SUFFICES ASSUME NEW c \in calls PROVE abort(c) = [ex |-> c.ex, aborted |-> TRUE]
    OBVIOUS
  <2>1. c \in [ex : Keys, aborted : BOOLEAN] /\ (c.aborted \/ c.ex = controller)
    BY DEF PageInv, Types, RequestTypes, Requests
  <2>2. abort(c) = [ex |-> c.ex, aborted |-> c.aborted \/ c.ex = controller]
    BY <2>1
  <2>3. (c.aborted \/ c.ex = controller) = TRUE
    BY <2>1
  <2> QED
    BY <2>2, <2>3, Zenon
<1> HIDE DEF abort
<1>5. \A d \in calls' : \E c \in calls : d = [ex |-> c.ex, aborted |-> TRUE]
  BY <1>1, <1>4
<1>6. RequestTypes'
  <2>1. \A c \in calls : c.ex \in Keys
    BY DEF PageInv, Types, RequestTypes
  <2>2. ASSUME NEW d \in calls' PROVE d \in [ex : Keys, aborted : BOOLEAN]
    <3>1. PICK c \in calls : d = [ex |-> c.ex, aborted |-> TRUE]
      BY <1>5
    <3> QED
      BY <2>1, <3>1
  <2> QED
    BY <1>1, <2>2 DEF PageInv, Types, RequestTypes
<1>7. Requests'
  <2>1. \A c \in calls : c.ex \in 1 .. nextKey - 1
    BY DEF PageInv, Requests
  <2>2. ASSUME NEW d \in calls'
        PROVE  d \in [ex : 1 .. nextKey - 1, aborted : BOOLEAN] /\ d.aborted
    <3>1. PICK c \in calls : d = [ex |-> c.ex, aborted |-> TRUE]
      BY <1>5
    <3>2. d \in [ex : 1 .. nextKey - 1, aborted : BOOLEAN]
      BY <2>1, <3>1
    <3> QED
      BY <3>1, <3>2
  <2>3. \A c \in calls' : c.aborted
    BY <2>2
  <2>4. ASSUME NEW c \in calls', NEW d \in calls', c.ex = d.ex PROVE c = d
    <3>1. PICK e \in calls : c = [ex |-> e.ex, aborted |-> TRUE]
      BY <1>5
    <3>2. PICK f \in calls : d = [ex |-> f.ex, aborted |-> TRUE]
      BY <1>5
    <3>3. c.ex = e.ex /\ d.ex = f.ex
      BY <3>1, <3>2
    <3> QED
      BY <2>4, <3>1, <3>2, <3>3
  <2>5. stream => calls' = {}
    BY <1>1 DEF PageInv, Requests
  <2> QED
    BY <1>1, <1>2, <2>2, <2>3, <2>4, <2>5 DEF Requests
<1>8. Sources' /\ ~ isGenerating'
  BY <1>1 DEF Sources, isGenerating, isStreaming
<1> DEFINE u == IF isAssistantMessagePending(Last(flushed))
                THEN completeAssistantMessage(Last(flushed)) ELSE Last(flushed)
<1>9. updateMessages(updateLastAssistantMessage(flushed, u))
  BY DEF stopGeneration
<1>10. flushed \in Seq(Message)
  BY FlushedAnswered DEF Answered
<1>11. flushed # <<>> => u \in Message /\ u.from = Last(flushed).from
                         /\ ~ isAssistantMessagePending(u)
  BY <1>10, LastIsMessage, EndedUpdates
<1> HIDE DEF u
<1>12. /\ Answered(updateLastAssistantMessage(flushed, u))
       /\ NonePending(updateLastAssistantMessage(flushed, u))
  BY <1>11, FlushedAnswered, EndedMessages
<1> QED
  BY <1>1, <1>3, <1>6, <1>7, <1>8, <1>9, <1>12, AnswerStep

\* The finally block: the end of an aborted call is not the end of another.
LEMMA CallFinished ==
  ASSUME PageInv, NEW c \in calls, NEW now \in BOOLEAN, FinishCall(c, now),
         c.aborted => now = requesting, stream' = stream, nextKey' = nextKey,
         source' = source
  PROVE  /\ RequestTypes' /\ Requests'
         /\ c.aborted => requesting' = requesting
         /\ ~ c.aborted => ~ requesting'
         /\ ~ isStreaming
<1>0. calls' = calls \ {c} /\ requestId' = requestId /\ ~ stream
  BY DEF FinishCall, PageInv, Requests
<1>1. c.aborted \in BOOLEAN /\ now \in BOOLEAN /\ requesting \in BOOLEAN
  BY DEF PageInv, Types, RequestTypes
<1>2. CASE c.aborted
  <2>1. requestId = c.ex => ~ requesting
    BY <1>0, <1>2 DEF PageInv, Requests, Running
  <2>2. requesting' = requesting /\ (controller' = controller \/ (controller' = None /\ ~ requesting))
    BY <1>1, <1>2, <2>1 DEF FinishCall
  <2>3. RequestTypes'
    BY <1>0, <1>1, <2>2 DEF PageInv, Types, RequestTypes
  <2>4. Requests'
    BY <1>0, <1>2, <2>1, <2>2 DEF PageInv, Requests, Running
  <2> QED
    BY <1>0, <1>2, <2>2, <2>3, <2>4 DEF PageInv, Sources
<1>3. CASE ~ c.aborted
  <2>1. requestId = c.ex
    BY <1>3 DEF PageInv, Requests
  <2>2. requesting' = FALSE /\ controller' = None
    BY <2>1 DEF FinishCall
  <2>3. RequestTypes'
    BY <1>0, <2>2 DEF PageInv, Types, RequestTypes
  <2>4. \A d \in calls' : d.aborted
    BY <1>0, <2>1 DEF PageInv, Requests
  <2>5. Requests'
    BY <1>0, <2>2, <2>4 DEF PageInv, Requests
  <2> QED
    BY <1>0, <1>3, <2>2, <2>3, <2>5 DEF PageInv, Sources
<1> QED
  BY <1>1, <1>2, <1>3

LEMMA CallAbortedStep ==
  ASSUME PageInv, NEW c \in calls, callAborted(c)
  PROVE  PageInv'
<1>1. /\ c.aborted /\ FinishCall(c, requesting) /\ messages' = messages /\ dirty' = dirty
      /\ UNCHANGED net /\ UNCHANGED store
      /\ loaded' = loaded /\ editing' = editing /\ stream' = stream /\ nextKey' = nextKey
      /\ visits' = visits
  BY DEF callAborted, answerFrame, past
<1>2. requesting \in BOOLEAN /\ source' = source
  BY <1>1, NetKept DEF PageInv, Types, RequestTypes
<1>3. RequestTypes' /\ Requests' /\ requesting' = requesting
  BY <1>1, <1>2, CallFinished
<1>4. NetTypes' /\ StoreTypes' /\ PageTypes'
  BY <1>1, NetKept, StoreKept DEF PageInv, Types, NetTypes, StoreTypes, PageTypes
<1>5. Sources' /\ Shown' /\ Waiting'
  BY <1>1, <1>3, NetKept, StoreKept DEF PageInv, Sources, Shown, Waiting, isGenerating,
     isStreaming
<1> QED
  BY <1>3, <1>4, <1>5 DEF PageInv, Types

LEMMA CallEndedRun ==
  ASSUME PageInv, NEW c \in calls, ~ c.aborted, NEW now \in BOOLEAN, FinishCall(c, now),
         UNCHANGED answerFrame, source' = source, chunks' = chunks,
         \/ pending' = pending /\ flushTimer' = flushTimer
         \/ pending' = <<>> /\ flushTimer' = FALSE
  PROVE  /\ RequestTypes' /\ Requests' /\ NetTypes' /\ Sources'
         /\ isGenerating /\ ~ isGenerating'
<1>1. stream' = stream /\ nextKey' = nextKey
  BY DEF answerFrame
<1>2. RequestTypes' /\ Requests' /\ ~ requesting' /\ ~ isStreaming
  BY <1>1, CallFinished
<1>3. NetTypes'
  BY EmptySeq DEF PageInv, Types, NetTypes
<1>4. Sources' /\ ~ isGenerating'
  BY <1>2 DEF PageInv, Sources, isGenerating, isStreaming
<1>5. isGenerating
  BY DEF PageInv, Requests, isGenerating
<1> QED
  BY <1>2, <1>3, <1>4, <1>5

LEMMA CallAnsweredStep ==
  ASSUME PageInv, NEW c \in calls, NEW n \in {0, 1}, callAnswered(c, n)
  PROVE  PageInv'
<1> DEFINE text == [i \in 1 .. n |-> c.ex]
           u == [Last(messages) EXCEPT !.text = text, !.status = "complete"]
           ms == updateLastAssistantMessage(messages, u)
<1>1. /\ ~ c.aborted /\ updateMessages(ms) /\ FinishCall(c, requesting) /\ KeepEditor
      /\ UNCHANGED net /\ UNCHANGED answerFrame
  BY DEF callAnswered, applyChatCompletionResponse
<1>2. c.ex \in Keys /\ requesting \in BOOLEAN
  BY DEF PageInv, Types, RequestTypes
<1>3. text \in Text
  BY <1>2 DEF Text
<1>4. "complete" \in Final
  BY DEF Final
<1> HIDE DEF text
<1>5. messages \in Seq(Message) /\ Answered(messages)
  BY MessageTypes DEF Answered
<1>6. messages # <<>> => u \in Message /\ u.from = Last(messages).from
                         /\ ~ isAssistantMessagePending(u)
  BY <1>3, <1>4, <1>5, LastIsMessage, EndedUpdates
<1> HIDE DEF u
<1>7. Answered(ms) /\ NonePending(ms)
  BY <1>5, <1>6, EndedMessages
<1>8. /\ RequestTypes' /\ Requests' /\ NetTypes' /\ Sources'
      /\ isGenerating /\ ~ isGenerating'
  BY <1>1, <1>2, NetKept, CallEndedRun
<1> HIDE DEF ms
<1> QED
  BY <1>1, <1>7, <1>8, AnswerStep

LEMMA CallFailedStep ==
  ASSUME PageInv, NEW c \in calls, callFailed(c)
  PROVE  PageInv'
<1> DEFINE ms == updateAssistantMessageWithError(flushed)
<1>1. /\ ~ c.aborted /\ updateMessages(ms) /\ FinishCall(c, FALSE) /\ KeepEditor
      /\ pending' = <<>> /\ flushTimer' = FALSE /\ source' = source /\ chunks' = chunks
      /\ UNCHANGED answerFrame
  BY DEF callFailed, FlushStreamUpdates
<1>2. Answered(ms) /\ NonePending(ms)
  BY ErrorMessages
<1>3. /\ RequestTypes' /\ Requests' /\ NetTypes' /\ Sources'
      /\ isGenerating /\ ~ isGenerating'
  BY <1>1, CallEndedRun
<1> HIDE DEF ms
<1> QED
  BY <1>1, <1>2, <1>3, AnswerStep

-----------------------------------------------------------------------------
(* The storage.                                                            *)

LEMMA StoredMessages ==
  ASSUME Types, OnlyLastPending(saved), NEW ms \in Seq(Message), OnlyLastPending(ms),
         \/ saveMessages(ms)
         \/ saved' = saved /\ stale' = stale /\ faults' = faults
         \/ saved' = <<>> /\ stale' = FALSE /\ faults' = faults
         \/ saved' = trimMessages(ms) /\ stale' = TRUE /\ faults' = faults
  PROVE  /\ saved' \in Seq(Message) /\ OnlyLastPending(saved)'
         /\ stale' \in BOOLEAN /\ faults' \in 0 .. MaxSaveFaults
<1>1. saved' \in {saved, <<>>, trimMessages(ms)}
  BY DEF saveMessages
<1>2. \A t \in {saved, <<>>, trimMessages(ms)} : t \in Seq(Message) /\ OnlyLastPending(t)
  <2>1. trimMessages(ms) \in Seq(Message) /\ OnlyLastPending(trimMessages(ms))
    BY TrimmedIsTail, TailOnlyLastPending
  <2>2. <<>> \in Seq(Message) /\ OnlyLastPending(<<>>)
    BY EmptySeq DEF OnlyLastPending
  <2> QED
    BY <2>1, <2>2 DEF Types, StoreTypes
<1>3. OnlyLastPending(saved)'
  BY <1>1, <1>2 DEF OnlyLastPending
<1>4. stale' \in BOOLEAN
  BY DEF saveMessages, Types, StoreTypes
<1>5. faults' \in 0 .. MaxSaveFaults
  BY PlaygroundAssumption DEF saveMessages, Types, StoreTypes
<1> QED
  BY <1>1, <1>2, <1>3, <1>4, <1>5

LEMMA SaveStep == ASSUME PageInv, saveTimerFires PROVE PageInv'
<1>1. /\ RunFrame /\ messages' = messages /\ saveTimer' = FALSE
      /\ editing' = editing /\ dirty' = dirty /\ saveMessages(messages)
  BY NetKept, RequestKept DEF saveTimerFires, RunFrame, editor, past
<1>2. Types /\ messages \in Seq(Message) /\ OnlyLastPending(messages) /\ OnlyLastPending(saved)
  BY MessageTypes DEF PageInv, Waiting
<1>3. StoreTypes' /\ OnlyLastPending(saved)'
  BY <1>1, <1>2, StoredMessages DEF StoreTypes
<1>4. PageTypes'
  BY <1>1 DEF PageInv, Types, PageTypes, RunFrame
<1>5. ~ loaded => messages' = <<>>
  BY <1>1 DEF PageInv, Shown
<1>6. /\ RequestTypes' /\ NetTypes' /\ Requests' /\ Sources' /\ Shown'
      /\ isGenerating' = isGenerating
  BY <1>1, <1>5, RunKept
<1>7. Waiting'
  BY <1>1, <1>3, <1>6 DEF PageInv, Waiting
<1> QED
  BY <1>3, <1>4, <1>6, <1>7 DEF PageInv, Types

\* A page that is mounted anew has nothing on its way.
LEMMA MountStep == ASSUME PageInv, leavePage \/ reloadPage PROVE PageInv'
<1>1. Mounted /\ visits < MaxVisits
  BY DEF leavePage, reloadPage
<1>2. Types /\ messages \in Seq(Message) /\ OnlyLastPending(messages) /\ OnlyLastPending(saved)
  BY MessageTypes DEF PageInv, Waiting
<1>3. /\ saved' \in Seq(Message) /\ OnlyLastPending(saved)'
      /\ stale' \in BOOLEAN /\ faults' \in 0 .. MaxSaveFaults
  <2>1. \/ saveMessages(messages)
        \/ saved' = saved /\ stale' = stale /\ faults' = faults
    BY DEF leavePage, reloadPage
  <2> QED
    BY <1>2, <2>1, StoredMessages
<1>4. StoreTypes'
  BY <1>1, <1>3 DEF StoreTypes, Mounted
<1>5. RequestTypes'
  BY <1>1 DEF RequestTypes, Mounted
<1>6. NetTypes'
  <2>1. NoSource \in [ex : Keys \cup {None}, open : BOOLEAN] /\ 0 \in 0 .. MaxChunks
    BY PlaygroundAssumption DEF NoSource
  <2> QED
    BY <1>1, <2>1, EmptySeq DEF NetTypes, Mounted
<1>7. PageTypes'
  <2>1. visits' \in 0 .. MaxVisits
    BY <1>1, PlaygroundAssumption DEF PageInv, Types, PageTypes, Mounted
  <2> QED
    BY <1>1, <2>1, EmptySeq DEF PageInv, Types, PageTypes, Mounted
<1>8. Requests'
  BY <1>1 DEF Mounted, Requests
<1>9. Sources' /\ Shown' /\ ~ isGenerating'
  BY <1>1 DEF Mounted, Sources, Shown, isGenerating, isStreaming
<1>10. Waiting'
  BY <1>1, <1>3 DEF Mounted, Waiting, OnlyLastPending, NonePending
<1> QED
  BY <1>4, <1>5, <1>6, <1>7, <1>8, <1>9, <1>10 DEF PageInv, Types

LEMMA LoadStep == ASSUME PageInv, loadOnMount PROVE PageInv'
<1>1. /\ ~ loaded /\ loaded' = TRUE /\ messages' = loadMessages(saved)
      /\ UNCHANGED net /\ UNCHANGED request /\ saveTimer' = saveTimer
      /\ editing' = editing /\ dirty' = dirty /\ stream' = stream
      /\ nextKey' = nextKey /\ visits' = visits
  BY DEF loadOnMount, editor, past
<1>2. Types /\ saved \in Seq(Message) /\ OnlyLastPending(saved) /\ ~ isGenerating
  BY <1>1 DEF PageInv, Types, StoreTypes, Waiting, Shown
<1>3. messages' \in Seq(Message) /\ NonePending(messages')
  BY <1>1, <1>2, LoadedMessages
<1>4. OnlyLastPending(messages')
  BY <1>3 DEF OnlyLastPending, NonePending
<1>5. /\ saved' \in Seq(Message) /\ OnlyLastPending(saved)'
      /\ stale' \in BOOLEAN /\ faults' \in 0 .. MaxSaveFaults
  <2>1. \/ saveMessages(messages')
        \/ saved' = <<>> /\ stale' = FALSE /\ faults' = faults
    BY DEF loadOnMount
  <2> QED
    BY <1>2, <1>3, <1>4, <2>1, StoredMessages
<1>6. RequestTypes' /\ NetTypes' /\ StoreTypes' /\ PageTypes'
  BY <1>1, <1>3, <1>5, NetKept, RequestKept
     DEF PageInv, Types, RequestTypes, NetTypes, StoreTypes, PageTypes
<1>7. Requests'
  BY <1>1, RequestKept DEF PageInv, Requests, Running
<1>8. Sources' /\ Shown' /\ ~ isGenerating'
  BY <1>1, <1>2, NetKept, RequestKept DEF PageInv, Sources, Shown, isGenerating,
     isStreaming
<1>9. Waiting'
  BY <1>3, <1>5, <1>8 DEF Waiting, OnlyLastPending, NonePending
<1> QED
  BY <1>6, <1>7, <1>8, <1>9 DEF PageInv, Types

-----------------------------------------------------------------------------
(* Pages that were left.                                                   *)

LEMMA InitLateInv == Init => LateInv
  BY DEF Init, LateInv

LEMMA PastStep ==
  ASSUME [Next]_vars
  PROVE  \/ UNCHANGED past
         \/ \E i \in DOMAIN messages : SaveEditAndSubmit(i)
         \/ leavePage \/ reloadPage
         \/ \E ms \in late : leftPageSaves(ms)
         \/ \E k \in left : leftExchangeEnds(k)
<1>1. CASE handleSendMessage \/ TypeInEditor \/ CancelEdit \/ handleClearMessages
  BY <1>1 DEF handleSendMessage, TypeInEditor, CancelEdit, handleClearMessages
<1>2. CASE stopGeneration
  BY <1>2 DEF stopGeneration, answerFrame
<1>3. ASSUME NEW i \in DOMAIN messages,
             \/ handleRegenerateMessage(i) \/ handleEditMessage(i)
             \/ SaveEdit(i) \/ handleDeleteMessage(i)
      PROVE  UNCHANGED past
  BY <1>3 DEF handleRegenerateMessage, handleEditMessage, SaveEdit, handleDeleteMessage
<1>4. ASSUME NEW n \in ChunkSizes, handleStreamUpdate(n) PROVE UNCHANGED past
  BY <1>4 DEF handleStreamUpdate, answerFrame
<1>5. CASE flushTimerFires \/ StreamEnds
  BY <1>5 DEF flushTimerFires, StreamEnds, handleStreamComplete, handleStreamError,
     closedWithoutDone, answerFrame
<1>6. ASSUME NEW c \in calls, CallEnds(c) PROVE UNCHANGED past
  BY <1>6 DEF CallEnds, callAborted, callFailed, callAnswered, answerFrame
<1>7. CASE saveTimerFires \/ loadOnMount \/ UNCHANGED vars
  BY <1>7 DEF saveTimerFires, loadOnMount, vars
<1> QED
  BY <1>1, <1>2, <1>3, <1>4, <1>5, <1>6, <1>7 DEF Next, User

LEMMA CrossedStays == ASSUME [Next]_vars, crossed PROVE crossed'
<1>1. ASSUME NEW i \in DOMAIN messages, SaveEditAndSubmit(i) PROVE crossed'
  BY <1>1 DEF SaveEditAndSubmit
<1>2. CASE UNCHANGED past
  BY <1>2 DEF past
<1>3. CASE leavePage \/ reloadPage
  BY <1>3 DEF leavePage, reloadPage, Mounted
<1>4. CASE \E ms \in late : leftPageSaves(ms)
  BY <1>4 DEF leftPageSaves
<1>5. CASE \E k \in left : leftExchangeEnds(k)
  BY <1>5 DEF leftExchangeEnds
<1> QED
  BY <1>1, <1>2, <1>3, <1>4, <1>5, PastStep

\* What is left behind: what ran, and what it may make of the conversation.
LEMMA LeftBehind ==
  ASSUME [Next]_vars
  PROVE  /\ left' \subseteq left \cup Runs
         /\ \A ms \in late' :
              \/ ms \in late
              \/ \E k \in Runs : \E text \in LateTexts(k) : ms = LateMessages(text)
<1>1. CASE UNCHANGED past
  BY <1>1 DEF past
<1>2. ASSUME NEW i \in DOMAIN messages, SaveEditAndSubmit(i)
      PROVE  left' = left /\ late' = late
  BY <1>2 DEF SaveEditAndSubmit
<1>3. CASE leavePage
  <2>1. left' = left \cup Runs
    BY <1>3 DEF leavePage
  <2>2. \/ late' = late
        \/ \E t \in UNION {LateTexts(k) : k \in Runs} : late' = late \cup {LateMessages(t)}
    BY <1>3 DEF leavePage
  <2> QED
    BY <2>1, <2>2
<1>4. CASE reloadPage
  BY <1>4 DEF reloadPage
<1>5. ASSUME NEW ms \in late, leftPageSaves(ms) PROVE left' = left /\ late' \subseteq late
  BY <1>5 DEF leftPageSaves
<1>6. ASSUME NEW k \in left, leftExchangeEnds(k) PROVE left' \subseteq left /\ late' = late
  BY <1>6 DEF leftExchangeEnds
<1> QED
  BY <1>1, <1>2, <1>3, <1>4, <1>5, <1>6, PastStep

LEMMA RunKeys == ASSUME PageInv PROVE Runs \subseteq Keys
<1>1. source.open => source.ex \in Keys
  BY DEF PageInv, Types, NetTypes, NoSource
<1>2. \A c \in calls : c.ex \in Keys
  BY DEF PageInv, Types, RequestTypes
<1> QED
  BY <1>1, <1>2 DEF Runs

LEMMA LateTextOf ==
  ASSUME PageInv, NEW k \in Runs, NEW text \in LateTexts(k)
  PROVE  text \in Text /\ messages # <<>>
<1>1. k \in Keys
  BY RunKeys
<1>2. isGenerating
  BY DEF Runs, PageInv, Requests, isGenerating, isStreaming, NoSource
<1>3. messages # <<>>
  BY <1>2 DEF PageInv, Shown
<1>4. \A n \in Nat : [i \in 1 .. n |-> k] \in Text
  BY <1>1 DEF Text
<1>5. pending \in Text
  BY SeqMonotonic DEF PageInv, Types, NetTypes, Text
<1>6. \A n \in ChunkSizes : mergePendingStreamChunk(pending, [i \in 1 .. n |-> k]) \in Text
  <2> SUFFICES ASSUME NEW n \in ChunkSizes
               PROVE  mergePendingStreamChunk(pending, [i \in 1 .. n |-> k]) \in Text
    OBVIOUS
  <2>1. n \in Nat
    BY PlaygroundAssumption
  <2>2. [i \in 1 .. n |-> k] \in Text
    BY <1>4, <2>1
  <2> QED
    BY <1>5, <2>2, TextsConcat DEF mergePendingStreamChunk
<1>7. text \in Text
  BY <1>4, <1>5, <1>6 DEF LateTexts
<1> QED
  BY <1>3, <1>7

LEMMA LateMessagesOf ==
  ASSUME PageInv, NEW text \in Text, messages # <<>>
  PROVE  /\ LateMessages(text) \in Seq(Message) /\ Len(LateMessages(text)) = Len(messages)
         /\ \A j \in 1 .. Len(messages) : LateMessages(text)[j].key = messages[j].key
         /\ OnlyLastPending(LateMessages(text))
<1> DEFINE m == Last(messages)
           u == IF stream THEN applyStreamingChunk(m, text) ELSE applyChatCompletionResponse(m, text)
           ms == LateMessages(text)
<1>1. messages \in Seq(Message) /\ m \in Message /\ OnlyLastPending(messages)
      /\ m = messages[Len(messages)]
  BY MessageTypes, LastIsMessage DEF PageInv, Waiting, Last
<1> HIDE DEF m
<1>2. u \in Message /\ u.key = m.key /\ u.from = m.from
  <2>1. "complete" \in {"none"} \cup Pending \cup Final
    BY DEF Final
  <2>2. /\ applyChatCompletionResponse(m, text) \in Message
        /\ applyChatCompletionResponse(m, text).key = m.key
        /\ applyChatCompletionResponse(m, text).from = m.from
    BY <1>1, <2>1 DEF applyChatCompletionResponse, Message, Text
  <2>3. /\ applyStreamingChunk(m, text) \in Message
        /\ applyStreamingChunk(m, text).key = m.key /\ applyStreamingChunk(m, text).from = m.from
    BY <1>1, ChunkApplied
  <2> QED
    BY <2>2, <2>3
<1>3. ms = updateLastAssistantMessage(messages, u)
  BY DEF LateMessages, m
<1> HIDE DEF u, ms
<1>4. /\ ms \in Seq(Message) /\ Len(ms) = Len(messages)
      /\ \A j \in 1 .. Len(messages) :
           ms[j] = IF j = Len(messages) /\ messages[j].from = "assistant" THEN u ELSE messages[j]
  BY <1>1, <1>2, <1>3, LastUpdated
<1>5. \A j \in 1 .. Len(messages) :
        ms[j].key = messages[j].key /\ ms[j].from = messages[j].from
  BY <1>1, <1>2, <1>4
<1>6. OnlyLastPending(ms)
  BY <1>1, <1>4, <1>5 DEF OnlyLastPending
<1> QED
  BY <1>4, <1>5, <1>6 DEF ms

LEMMA LateStep == ASSUME PageInv, LateInv, [Next]_vars PROVE LateInv'
<1>1. left' \subseteq Keys
  BY LeftBehind, RunKeys DEF LateInv
<1>2. \A ms \in late' : ms \in Seq(Message) /\ OnlyLastPending(ms)
  BY LeftBehind, LateTextOf, LateMessagesOf DEF LateInv
<1>3. crossed' \in BOOLEAN
  <2>1. ASSUME NEW i \in DOMAIN messages, SaveEditAndSubmit(i) PROVE crossed' \in BOOLEAN
    BY <2>1 DEF SaveEditAndSubmit
  <2>2. CASE crossed' = crossed
    BY <2>2 DEF LateInv
  <2>3. UNCHANGED past \/ leavePage \/ reloadPage => crossed' = crossed
    BY DEF past, leavePage, reloadPage, Mounted
  <2>4. (\E ms \in late : leftPageSaves(ms)) \/ (\E k \in left : leftExchangeEnds(k))
          => crossed' = crossed
    BY DEF leftPageSaves, leftExchangeEnds
  <2> QED
    BY <2>1, <2>2, <2>3, <2>4, PastStep
<1> QED
  BY <1>1, <1>2, <1>3 DEF LateInv, OnlyLastPending

\* A page that was left writes the storage; the page shown is as it was.
LEMMA LeftSaveStep ==
  ASSUME PageInv, LateInv, NEW ms \in late, leftPageSaves(ms)
  PROVE  PageInv'
<1>1. /\ RunFrame /\ messages' = messages /\ saveTimer' = saveTimer
      /\ editing' = editing /\ dirty' = dirty
      /\ saved' = trimMessages(ms) /\ stale' = TRUE /\ faults' = faults
  BY NetKept, RequestKept DEF leftPageSaves, RunFrame, editor
<1>2. Types /\ ms \in Seq(Message) /\ OnlyLastPending(ms) /\ OnlyLastPending(saved)
  BY DEF PageInv, Waiting, LateInv
<1>3. StoreTypes' /\ OnlyLastPending(saved)'
  BY <1>1, <1>2, StoredMessages DEF Types, StoreTypes
<1>4. PageTypes'
  BY <1>1 DEF PageInv, Types, PageTypes, RunFrame
<1>5. ~ loaded => messages' = <<>>
  BY <1>1 DEF PageInv, Shown
<1>6. /\ RequestTypes' /\ NetTypes' /\ Requests' /\ Sources' /\ Shown'
      /\ isGenerating' = isGenerating
  BY <1>1, <1>5, RunKept
<1>7. Waiting'
  BY <1>1, <1>3, <1>6 DEF PageInv, Waiting
<1> QED
  BY <1>3, <1>4, <1>6, <1>7 DEF PageInv, Types

LEMMA LeftEndStep ==
  ASSUME PageInv, NEW k \in left, leftExchangeEnds(k)
  PROVE  PageInv'
<1>1. RunFrame /\ messages' = messages /\ UNCHANGED store
  BY NetKept, RequestKept DEF leftExchangeEnds, RunFrame
<1>2. editing' \in Keys \cup {None} /\ dirty' \in BOOLEAN
  BY DEF leftExchangeEnds, editor, PageInv, Types, PageTypes
<1> QED
  BY <1>1, <1>2, EditorStep

-----------------------------------------------------------------------------
(* The theorems.                                                           *)

LEMMA PageStep == ASSUME ~ crossed', PageInv, LateInv, [Next]_vars PROVE PageInv'
<1>1. CASE User
  <2>1. ASSUME NEW i \in DOMAIN messages, SaveEditAndSubmit(i) PROVE PageInv'
    BY <2>1, SubmitStep
  <2> QED
    BY <1>1, <2>1, SendStep, EditingStep, ClearStep, StopStep, RegenerateStep,
       SaveEditStep, DeleteStep DEF User
<1>2. ASSUME NEW n \in ChunkSizes, handleStreamUpdate(n) PROVE PageInv'
  BY <1>2, ChunkStep
<1>3. CASE flushTimerFires
  BY <1>3, FlushStep
<1>4. CASE StreamEnds
  BY <1>4, StreamEndStep, SilentCloseStep DEF StreamEnds
<1>5. ASSUME NEW c \in calls, CallEnds(c) PROVE PageInv'
  BY <1>5, CallAbortedStep, CallFailedStep, CallAnsweredStep DEF CallEnds
<1>6. CASE saveTimerFires \/ leavePage \/ reloadPage \/ loadOnMount
  BY <1>6, SaveStep, MountStep, LoadStep
<1>7. CASE UNCHANGED vars
  BY <1>7, EditingStep
<1>8. ASSUME NEW ms \in late, leftPageSaves(ms) PROVE PageInv'
  BY <1>8, LeftSaveStep
<1>9. ASSUME NEW k \in left, leftExchangeEnds(k) PROVE PageInv'
  BY <1>9, LeftEndStep
<1> QED
  BY <1>1, <1>2, <1>3, <1>4, <1>5, <1>6, <1>7, <1>8, <1>9 DEF Next

\* Every handler of the page, timer and end of a request keeps the invariant,
\* until an edit is submitted while an answer is on its way: from then on more
\* than one request may run.
THEOREM PageInvariance == Spec => [](crossed \/ (PageInv /\ LateInv))
<1>1. ASSUME crossed \/ (PageInv /\ LateInv), [Next]_vars
      PROVE  crossed' \/ (PageInv /\ LateInv)'
  <2>1. CASE ~ crossed'
    <3>1. PageInv /\ LateInv
      BY <1>1, <2>1, CrossedStays
    <3>2. PageInv'
      BY <1>1, <2>1, <3>1, PageStep
    <3>3. LateInv'
      BY <1>1, <3>1, LateStep
    <3> QED
      BY <3>2, <3>3
  <2> QED
    BY <2>1
<1> QED
  BY InitPageInv, InitLateInv, <1>1, PTL DEF Spec

\* The variables have their types, until an edit is submitted while an answer
\* is on its way.
THEOREM PlaygroundTypeCorrect == Spec => [](crossed \/ TypeOK)
<1>1. crossed \/ (PageInv /\ LateInv) => crossed \/ TypeOK
  BY TypesAreTypeOK DEF PageInv
<1> QED
  BY PageInvariance, <1>1, PTL

\* A stream that is open and a request that was not aborted are what Stop ends,
\* and where Stop is offered there is something to end; until an edit is
\* submitted while an answer is on its way.
THEOREM PlaygroundRunsCanBeStopped == Spec => [](crossed \/ RunsCanBeStopped)
<1>1. ASSUME PageInv PROVE RunsCanBeStopped
  <2>1. source.open => isGenerating
    BY <1>1 DEF isGenerating, isStreaming, NoSource
  <2>2. \A c \in calls : ~ c.aborted => crossed \/ (isGenerating /\ controller = c.ex)
    BY <1>1 DEF PageInv, Requests, isGenerating
  <2>3. isGenerating /\ source = NoSource => \E c \in calls : ~ c.aborted
    BY <1>1 DEF PageInv, Requests, Sources, Running, isGenerating, isStreaming
  <2> QED
    BY <2>1, <2>2, <2>3 DEF RunsCanBeStopped
<1> QED
  BY PageInvariance, <1>1, PTL

\* A message is shown as waiting only as the last one and while something runs,
\* after a reload too, whatever the storage held; until an edit is submitted
\* while an answer is on its way.
THEOREM PlaygroundPendingOnlyWhileGenerating ==
  Spec => [](crossed \/ PendingOnlyWhileGenerating)
<1>1. ASSUME PageInv PROVE PendingOnlyWhileGenerating
  BY <1>1, MessageTypes DEF PageInv, Waiting, OnlyLastPending, NonePending,
     PendingOnlyWhileGenerating
<1> QED
  BY PageInvariance, <1>1, PTL

-----------------------------------------------------------------------------
(* The stored copy.                                                        *)

\* What a step does to the conversation and its copy: nothing, a change of the
\* conversation that starts the save timer, a save, or a new page.
Kept == messages' = messages /\ loaded' = loaded /\ UNCHANGED store
Changed == \E ms : updateMessages(ms) /\ loaded' = loaded
Saved == messages' = messages /\ loaded' = loaded /\ saveMessages(messages)
Written ==
    /\ messages' = messages /\ loaded' = loaded /\ saveTimer' = saveTimer /\ stale' = TRUE
    /\ \E ms \in late : saved' = trimMessages(ms)

LEMMA StoreStep ==
  ASSUME [Next]_vars
  PROVE  Kept \/ Changed \/ Saved \/ Written \/ leavePage \/ reloadPage \/ loadOnMount
<1>1. ASSUME NEW i \in DOMAIN messages, handleRegenerateMessage(i) PROVE Changed
  BY <1>1 DEF handleRegenerateMessage, Changed
<1>2. ASSUME NEW i \in DOMAIN messages, SaveEdit(i) PROVE Changed
  BY <1>2 DEF SaveEdit, Changed
<1>3. ASSUME NEW i \in DOMAIN messages, SaveEditAndSubmit(i) PROVE Changed
  BY <1>3 DEF SaveEditAndSubmit, Changed
<1>4. ASSUME NEW i \in DOMAIN messages, handleDeleteMessage(i) PROVE Changed
  BY <1>4 DEF handleDeleteMessage, Changed
<1>5. ASSUME NEW i \in DOMAIN messages, handleEditMessage(i) PROVE Kept
  BY <1>5 DEF handleEditMessage, Kept
<1>6. CASE User
  <2>1. CASE handleSendMessage
    BY <2>1 DEF handleSendMessage, Changed
  <2>2. CASE TypeInEditor \/ CancelEdit
    BY <2>2 DEF TypeInEditor, CancelEdit, Kept
  <2>3. CASE handleClearMessages
    BY <2>3 DEF handleClearMessages, Changed
  <2>4. CASE stopGeneration
    BY <2>4 DEF stopGeneration, answerFrame, Changed
  <2> QED
    BY <1>1, <1>2, <1>3, <1>4, <1>5, <1>6, <2>1, <2>2, <2>3, <2>4 DEF User
<1>7. ASSUME NEW n \in ChunkSizes, handleStreamUpdate(n) PROVE Kept
  BY <1>7 DEF handleStreamUpdate, answerFrame, Kept
<1>8. CASE flushTimerFires
  BY <1>8 DEF flushTimerFires, answerFrame, Kept, Changed
<1>9. CASE StreamEnds
  <2>1. CASE handleStreamComplete
    BY <2>1 DEF handleStreamComplete, answerFrame, Changed
  <2>2. CASE handleStreamError
    BY <2>2 DEF handleStreamError, answerFrame, Changed
  <2>3. CASE closedWithoutDone
    BY <2>3 DEF closedWithoutDone, answerFrame, Kept
  <2> QED
    BY <1>9, <2>1, <2>2, <2>3 DEF StreamEnds
<1>10. ASSUME NEW c \in calls, CallEnds(c) PROVE Kept \/ Changed
  <2>1. CASE callAborted(c)
    BY <2>1 DEF callAborted, answerFrame, Kept
  <2>2. CASE callFailed(c)
    BY <2>2 DEF callFailed, answerFrame, Changed
  <2>3. ASSUME NEW n \in {0, 1}, callAnswered(c, n) PROVE Changed
    BY <2>3 DEF callAnswered, answerFrame, Changed
  <2> QED
    BY <1>10, <2>1, <2>2, <2>3 DEF CallEnds
<1>11. CASE saveTimerFires
  BY <1>11 DEF saveTimerFires, Saved
<1>12. CASE UNCHANGED vars
  BY <1>12 DEF vars, Kept
<1>13. ASSUME NEW ms \in late, leftPageSaves(ms) PROVE Written
  BY <1>13 DEF leftPageSaves, Written
<1>14. ASSUME NEW k \in left, leftExchangeEnds(k) PROVE Kept
  BY <1>14 DEF leftExchangeEnds, Kept
<1> QED
  BY <1>6, <1>7, <1>8, <1>9, <1>10, <1>11, <1>12, <1>13, <1>14 DEF Next

LEMMA NothingLoaded == trimMessages(<<>>) = <<>> /\ loadMessages(<<>>) = <<>>
<1>1. trimMessages(<<>>) = <<>>
  BY PlaygroundAssumption DEF trimMessages
<1>2. [i \in 1 .. Len(<<>>) |-> normalizeStoredMessageForLoad(<<>>[i])] = <<>>
  OBVIOUS
<1>3. trimMessagesByContentSize(<<>>) = <<>>
  BY DEF trimMessagesByContentSize
<1>4. sanitizeMessagesOnLoad(<<>>) = <<>>
  BY DEF sanitizeMessagesOnLoad
<1> QED
  BY <1>1, <1>2, <1>3, <1>4 DEF loadMessages

\* With no save pending, and unless the last write was refused or came from a
\* page that was left, the storage holds what the page shows: every path that
\* changes the conversation restarts the save timer, and loading writes back
\* what it repaired.  Whatever the user does.
THEOREM PlaygroundSavedIsShown == Spec => []SavedIsShown
<1>1. Init => SavedIsShown
  BY DEF Init, SavedIsShown
<1>2. ASSUME SavedIsShown, [Next]_vars PROVE SavedIsShown'
  <2>1. CASE Kept
    BY <1>2, <2>1, StoreKept DEF Kept, SavedIsShown, trimMessages
  <2>2. CASE Changed
    <3>1. loaded' = loaded /\ saveTimer' = (loaded \/ saveTimer)
      BY <2>2 DEF Changed, updateMessages
    <3> QED
      BY <3>1 DEF SavedIsShown
  <2>3. CASE Saved
    BY <2>3 DEF Saved, saveMessages, SavedIsShown, trimMessages
  <2>4. CASE leavePage \/ reloadPage
    BY <2>4 DEF leavePage, reloadPage, Mounted, SavedIsShown
  <2>5. CASE loadOnMount
    <3>1. CASE saved = <<>> \/ SizeOf(saved) > MaxStoredChars
      <4>1. saved' = <<>> /\ messages' = loadMessages(saved)
        BY <2>5, <3>1 DEF loadOnMount
      <4>2. loadMessages(saved) = <<>>
        BY <3>1, NothingLoaded DEF loadMessages
      <4>3. saved' = trimMessages(messages')
        BY <4>1, <4>2, NothingLoaded
      <4> QED
        BY <4>3 DEF SavedIsShown, trimMessages
    <3>2. CASE ~ (saved = <<>> \/ SizeOf(saved) > MaxStoredChars)
      BY <2>5, <3>2 DEF loadOnMount, saveMessages, SavedIsShown, trimMessages
    <3> QED
      BY <3>1, <3>2
  <2>6. CASE Written
    BY <2>6 DEF Written, SavedIsShown
  <2> QED
    BY <1>2, <2>1, <2>2, <2>3, <2>4, <2>5, <2>6, StoreStep
<1> QED
  BY <1>1, <1>2, PTL DEF Spec

-----------------------------------------------------------------------------
(* Whose text a message shows.                                             *)

OwnText(m) ==
    m.from = "assistant" => \A i \in 1 .. Len(m.text) : m.text[i] \in {m.key, Notice}
OwnTexts(ms) == \A j \in 1 .. Len(ms) : OwnText(ms[j])

\* What is on its way is for the last message, which is where it will be put.
Linked ==
    /\ isGenerating => Last(messages).from = "assistant"
    /\ isStreaming => Last(messages).key = source.ex
    /\ requesting /\ ~ stream => Last(messages).key = requestId
    /\ \A i \in 1 .. Len(pending) : pending[i] = source.ex

OwnInv == OwnTexts(messages) /\ OwnTexts(saved) /\ Linked

LEMMA NoTexts == OwnTexts(<<>>)
  BY DEF OwnTexts

LEMMA TailOwn ==
  ASSUME NEW ms \in Seq(Message), NEW t \in Seq(Message), IsTail(t, ms), OwnTexts(ms)
  PROVE  OwnTexts(t)
<1> SUFFICES ASSUME NEW i \in 1 .. Len(t) PROVE OwnText(t[i])
  BY DEF OwnTexts
<1>1. Len(ms) \in Nat /\ Len(t) \in Nat
  BY LenProperties
<1>2. t[i] = ms[Len(ms) - Len(t) + i] /\ Len(ms) - Len(t) + i \in 1 .. Len(ms)
  BY <1>1 DEF IsTail
<1> QED
  BY <1>2 DEF OwnTexts

LEMMA ConcatOwn ==
  ASSUME NEW s \in Seq(Message), NEW t \in Seq(Message), OwnTexts(s), OwnTexts(t)
  PROVE  OwnTexts(s \o t)
<1> SUFFICES ASSUME NEW i \in 1 .. Len(s \o t) PROVE OwnText((s \o t)[i])
  BY DEF OwnTexts
<1>1. Len(s) \in Nat /\ Len(t) \in Nat /\ Len(s \o t) = Len(s) + Len(t)
  BY LenProperties, ConcatProperties
<1>2. CASE i <= Len(s)
  BY <1>1, <1>2, ConcatProperties DEF OwnTexts
<1>3. CASE i > Len(s)
  <2>1. i - Len(s) \in 1 .. Len(t) /\ (s \o t)[i] = t[i - Len(s)]
    BY <1>1, <1>3, ConcatProperties
  <2> QED
    BY <2>1 DEF OwnTexts
<1> QED
  BY <1>1, <1>2, <1>3

\* Pieces of a message's own text are its own.
LEMMA PieceOwn ==
  ASSUME NEW S, NEW s \in Seq(S), NEW a \in Nat \ {0}, NEW b \in Int, b <= Len(s), NEW T,
         \A i \in 1 .. Len(s) : s[i] \in T
  PROVE  \A i \in 1 .. Len(SubSeq(s, a, b)) : SubSeq(s, a, b)[i] \in T
<1> DEFINE p == SubSeq(s, a, b)
<1>1. /\ Len(p) = IF a <= b THEN b - a + 1 ELSE 0
      /\ \A i \in 1 .. Len(p) : p[i] = s[a + i - 1]
  BY SubText
<1> HIDE DEF p
<1>2. \A i \in 1 .. Len(p) : a + i - 1 \in 1 .. Len(s)
  BY <1>1, LenProperties
<1> QED
  BY <1>1, <1>2 DEF p

LEMMA TruncatedOwn ==
  ASSUME NEW m \in Message, OwnText(m)
  PROVE  OwnText(normalizeStoredMessageForLoad(m))
<1> SUFFICES ASSUME m.from = "assistant"
             PROVE  \A i \in 1 .. Len(truncateText(m.text)) :
                      truncateText(m.text)[i] \in {m.key, Notice}
  BY Normalized DEF OwnText
<1>1. m.text \in Text /\ Len(m.text) \in Nat /\ MaxMessageChars \in Nat \ {0}
  BY MessageParts, LenProperties, PlaygroundAssumption DEF Text
<1>2. \A i \in 1 .. Len(m.text) : m.text[i] \in {m.key, Notice}
  BY DEF OwnText
<1>3. CASE Len(m.text) <= MaxMessageChars
  BY <1>2, <1>3 DEF truncateText
<1>4. CASE ~ Len(m.text) <= MaxMessageChars
  <2> DEFINE p == SubSeq(m.text, 1, MaxMessageChars - 1)
  <2>1. MaxMessageChars - 1 \in Int /\ MaxMessageChars - 1 <= Len(m.text)
    BY <1>1, <1>4
  <2>2. p \in Text
    BY <1>1, <2>1, SubText DEF Text
  <2>3. \A i \in 1 .. Len(p) : p[i] \in {m.key, Notice}
    BY <1>1, <1>2, <2>1, PieceOwn DEF Text
  <2>4. truncateText(m.text) = p \o <<Notice>>
    BY <1>4 DEF truncateText
  <2> HIDE DEF p
  <2>5. /\ Len(p) \in Nat /\ Len(p \o <<Notice>>) = Len(p) + 1
        /\ \A i \in 1 .. Len(p) + 1 :
             (p \o <<Notice>>)[i] = IF i <= Len(p) THEN p[i] ELSE Notice
    BY <2>2, NoticeText DEF Text
  <2> QED
    BY <2>3, <2>4, <2>5
<1> QED
  BY <1>3, <1>4

\* Loading shows no message text that is not its own.
LEMMA LoadedOwn ==
  ASSUME NEW ms \in Seq(Message), OnlyLastPending(ms), OwnTexts(ms)
  PROVE  OwnTexts(loadMessages(ms))
<1> DEFINE normalized == [i \in 1 .. Len(ms) |-> normalizeStoredMessageForLoad(ms[i])]
           trimmed == trimMessages(normalized)
           sized == trimMessagesByContentSize(trimmed)
<1>1. Len(ms) \in Nat /\ \A i \in 1 .. Len(ms) : ms[i] \in Message
  BY LenProperties, ElementOfSeq
<1>2. normalized \in Seq(Message) /\ Len(normalized) = Len(ms)
  BY <1>1, Normalized
<1>3. OnlyLastPending(normalized) /\ OwnTexts(normalized)
  <2>1. OnlyLastPending(normalized)
    BY <1>1, <1>2, Normalized DEF OnlyLastPending
  <2>2. OwnTexts(normalized)
    BY <1>1, <1>2, TruncatedOwn DEF OwnTexts
  <2> QED
    BY <2>1, <2>2
<1>4. loadMessages(ms) = IF SizeOf(ms) > MaxStoredChars THEN <<>>
                         ELSE sanitizeMessagesOnLoad(sized)
  BY DEF loadMessages
<1> HIDE DEF normalized
<1>5. trimmed \in Seq(Message) /\ OnlyLastPending(trimmed) /\ OwnTexts(trimmed)
  BY <1>2, <1>3, TrimmedIsTail, TailOnlyLastPending, TailOwn
<1> HIDE DEF trimmed
<1>6. sized \in Seq(Message) /\ OnlyLastPending(sized) /\ OwnTexts(sized)
  BY <1>5, SizedIsTail, TailOnlyLastPending, TailOwn
<1> HIDE DEF sized
<1> DEFINE t == sanitizeMessagesOnLoad(sized)
<1>7. /\ Len(t) = Len(sized)
      /\ \A j \in 1 .. Len(sized) :
           \/ t[j] = sized[j]
           \/ /\ t[j].key = sized[j].key /\ t[j].from = sized[j].from
              /\ t[j].text \in {sized[j].text, <<Notice>>}
  BY <1>6, Sanitized
<1> HIDE DEF t
<1>8. ASSUME NEW j \in 1 .. Len(t) PROVE OwnText(t[j])
  <2>1. OwnText(sized[j])
    BY <1>6, <1>7 DEF OwnTexts
  <2>2. \A i \in 1 .. Len(<<Notice>>) : <<Notice>>[i] = Notice
    OBVIOUS
  <2> QED
    BY <1>7, <2>1, <2>2 DEF OwnText
<1>9. OwnTexts(t)
  BY <1>8 DEF OwnTexts
<1> QED
  BY <1>4, <1>9, NoTexts DEF t

\* The conversation b after a step that leaves every message its key, its
\* author and a text of its own.
OwnAfter(b) ==
    /\ b \in Seq(Message) /\ Len(b) = Len(messages) /\ OwnTexts(b)
    /\ \A j \in 1 .. Len(messages) :
         b[j].key = messages[j].key /\ b[j].from = messages[j].from

\* The same when at most the last message has changed, by an answer.
OwnAnswered(b) == OwnAfter(b) /\ Answered(b)

\* The step starts nothing and adds no chunk.
NothingNew ==
    /\ isStreaming' => isStreaming /\ source'.ex = source.ex
    /\ requesting' => requesting
    /\ requestId' = requestId /\ stream' = stream
    /\ pending' = <<>> \/ (pending' = pending /\ source'.ex = source.ex)

LEMMA LinkKept ==
  ASSUME PageInv, OwnInv, NothingNew, NEW b, OwnAfter(b), messages' = b
  PROVE  OwnTexts(messages') /\ Linked'
<1>1. Last(b) = b[Len(b)] /\ Last(messages) = messages[Len(messages)]
  BY DEF Last
<1>2. isGenerating => messages # <<>>
  BY DEF PageInv, Shown
<1>3. isGenerating => Last(b).key = Last(messages).key /\ Last(b).from = Last(messages).from
  <2>1. isGenerating => Len(messages) \in 1 .. Len(messages)
    BY <1>2, MessageTypes, LastIsMessage
  <2> QED
    BY <1>1, <2>1 DEF OwnAfter
<1>4. isGenerating' => isGenerating
  BY DEF NothingNew, isGenerating
<1>5. isGenerating' => Last(messages').from = "assistant"
  BY <1>3, <1>4 DEF OwnInv, Linked
<1>6. isStreaming' => Last(messages').key = source'.ex
  BY <1>3 DEF OwnInv, Linked, NothingNew, isGenerating
<1>7. requesting' /\ ~ stream' => Last(messages').key = requestId'
  BY <1>3 DEF OwnInv, Linked, NothingNew, isGenerating
<1>8. \A i \in 1 .. Len(pending') : pending'[i] = source'.ex
  BY DEF OwnInv, Linked, NothingNew
<1>9. OwnTexts(messages')
  BY DEF OwnAfter
<1> QED
  BY <1>5, <1>6, <1>7, <1>8, <1>9 DEF Linked

LEMMA SameAfter == ASSUME PageInv, OwnInv PROVE OwnAnswered(messages)
  BY MessageTypes DEF OwnInv, OwnAfter, OwnAnswered, Answered

\* A chunk of the message's own is put behind its text.
LEMMA NewPieces ==
  ASSUME NEW m \in Message, NEW chunk \in Text, \A i \in 1 .. Len(chunk) : chunk[i] = m.key
  PROVE  /\ getAppendableChunk(m.text, chunk) \in Text
         /\ \A i \in 1 .. Len(getAppendableChunk(m.text, chunk)) :
              getAppendableChunk(m.text, chunk)[i] = m.key
<1>1. Len(m.text) + 1 \in Nat \ {0} /\ Len(chunk) \in Int /\ Len(chunk) <= Len(chunk)
  BY MessageParts, LenProperties DEF Text
<1> DEFINE rest == SubSeq(chunk, Len(m.text) + 1, Len(chunk))
<1>2. rest \in Text /\ \A i \in 1 .. Len(rest) : rest[i] \in {m.key}
  <2>1. \A i \in 1 .. Len(chunk) : chunk[i] \in {m.key}
    OBVIOUS
  <2> QED
    BY <1>1, <2>1, SubText, PieceOwn DEF Text
<1> QED
  BY <1>2 DEF getAppendableChunk

\* The chunks that wait are of the last message.
LEMMA PendingOwn ==
  ASSUME PageInv, OwnInv, pending # <<>>
  PROVE  pending \in Text /\ \A x \in 1 .. Len(pending) : pending[x] = Last(messages).key
<1>1. Last(messages).key = source.ex
  BY DEF PageInv, Sources, OwnInv, Linked
<1> QED
  BY <1>1, SeqMonotonic DEF PageInv, Types, NetTypes, Text, OwnInv, Linked

LEMMA AppliedOwn ==
  ASSUME NEW m \in Message, OwnText(m),
         NEW chunk \in Text, \A i \in 1 .. Len(chunk) : chunk[i] = m.key
  PROVE  OwnText(applyStreamingChunk(m, chunk))
<1> DEFINE new == getAppendableChunk(m.text, chunk)
           b == applyStreamingChunk(m, chunk)
<1>1. CASE m.status = "error"
  BY <1>1 DEF applyStreamingChunk
<1>2. CASE m.status # "error"
  <2>1. b.text = m.text \o new /\ b.key = m.key /\ b.from = m.from
    BY <1>2 DEF applyStreamingChunk, Message
  <2>2. new \in Text /\ \A i \in 1 .. Len(new) : new[i] = m.key
    BY NewPieces
  <2>3. m.text \in Text
    BY MessageParts
  <2> HIDE DEF b, new
  <2>4. ASSUME m.from = "assistant", NEW i \in 1 .. Len(m.text \o new)
        PROVE  (m.text \o new)[i] \in {m.key, Notice}
    <3>1. Len(m.text) \in Nat /\ Len(new) \in Nat
      BY <2>2, <2>3, LenProperties DEF Text
    <3>2. /\ Len(m.text \o new) = Len(m.text) + Len(new)
          /\ \A x \in 1 .. Len(m.text) + Len(new) :
               (m.text \o new)[x] = IF x <= Len(m.text) THEN m.text[x] ELSE new[x - Len(m.text)]
      BY <2>2, <2>3, ConcatProperties DEF Text
    <3>3. \A x \in 1 .. Len(m.text) : m.text[x] \in {m.key, Notice}
      BY <2>4 DEF OwnText
    <3>4. CASE i <= Len(m.text)
      <4>1. i \in 1 .. Len(m.text) /\ i \in 1 .. Len(m.text) + Len(new)
        BY <2>4, <3>1, <3>2, <3>4
      <4> QED
        BY <3>2, <3>3, <3>4, <4>1
    <3>5. CASE i > Len(m.text)
      <4>1. /\ i - Len(m.text) \in 1 .. Len(new) /\ ~(i <= Len(m.text))
            /\ i \in 1 .. Len(m.text) + Len(new)
        BY <2>4, <3>1, <3>2, <3>5
      <4> QED
        BY <2>2, <3>2, <4>1
    <3> QED
      BY <2>4, <3>1, <3>2, <3>4, <3>5
  <2> QED
    BY <2>1, <2>4 DEF OwnText, b
<1> QED
  BY <1>1, <1>2

LEMMA FlushedOwn == ASSUME PageInv, OwnInv PROVE OwnAnswered(flushed)
<1>1. /\ flushed \in Seq(Message) /\ Len(flushed) = Len(messages)
      /\ \A j \in 1 .. Len(messages) :
           /\ flushed[j].key = messages[j].key /\ flushed[j].from = messages[j].from
           /\ j # Len(messages) \/ messages[j].from # "assistant" \/ pending = <<>> =>
                flushed[j] = messages[j]
           /\ j = Len(messages) /\ messages[j].from = "assistant" /\ pending # <<>> =>
                flushed[j] = applyStreamingChunk(messages[j], pending)
  BY FlushedMessages DEF PageInv
<1>2. ASSUME NEW j \in 1 .. Len(messages) PROVE OwnText(flushed[j])
  <2> DEFINE m == messages[j]
  <2>1. OwnText(m) /\ m \in Message
    BY MessageTypes DEF OwnInv, OwnTexts
  <2>2. CASE flushed[j] = m
    BY <2>1, <2>2
  <2>3. CASE flushed[j] # m
    <3>1. /\ m.from = "assistant" /\ pending # <<>> /\ j = Len(messages)
          /\ flushed[j] = applyStreamingChunk(m, pending)
      BY <1>1, <2>3
    <3>2. m = Last(messages)
      BY <3>1 DEF Last
    <3>3. pending \in Text /\ \A x \in 1 .. Len(pending) : pending[x] = m.key
      BY <3>1, <3>2, PendingOwn
    <3> QED
      BY <2>1, <3>1, <3>3, AppliedOwn
  <2> QED
    BY <2>2, <2>3
<1>3. Answered(flushed)
  BY FlushedAnswered
<1> QED
  BY <1>1, <1>2, <1>3 DEF OwnAnswered, OwnAfter, OwnTexts

\* The last message is given a text of its own.
LEMMA UpdatedOwn ==
  ASSUME PageInv, NEW b, OwnAnswered(b), NEW u,
         b # <<>> /\ Last(b).from = "assistant" =>
           u \in Message /\ u.key = Last(b).key /\ u.from = Last(b).from /\ OwnText(u)
  PROVE  OwnAnswered(updateLastAssistantMessage(b, u))
<1> DEFINE t == updateLastAssistantMessage(b, u)
<1>0. b \in Seq(Message) /\ Len(b) = Len(messages) /\ Len(b) \in Nat
  BY MessageTypes DEF OwnAnswered, OwnAfter
<1>1. /\ t \in Seq(Message) /\ Len(t) = Len(b)
      /\ \A j \in 1 .. Len(b) :
           t[j] = IF j = Len(b) /\ b[j].from = "assistant" THEN u ELSE b[j]
  BY <1>0, LastUpdated
<1>2. \A j \in 1 .. Len(b) : b # <<>>
  BY <1>0, EmptySeq
<1> HIDE DEF t
<1>3. \A j \in 1 .. Len(b) : OwnText(t[j]) /\ t[j].key = b[j].key /\ t[j].from = b[j].from
  BY <1>0, <1>1, <1>2 DEF OwnAnswered, OwnAfter, OwnTexts, Last
<1>4. OwnTexts(t)
  BY <1>1, <1>3 DEF OwnTexts
<1>5. OwnAfter(t)
  BY <1>0, <1>1, <1>3, <1>4 DEF OwnAnswered, OwnAfter
<1>6. Answered(t)
  BY <1>0, <1>1, <1>3 DEF OwnAnswered, Answered
<1> QED
  BY <1>5, <1>6 DEF OwnAnswered, t

\* What the ends of an answer make of the last message.
LEMMA EndedOwn ==
  ASSUME NEW m \in Message, OwnText(m)
  PROVE  /\ completeAssistantMessage(m) \in Message /\ OwnText(completeAssistantMessage(m))
         /\ completeAssistantMessage(m).key = m.key /\ completeAssistantMessage(m).from = m.from
         /\ LET e == [m EXCEPT !.text = <<Notice>>, !.status = "error"]
            IN  e \in Message /\ OwnText(e) /\ e.key = m.key /\ e.from = m.from
<1>1. /\ completeAssistantMessage(m) \in Message
      /\ completeAssistantMessage(m).key = m.key /\ completeAssistantMessage(m).from = m.from
      /\ completeAssistantMessage(m).text = m.text
  BY Completed
<1>2. OwnText(completeAssistantMessage(m))
  BY <1>1 DEF OwnText
<1> DEFINE e == [m EXCEPT !.text = <<Notice>>, !.status = "error"]
<1>3. "error" \in {"none"} \cup Pending \cup Final
  BY DEF Final
<1>4. e \in Message /\ e.key = m.key /\ e.from = m.from /\ e.text = <<Notice>>
  BY <1>3, NoticeText DEF Message, Text
<1>5. \A i \in 1 .. Len(<<Notice>>) : <<Notice>>[i] = Notice
  OBVIOUS
<1>6. OwnText(e)
  BY <1>4, <1>5 DEF OwnText
<1> QED
  BY <1>1, <1>2, <1>4, <1>6

LEMMA LastOwn ==
  ASSUME PageInv, NEW b, OwnAnswered(b), b # <<>>
  PROVE  Last(b) \in Message /\ OwnText(Last(b))
<1>1. b \in Seq(Message) /\ OwnTexts(b)
  BY DEF OwnAnswered, OwnAfter
<1> QED
  BY <1>1, LastIsMessage DEF OwnTexts, Last

LEMMA ErrorOwn ==
  ASSUME PageInv, OwnInv
  PROVE  OwnAnswered(updateAssistantMessageWithError(flushed))
<1> DEFINE u == [Last(flushed) EXCEPT !.text = <<Notice>>, !.status = "error"]
<1>1. flushed # <<>> =>
        u \in Message /\ u.key = Last(flushed).key /\ u.from = Last(flushed).from /\ OwnText(u)
  BY FlushedOwn, LastOwn, EndedOwn
<1>2. updateAssistantMessageWithError(flushed) = updateLastAssistantMessage(flushed, u)
  BY DEF updateAssistantMessageWithError
<1> HIDE DEF u
<1> QED
  BY <1>1, <1>2, FlushedOwn, UpdatedOwn

\* A step that shows what has arrived, or nothing new.
LEMMA OwnAnswer ==
  ASSUME PageInv, OwnInv, NothingNew, NEW b, OwnAfter(b), messages' = b, saved' = saved
  PROVE  OwnInv'
<1>1. OwnTexts(messages') /\ Linked'
  BY LinkKept
<1>2. OwnTexts(saved')
  BY DEF OwnInv
<1> QED
  BY <1>1, <1>2 DEF OwnInv, OwnTexts, OwnText

LEMMA StreamNothingNew ==
  ASSUME PageInv, flushTimerFires \/ StreamEnds \/ stopGeneration
  PROVE  NothingNew
<1>1. stream' = stream /\ requestId' = requestId /\ (requesting' => requesting)
  BY RequestKept DEF flushTimerFires, StreamEnds, handleStreamComplete, handleStreamError,
     closedWithoutDone, stopGeneration, answerFrame
<1>2. CASE closedWithoutDone
  <2>1. source.open /\ pending' = pending /\ source' = [source EXCEPT !.open = FALSE]
    BY <1>2 DEF closedWithoutDone
  <2>2. source'.ex = source.ex /\ isStreaming
    BY <2>1 DEF PageInv, Types, NetTypes, isStreaming, NoSource
  <2> QED
    BY <1>1, <2>1, <2>2 DEF NothingNew
<1>3. CASE ~ closedWithoutDone
  <2>1. pending' = <<>> /\ source' \in {source, NoSource}
    BY <1>3 DEF flushTimerFires, StreamEnds, handleStreamComplete, handleStreamError,
       stopGeneration, FlushStreamUpdates
  <2> QED
    BY <1>1, <2>1 DEF NothingNew, isStreaming
<1> QED
  BY <1>2, <1>3

\* What the page shows after a step of the stream.
LEMMA StreamAnswered ==
  ASSUME PageInv, OwnInv, flushTimerFires \/ StreamEnds \/ stopGeneration
  PROVE  OwnAnswered(messages') /\ saved' = saved
<1>1. CASE flushTimerFires
  <2>1. messages' \in {messages, flushed} /\ saved' = saved
    BY <1>1, StoreKept DEF flushTimerFires, updateMessages
  <2> QED
    BY <2>1, SameAfter, FlushedOwn
<1>2. CASE handleStreamError
  <2>1. messages' = updateAssistantMessageWithError(flushed) /\ saved' = saved
    BY <1>2 DEF handleStreamError, updateMessages
  <2> QED
    BY <2>1, ErrorOwn
<1>3. CASE closedWithoutDone
  <2>1. messages' = messages /\ saved' = saved
    BY <1>3, StoreKept DEF closedWithoutDone
  <2> QED
    BY <2>1, SameAfter
<1> DEFINE l == Last(flushed)
<1>4. ASSUME NEW u \in {l, completeAssistantMessage(l)}
      PROVE  OwnAnswered(updateLastAssistantMessage(flushed, u))
  <2>1. flushed # <<>> => u \in Message /\ u.key = l.key /\ u.from = l.from /\ OwnText(u)
    BY FlushedOwn, LastOwn, EndedOwn
  <2> QED
    BY <2>1, FlushedOwn, UpdatedOwn
<1>5. CASE handleStreamComplete \/ stopGeneration
  <2>1. PICK u \in {l, completeAssistantMessage(l)} :
          messages' = updateLastAssistantMessage(flushed, u)
    BY <1>5 DEF handleStreamComplete, stopGeneration, updateMessages
  <2>2. saved' = saved
    BY <1>5 DEF handleStreamComplete, stopGeneration, updateMessages
  <2> QED
    BY <1>4, <2>1, <2>2
<1> QED
  BY <1>1, <1>2, <1>3, <1>5 DEF StreamEnds

LEMMA CallNothingNew ==
  ASSUME PageInv, NEW c \in calls, CallEnds(c)
  PROVE  NothingNew
<1>1. c.ex \in Keys /\ c.aborted \in BOOLEAN /\ requesting \in BOOLEAN
  BY DEF PageInv, Types, RequestTypes
<1>2. FinishCall(c, requesting) \/ FinishCall(c, FALSE)
  BY DEF CallEnds, callAborted, callFailed, callAnswered
<1>3. /\ stream' = stream /\ source' = source
      /\ pending' = pending \/ pending' = <<>>
  BY NetKept DEF CallEnds, callAborted, callFailed, callAnswered, answerFrame,
     FlushStreamUpdates
<1>4. requestId' = requestId /\ (requesting' => requesting)
  BY <1>1, <1>2 DEF FinishCall
<1> QED
  BY <1>3, <1>4 DEF NothingNew, isStreaming

\* An answer that was not aborted is the one the last message waits for.
LEMMA CallAnswered ==
  ASSUME PageInv, OwnInv, NEW c \in calls, CallEnds(c)
  PROVE  OwnAnswered(messages') /\ saved' = saved
<1>1. c.ex \in Keys /\ ~ stream
  BY DEF PageInv, Types, RequestTypes, Requests
<1>2. CASE callAborted(c)
  <2>1. messages' = messages /\ saved' = saved
    BY <1>2, StoreKept DEF callAborted
  <2> QED
    BY <2>1, SameAfter
<1>3. CASE callFailed(c)
  <2>1. messages' = updateAssistantMessageWithError(flushed) /\ saved' = saved
    BY <1>3 DEF callFailed, updateMessages
  <2> QED
    BY <2>1, ErrorOwn
<1>4. ASSUME NEW n \in {0, 1}, callAnswered(c, n) PROVE OwnAnswered(messages') /\ saved' = saved
  <2> DEFINE text == [i \in 1 .. n |-> c.ex]
             u == [Last(messages) EXCEPT !.text = text, !.status = "complete"]
  <2>1. messages' = updateLastAssistantMessage(messages, u) /\ saved' = saved
    BY <1>4 DEF callAnswered, applyChatCompletionResponse, updateMessages
  <2>2. c.ex = Last(messages).key
    BY <1>1, <1>4 DEF callAnswered, PageInv, Requests, OwnInv, Linked
  <2>3. text \in Text /\ Len(text) = n /\ \A i \in 1 .. n : text[i] = c.ex
    BY <1>1 DEF Text
  <2>4. "complete" \in {"none"} \cup Pending \cup Final
    BY DEF Final
  <2> HIDE DEF text
  <2>5. messages # <<>> => u \in Message /\ u.key = Last(messages).key
                           /\ u.from = Last(messages).from /\ u.text = text
    <3>1. messages # <<>> => Last(messages) \in Message
      BY SameAfter, LastOwn
    <3> QED
      BY <2>3, <2>4, <3>1 DEF Message, Text
  <2> HIDE DEF u
  <2>6. messages # <<>> => OwnText(u)
    BY <2>2, <2>3, <2>5 DEF OwnText
  <2> QED
    BY <2>1, <2>5, <2>6, SameAfter, UpdatedOwn
<1> QED
  BY <1>2, <1>3, <1>4 DEF CallEnds

\* The steps that bring an answer.
Brings == flushTimerFires \/ StreamEnds \/ stopGeneration \/ \E c \in calls : CallEnds(c)

LEMMA BringsAnswered ==
  ASSUME PageInv, OwnInv, Brings
  PROVE  NothingNew /\ OwnAnswered(messages') /\ saved' = saved
<1>1. NothingNew
  BY StreamNothingNew, CallNothingNew DEF Brings
<1> QED
  BY <1>1, StreamAnswered, CallAnswered DEF Brings

LEMMA BringsOwn == ASSUME PageInv, OwnInv, Brings PROVE OwnInv'
  BY BringsAnswered, OwnAnswer DEF OwnAnswered

LEMMA ChunkOwn ==
  ASSUME PageInv, OwnInv, NEW n \in ChunkSizes, handleStreamUpdate(n)
  PROVE  OwnInv'
<1> DEFINE chunk == [i \in 1 .. n |-> source.ex]
<1>1. source.ex \in Keys /\ n \in Nat
  BY PlaygroundAssumption DEF handleStreamUpdate, PageInv, Types, NetTypes, NoSource
<1>2. chunk \in Seq(Keys) /\ Len(chunk) = n /\ \A i \in 1 .. n : chunk[i] = source.ex
  BY <1>1
<1>3. pending' = pending \o chunk \/ pending' = chunk
  BY DEF handleStreamUpdate, mergePendingStreamChunk
<1> HIDE DEF chunk
<1>4. pending \in Seq(Keys) /\ \A i \in 1 .. Len(pending) : pending[i] = source.ex
  BY DEF PageInv, Types, NetTypes, OwnInv, Linked
<1>5. \A i \in 1 .. Len(pending \o chunk) : (pending \o chunk)[i] = source.ex
  BY <1>1, <1>2, <1>4
<1>6. \A i \in 1 .. Len(pending') : pending'[i] = source.ex
  BY <1>2, <1>3, <1>5
<1>7. /\ messages' = messages /\ saved' = saved /\ source' = source /\ UNCHANGED request
      /\ stream' = stream
  BY StoreKept DEF handleStreamUpdate, answerFrame
<1> QED
  BY <1>6, <1>7, RequestKept DEF OwnInv, Linked, isGenerating, isStreaming

\* The user changes the conversation while nothing is on its way, or nothing
\* but a text.
LEMMA QuietOwn ==
  ASSUME PageInv, OwnInv, ~ isGenerating, RunFrame, OwnTexts(messages'), saved' = saved
  PROVE  OwnInv'
<1>1. pending = <<>> /\ ~ isStreaming /\ ~ requesting
  BY DEF PageInv, Sources, isGenerating
<1>2. Linked'
  BY <1>1 DEF Linked, RunFrame, isGenerating, isStreaming
<1> QED
  BY <1>2 DEF OwnInv, OwnTexts, OwnText

LEMMA EditOwn ==
  ASSUME PageInv, OwnInv, NEW i \in DOMAIN messages,
         handleEditMessage(i) \/ SaveEdit(i) \/ handleDeleteMessage(i)
  PROVE  OwnInv'
<1>1. i \in 1 .. Len(messages) /\ messages[i] \in Message /\ Len(messages) \in Nat
      /\ messages \in Seq(Message) /\ OwnTexts(messages)
  BY MessageTypes DEF OwnInv
<1>2. CASE handleEditMessage(i)
  BY <1>2, NetKept, RequestKept, StoreKept
  DEF handleEditMessage, OwnInv, Linked, isGenerating, isStreaming
<1>3. CASE SaveEdit(i)
  <2> DEFINE m == [messages[i] EXCEPT !.text = <<Notice>>]
             ms == [messages EXCEPT ![i] = m]
  <2>1. m \in Message /\ m.from = messages[i].from /\ m.key = messages[i].key
        /\ m.text = <<Notice>>
    BY <1>1, NoticeText DEF Message, Text
  <2>2. messages' = ms /\ saved' = saved
    BY <1>3 DEF SaveEdit, updateMessages
  <2>3. OwnText(m)
    <3>1. \A j \in 1 .. Len(<<Notice>>) : <<Notice>>[j] = Notice
      OBVIOUS
    <3> QED
      BY <2>1, <3>1 DEF OwnText
  <2> HIDE DEF m
  <2>4. /\ ms \in Seq(Message) /\ Len(ms) = Len(messages)
        /\ \A j \in 1 .. Len(messages) : ms[j] = IF j = i THEN m ELSE messages[j]
    BY <1>1, <2>1, ExceptSeq
  <2> HIDE DEF ms
  <2>5. OwnAfter(ms)
    BY <1>1, <2>1, <2>3, <2>4 DEF OwnAfter, OwnTexts
  <2>6. NothingNew
    BY <1>3, NetKept, RequestKept DEF SaveEdit, NothingNew, isStreaming
  <2> QED
    BY <2>2, <2>5, <2>6, OwnAnswer
<1>4. CASE handleDeleteMessage(i)
  <2> DEFINE before == SubSeq(messages, 1, i - 1)
             after == SubSeq(messages, i + 1, Len(messages))
  <2>1. before \in Seq(Message) /\ OwnTexts(before)
    BY <1>1, SubText DEF OwnTexts
  <2>2. after \in Seq(Message) /\ IsTail(after, messages)
    BY <1>1, SuffixIsTail
  <2>3. OwnTexts(after)
    BY <1>1, <2>2, TailOwn
  <2>4. messages' = before \o after /\ saved' = saved /\ ~ isGenerating /\ RunFrame
    BY <1>4, NetKept, RequestKept DEF handleDeleteMessage, updateMessages, RemoveAt,
       RunFrame, past
  <2> HIDE DEF before, after
  <2> QED
    BY <2>1, <2>2, <2>3, <2>4, ConcatOwn, QuietOwn
<1> QED
  BY <1>2, <1>3, <1>4

\* A new request is for the message that is put last.
LEMMA AskOwn ==
  ASSUME PageInv, OwnInv, ~ isGenerating, NEW k \in Keys, sendChat(k), stream' = stream,
         NEW ms \in Seq(Message), OwnTexts(ms), messages' = ms, saved' = saved,
         ms # <<>>, Last(ms).key = k, Last(ms).from = "assistant"
  PROVE  OwnInv'
<1>1. pending = <<>> /\ ~ isStreaming /\ ~ requesting /\ stream \in BOOLEAN
  BY DEF PageInv, Sources, isGenerating, Types, PageTypes
<1>2. pending' = pending
  BY NetKept DEF sendChat, sendStreamingChat, sendNonStreamingChat
<1>3. isStreaming' => source'.ex = k
  BY <1>1, NetKept DEF sendChat, sendStreamingChat, sendNonStreamingChat, isStreaming
<1>4. ~ stream => requestId' = k
  BY DEF sendChat, sendNonStreamingChat
<1>5. Linked'
  BY <1>1, <1>2, <1>3, <1>4 DEF Linked
<1>6. OwnTexts(saved')
  BY DEF OwnInv
<1> QED
  BY <1>5, <1>6 DEF OwnInv, OwnTexts, OwnText

LEMMA AskedOwn ==
  ASSUME NEW ms \in Seq(Message), OwnTexts(ms), NEW k \in Keys,
         NEW t \in Seq(Message), t # <<>>, OwnTexts(t), Last(t) = createLoadingAssistantMessage(k)
  PROVE  /\ ms \o t \in Seq(Message) /\ OwnTexts(ms \o t) /\ ms \o t # <<>>
         /\ Last(ms \o t).key = k /\ Last(ms \o t).from = "assistant"
<1>1. Len(ms) \in Nat /\ Len(t) \in Nat /\ Len(t) \in 1 .. Len(t)
  BY LenProperties, LastIsMessage
<1>2. /\ ms \o t \in Seq(Message) /\ Len(ms \o t) = Len(ms) + Len(t)
      /\ \A i \in 1 .. Len(ms) + Len(t) :
           (ms \o t)[i] = IF i <= Len(ms) THEN ms[i] ELSE t[i - Len(ms)]
  BY ConcatProperties
<1>3. ms \o t # <<>> /\ Last(ms \o t) = Last(t)
  <2> DEFINE n == Len(ms) + Len(t)
  <2>1. n \in 1 .. n /\ ~ n <= Len(ms) /\ n - Len(ms) = Len(t)
    BY <1>1
  <2>2. (ms \o t)[n] = t[Len(t)]
    BY <1>2, <2>1
  <2>3. Len(ms \o t) # 0
    BY <1>2, <2>1
  <2> QED
    BY <1>2, <2>2, <2>3 DEF Last
<1> QED
  BY <1>2, <1>3, ConcatOwn DEF createLoadingAssistantMessage

LEMMA NewOwn ==
  ASSUME NEW k \in Keys
  PROVE  /\ OwnText(createLoadingAssistantMessage(k)) /\ OwnText(createUserMessage(k))
         /\ OwnTexts(<<createLoadingAssistantMessage(k)>>)
<1>1. OwnText(createLoadingAssistantMessage(k))
  BY DEF createLoadingAssistantMessage, OwnText
<1>2. OwnText(createUserMessage(k))
  BY DEF createUserMessage, OwnText
<1> QED
  BY <1>1, <1>2 DEF OwnTexts

LEMMA SendOwn == ASSUME PageInv, OwnInv, handleSendMessage PROVE OwnInv'
<1> DEFINE k == nextKey + 1
           a == createUserMessage(nextKey)
           l == createLoadingAssistantMessage(k)
<1>1. ~ isGenerating
  BY DEF handleSendMessage, PageInv, Shown
<1>2. nextKey \in Keys /\ k \in Keys
  BY PlaygroundAssumption DEF handleSendMessage, PageInv, Types, PageTypes, Keys
<1>3. a \in Message /\ l \in Message /\ OwnText(a) /\ OwnText(l)
  BY <1>2, NewMessages, NewOwn
<1>4. /\ messages' = messages \o <<a, l>> /\ saved' = saved /\ sendChat(k) /\ stream' = stream
      /\ messages \in Seq(Message) /\ OwnTexts(messages)
  BY MessageTypes DEF handleSendMessage, updateMessages, OwnInv
<1> DEFINE t == <<a, l>>
<1> HIDE DEF a, l
<1>5. t \in Seq(Message) /\ t # <<>> /\ Last(t) = l /\ OwnTexts(t)
  BY <1>3 DEF Last, OwnTexts
<1> HIDE DEF t
<1>6. Last(t) = createLoadingAssistantMessage(k)
  BY <1>5 DEF l
<1> HIDE DEF k
<1>7. /\ messages \o t \in Seq(Message) /\ OwnTexts(messages \o t) /\ messages \o t # <<>>
      /\ Last(messages \o t).key = k /\ Last(messages \o t).from = "assistant"
  BY <1>2, <1>4, <1>5, <1>6, AskedOwn
<1>8. messages' = messages \o t
  BY <1>4 DEF t
<1> QED
  BY <1>1, <1>2, <1>4, <1>7, <1>8, AskOwn

LEMMA AskAgainOwn ==
  ASSUME PageInv, OwnInv, ~ isGenerating, NEW n \in 0 .. Len(messages), nextKey <= MaxKey,
         updateMessages(SubSeq(messages, 1, n) \o <<createLoadingAssistantMessage(nextKey)>>),
         sendChat(nextKey), stream' = stream
  PROVE  OwnInv'
<1> DEFINE kept == SubSeq(messages, 1, n)
           l == createLoadingAssistantMessage(nextKey)
           t == <<l>>
<1>1. nextKey \in Keys
  BY PlaygroundAssumption DEF PageInv, Types, PageTypes, Keys
<1>2. kept \in Seq(Message) /\ OwnTexts(kept)
  <2>1. messages \in Seq(Message) /\ Len(messages) \in Nat /\ OwnTexts(messages)
    BY MessageTypes DEF OwnInv
  <2>2. 1 \in Nat \ {0} /\ n \in Int /\ n <= Len(messages)
    BY <2>1
  <2>3. /\ kept \in Seq(Message) /\ Len(kept) = IF 1 <= n THEN n - 1 + 1 ELSE 0
        /\ \A j \in 1 .. Len(kept) : kept[j] = messages[1 + j - 1]
    BY <2>1, <2>2, SubText
  <2> HIDE DEF kept
  <2>4. \A j \in 1 .. Len(kept) : 1 + j - 1 \in 1 .. Len(messages)
    BY <2>1, <2>2, <2>3
  <2> QED
    BY <2>1, <2>3, <2>4 DEF OwnTexts
<1>3. l \in Message /\ OwnTexts(t)
  BY <1>1, NewMessages, NewOwn
<1> HIDE DEF l
<1>4. t \in Seq(Message) /\ t # <<>> /\ Last(t) = l
  BY <1>3 DEF Last
<1>5. messages' = kept \o t /\ saved' = saved
  BY DEF updateMessages, l
<1> HIDE DEF kept, t
<1>6. /\ kept \o t \in Seq(Message) /\ OwnTexts(kept \o t) /\ kept \o t # <<>>
      /\ Last(kept \o t).key = nextKey /\ Last(kept \o t).from = "assistant"
  BY <1>1, <1>2, <1>3, <1>4, AskedOwn DEF l
<1> QED
  BY <1>1, <1>5, <1>6, AskOwn

\* The user's steps.
LEMMA UserOwn ==
  ASSUME PageInv, OwnInv, ~ crossed', User
  PROVE  OwnInv'
<1>1. ASSUME NEW i \in DOMAIN messages, handleRegenerateMessage(i) PROVE OwnInv'
  <2> DEFINE n == IF messages[i].from = "user" THEN i ELSE i - 1
  <2>1. n \in 0 .. Len(messages)
    BY MessageTypes
  <2>2. /\ updateMessages(SubSeq(messages, 1, n) \o <<createLoadingAssistantMessage(nextKey)>>)
        /\ ~ isGenerating /\ nextKey <= MaxKey /\ sendChat(nextKey) /\ stream' = stream
    BY <1>1 DEF handleRegenerateMessage, createRegeneratedMessages
  <2> HIDE DEF n
  <2> QED
    BY <2>1, <2>2, AskAgainOwn
<1>2. ASSUME NEW i \in DOMAIN messages, SaveEditAndSubmit(i) PROVE OwnInv'
  <2>1. i \in 0 .. Len(messages)
    BY MessageTypes
  <2>2. /\ updateMessages(SubSeq(messages, 1, i) \o <<createLoadingAssistantMessage(nextKey)>>)
        /\ ~ isGenerating /\ nextKey <= MaxKey /\ sendChat(nextKey) /\ stream' = stream
    BY <1>2 DEF SaveEditAndSubmit
  <2> QED
    BY <2>1, <2>2, AskAgainOwn
<1>3. CASE TypeInEditor \/ CancelEdit
  BY <1>3, NetKept, RequestKept, StoreKept
  DEF TypeInEditor, CancelEdit, OwnInv, Linked, isGenerating, isStreaming
<1>4. CASE handleClearMessages
  <2>1. messages' = <<>> /\ saved' = saved /\ ~ isGenerating /\ RunFrame
    BY <1>4, NetKept, RequestKept DEF handleClearMessages, updateMessages, RunFrame, past
  <2> QED
    BY <2>1, NoTexts, QuietOwn
<1> QED
  BY <1>1, <1>2, <1>3, <1>4, SendOwn, BringsOwn, EditOwn DEF User, Brings

\* What is stored is what was shown.
LEMMA StoredOwn ==
  ASSUME NEW ms \in Seq(Message), OwnTexts(ms), OwnTexts(saved),
         saveMessages(ms) \/ saved' \in {saved, <<>>}
  PROVE  OwnTexts(saved')
<1>1. saved' \in {saved, <<>>, trimMessages(ms)}
  BY DEF saveMessages
<1>2. OwnTexts(trimMessages(ms))
  BY TrimmedIsTail, TailOwn
<1> QED
  BY <1>1, <1>2, NoTexts

LEMMA VisitOwn ==
  ASSUME PageInv, OwnInv, saveTimerFires \/ leavePage \/ reloadPage \/ loadOnMount
  PROVE  OwnInv'
<1>1. messages \in Seq(Message) /\ OwnTexts(messages) /\ OwnTexts(saved)
  BY MessageTypes DEF OwnInv
<1>2. CASE saveTimerFires
  <2>1. messages' = messages /\ saveMessages(messages) /\ UNCHANGED net /\ UNCHANGED request
        /\ stream' = stream
    BY <1>2 DEF saveTimerFires
  <2>2. OwnTexts(saved')
    BY <1>1, <2>1, StoredOwn
  <2>3. NothingNew
    BY <2>1, NetKept, RequestKept DEF NothingNew, isStreaming
  <2>4. OwnTexts(messages') /\ Linked'
    BY <2>1, <2>3, SameAfter, LinkKept DEF OwnAnswered
  <2> QED
    BY <2>2, <2>4 DEF OwnInv, OwnTexts, OwnText
<1>3. CASE leavePage \/ reloadPage
  <2>1. Mounted /\ (saveMessages(messages) \/ saved' = saved)
    BY <1>3 DEF leavePage, reloadPage
  <2>2. OwnTexts(saved')
    BY <1>1, <2>1, StoredOwn
  <2>3. messages' = <<>> /\ Linked'
    BY <2>1 DEF Mounted, Linked, isGenerating, isStreaming
  <2> QED
    BY <2>2, <2>3, NoTexts DEF OwnInv, OwnTexts, OwnText
<1>4. CASE loadOnMount
  <2>1. /\ messages' = loadMessages(saved) /\ UNCHANGED net /\ UNCHANGED request
        /\ stream' = stream /\ ~ loaded
        /\ saveMessages(messages') \/ saved' = <<>>
    BY <1>4 DEF loadOnMount
  <2>2. saved \in Seq(Message) /\ OnlyLastPending(saved) /\ ~ isGenerating /\ pending = <<>>
    BY <2>1 DEF PageInv, Types, StoreTypes, Waiting, Shown, Sources, isGenerating
  <2>3. messages' \in Seq(Message) /\ OwnTexts(messages')
    BY <1>1, <2>1, <2>2, LoadedMessages, LoadedOwn
  <2>4. OwnTexts(saved')
    BY <1>1, <2>1, <2>3, StoredOwn
  <2>5. Linked'
    BY <2>1, <2>2, NetKept, RequestKept DEF Linked, isGenerating, isStreaming
  <2> QED
    BY <2>3, <2>4, <2>5 DEF OwnInv, OwnTexts, OwnText
<1> QED
  BY <1>2, <1>3, <1>4

\* What a page that was left may still write has texts of its own.
LateOwn == \A ms \in late : OwnTexts(ms)

\* What waits for the exchange k is of the last message.
LEMMA LateTextOwn ==
  ASSUME PageInv, OwnInv, NEW k \in Runs, NEW text \in LateTexts(k)
  PROVE  k = Last(messages).key /\ \A i \in 1 .. Len(text) : text[i] = k
<1>1. k \in Keys
  BY RunKeys
<1>2. k = Last(messages).key /\ (stream => k = source.ex)
  <2>1. CASE source.open /\ k = source.ex
    <3>1. isStreaming /\ stream
      BY <2>1 DEF PageInv, Sources, isStreaming, NoSource
    <3> QED
      BY <2>1, <3>1 DEF OwnInv, Linked
  <2>2. CASE \E c \in calls : ~ c.aborted /\ k = c.ex
    <3>1. requesting /\ k = requestId /\ ~ stream
      BY <2>2 DEF PageInv, Requests
    <3> QED
      BY <3>1 DEF OwnInv, Linked
  <2> QED
    BY <2>1, <2>2 DEF Runs
<1>3. CASE ~ stream
  <2>1. PICK n \in {0, 1} : text = [i \in 1 .. n |-> k]
    BY <1>3 DEF LateTexts
  <2>2. Len([i \in 1 .. n |-> k]) = n
    OBVIOUS
  <2> QED
    BY <1>2, <2>1, <2>2
<1>4. CASE stream
  <2>1. pending \in Seq(Keys) /\ \A i \in 1 .. Len(pending) : pending[i] = k
    BY <1>2, <1>4 DEF PageInv, Types, NetTypes, OwnInv, Linked
  <2>2. CASE text = pending
    BY <1>2, <2>1, <2>2
  <2>3. ASSUME NEW n \in ChunkSizes,
               text = mergePendingStreamChunk(pending, [i \in 1 .. n |-> k])
        PROVE  \A i \in 1 .. Len(text) : text[i] = k
    <3> DEFINE chunk == [i \in 1 .. n |-> k]
    <3>1. n \in Nat
      BY PlaygroundAssumption
    <3>2. chunk \in Seq(Keys) /\ Len(chunk) = n /\ \A i \in 1 .. n : chunk[i] = k
      BY <1>1, <3>1
    <3>3. text = pending \o chunk \/ text = chunk
      BY <2>3 DEF mergePendingStreamChunk
    <3> HIDE DEF chunk
    <3>4. \A i \in 1 .. Len(pending \o chunk) : (pending \o chunk)[i] = k
      BY <2>1, <3>1, <3>2
    <3> QED
      BY <3>2, <3>3, <3>4
  <2> QED
    BY <1>2, <1>4, <2>2, <2>3 DEF LateTexts
<1> QED
  BY <1>2, <1>3, <1>4

LEMMA LateMessagesOwn ==
  ASSUME PageInv, OwnInv, NEW k \in Runs, NEW text \in LateTexts(k)
  PROVE  OwnTexts(LateMessages(text))
<1> DEFINE m == Last(messages)
           u == IF stream THEN applyStreamingChunk(m, text) ELSE applyChatCompletionResponse(m, text)
<1>1. text \in Text /\ messages # <<>> /\ k = m.key /\ \A i \in 1 .. Len(text) : text[i] = k
  BY LateTextOf, LateTextOwn
<1>2. m \in Message /\ OwnText(m)
  BY <1>1, SameAfter, LastOwn
<1> HIDE DEF m
<1>3. u \in Message /\ u.key = m.key /\ u.from = m.from /\ OwnText(u)
  <2>1. CASE stream
    BY <1>1, <1>2, <2>1, ChunkApplied, AppliedOwn
  <2>2. CASE ~ stream
    <3>1. "complete" \in {"none"} \cup Pending \cup Final
      BY DEF Final
    <3>2. /\ u \in Message /\ u.key = m.key /\ u.from = m.from /\ u.text = text
      BY <1>1, <1>2, <2>2, <3>1 DEF applyChatCompletionResponse, Message, Text
    <3> HIDE DEF u
    <3> QED
      BY <1>1, <3>2 DEF OwnText
  <2> QED
    BY <2>1, <2>2
<1>4. LateMessages(text) = updateLastAssistantMessage(messages, u)
  BY DEF LateMessages, m
<1> HIDE DEF u
<1>5. OwnAnswered(updateLastAssistantMessage(messages, u))
  BY <1>3, SameAfter, UpdatedOwn DEF m
<1> QED
  BY <1>4, <1>5 DEF OwnAnswered, OwnAfter

\* A page that was left writes what it showed.
LEMMA LeftOwn ==
  ASSUME PageInv, LateInv, OwnInv, LateOwn,
         (\E ms \in late : leftPageSaves(ms)) \/ (\E k \in left : leftExchangeEnds(k))
  PROVE  OwnInv'
<1>1. /\ messages' = messages /\ UNCHANGED net /\ UNCHANGED request /\ stream' = stream
      /\ saved' = saved \/ \E ms \in late : saved' = trimMessages(ms)
  BY StoreKept DEF leftPageSaves, leftExchangeEnds
<1>2. OwnTexts(saved')
  BY <1>1, TrimmedIsTail, TailOwn DEF LateInv, LateOwn, OwnInv
<1>3. Linked'
  BY <1>1, NetKept, RequestKept DEF OwnInv, Linked, isGenerating, isStreaming
<1> QED
  BY <1>1, <1>2, <1>3 DEF OwnInv, OwnTexts, OwnText

LEMMA OwnStep ==
  ASSUME ~ crossed', PageInv, LateInv, OwnInv, LateOwn, [Next]_vars
  PROVE  OwnInv' /\ LateOwn'
<1>1. OwnInv'
  <2>1. CASE UNCHANGED vars
    BY <2>1, NetKept, RequestKept, StoreKept
    DEF vars, OwnInv, OwnTexts, OwnText, Linked, isGenerating, isStreaming
  <2> QED
    BY <2>1, UserOwn, ChunkOwn, BringsOwn, VisitOwn, LeftOwn DEF Next, Brings
<1>2. \A ms \in late' : OwnTexts(ms)
  BY LeftBehind, LateMessagesOwn DEF LateOwn
<1> QED
  BY <1>1, <1>2 DEF LateOwn, OwnTexts, OwnText

LEMMA OwnInvariance == Spec => [](crossed \/ (OwnInv /\ LateOwn))
<1>1. Init => OwnInv /\ LateOwn
  BY DEF Init, OwnInv, LateOwn, OwnTexts, Linked, isGenerating, isStreaming
<1>2. ASSUME crossed \/ (PageInv /\ LateInv), crossed \/ (OwnInv /\ LateOwn), [Next]_vars
      PROVE  crossed' \/ (OwnInv /\ LateOwn)'
  BY <1>2, CrossedStays, OwnStep
<1> QED
  BY <1>1, <1>2, PageInvariance, PTL DEF Spec

\* flushStreamUpdates and sendNonStreamingChat write into "the last assistant
\* message"; whatever was stopped, edited, regenerated, left, stored and loaded
\* in between, that is the one the text was asked for, until an edit is
\* submitted while an answer is on its way (which the editor does not forbid).
THEOREM PlaygroundAnswerInOwnMessage == Spec => [](crossed \/ AnswerInOwnMessage)
<1>1. ASSUME PageInv, OwnInv PROVE AnswerInOwnMessage
  <2>1. ASSUME NEW i \in DOMAIN messages, messages[i].from = "assistant"
        PROVE  Range(messages[i].text) \subseteq {messages[i].key, Notice}
    <3>1. i \in 1 .. Len(messages) /\ messages[i].text \in Text
      BY <1>1, MessageTypes, MessageParts
    <3>2. \A j \in 1 .. Len(messages[i].text) :
            messages[i].text[j] \in {messages[i].key, Notice}
      BY <1>1, <2>1, <3>1 DEF OwnInv, OwnTexts, OwnText
    <3>3. DOMAIN messages[i].text = 1 .. Len(messages[i].text)
      BY <3>1, LenProperties DEF Text
    <3> QED
      BY <3>2, <3>3 DEF Range
  <2> QED
    BY <2>1 DEF AnswerInOwnMessage
<1> QED
  BY <1>1, PageInvariance, OwnInvariance, PTL

-----------------------------------------------------------------------------
(* The keys of the messages.                                               *)

\* No two messages have the same key, and none has one that is still to come.
Keyed(ms, n) ==
    /\ \A i \in 1 .. Len(ms) : ms[i].key < n
    /\ \A i, j \in 1 .. Len(ms) : ms[i].key = ms[j].key => i = j

\* While something is on its way the last message waits for it.
Busy == isGenerating => isAssistantMessagePending(Last(messages))

KeyInv == Keyed(messages, nextKey) /\ Keyed(saved, nextKey) /\ Busy

\* What a page that was left may still write has keys of its own too.
LateKeyed == \A ms \in late : Keyed(ms, nextKey)

\* b has the messages of ms at the places f, each at most once.
PicksBy(f, b, ms) ==
    /\ \A j \in 1 .. Len(b) : f[j] \in 1 .. Len(ms) /\ b[j] = ms[f[j]]
    /\ \A i, j \in 1 .. Len(b) : f[i] = f[j] => i = j
Picks(b, ms) == \E f : PicksBy(f, b, ms)

LEMMA PicksKeyed ==
  ASSUME NEW b, NEW ms, NEW n, Picks(b, ms), Keyed(ms, n) PROVE Keyed(b, n)
<1>1. PICK f : PicksBy(f, b, ms)
  BY DEF Picks
<1>2. \A j \in 1 .. Len(b) : f[j] \in 1 .. Len(ms) /\ b[j] = ms[f[j]]
  BY <1>1 DEF PicksBy
<1>3. ASSUME NEW i \in 1 .. Len(b), NEW j \in 1 .. Len(b), b[i].key = b[j].key PROVE i = j
  <2>1. /\ f[i] \in 1 .. Len(ms) /\ f[j] \in 1 .. Len(ms)
        /\ ms[f[i]].key = ms[f[j]].key
    BY <1>2, <1>3, Zenon
  <2>2. f[i] = f[j]
    BY <2>1, Zenon DEF Keyed
  <2> QED
    BY <1>1, <2>2 DEF PicksBy
<1>4. \A j \in 1 .. Len(b) : b[j].key < n
  BY <1>2 DEF Keyed
<1> QED
  BY <1>3, <1>4 DEF Keyed

LEMMA TailPicks ==
  ASSUME NEW ms \in Seq(Message), NEW t \in Seq(Message), IsTail(t, ms) PROVE Picks(t, ms)
<1> DEFINE f == [i \in 1 .. Len(t) |-> Len(ms) - Len(t) + i]
<1>1. Len(ms) \in Nat /\ Len(t) \in Nat
  BY LenProperties
<1>2. PicksBy(f, t, ms)
  BY <1>1 DEF PicksBy, IsTail
<1> QED
  BY <1>2 DEF Picks

LEMMA PrefixPicks ==
  ASSUME NEW ms \in Seq(Message), NEW n \in 0 .. Len(ms) PROVE Picks(SubSeq(ms, 1, n), ms)
<1> DEFINE t == SubSeq(ms, 1, n)
           f == [i \in 1 .. Len(t) |-> i]
<1>1. Len(ms) \in Nat /\ n \in Int /\ n <= Len(ms) /\ 1 \in Nat \ {0}
  BY LenProperties
<1>2. /\ Len(t) = IF 1 <= n THEN n - 1 + 1 ELSE 0
      /\ \A j \in 1 .. Len(t) : t[j] = ms[1 + j - 1]
  BY <1>1, SubText
<1> HIDE DEF t
<1>3. \A j \in 1 .. Len(t) : j \in 1 .. Len(ms) /\ 1 + j - 1 = j
  BY <1>1, <1>2
<1>4. PicksBy(f, t, ms)
  BY <1>2, <1>3 DEF PicksBy
<1> QED
  BY <1>4 DEF Picks, t

LEMMA RemovedPicks ==
  ASSUME NEW ms \in Seq(Message), NEW i \in 1 .. Len(ms)
  PROVE  RemoveAt(ms, i) \in Seq(Message) /\ Picks(RemoveAt(ms, i), ms)
<1> DEFINE before == SubSeq(ms, 1, i - 1)
           after == SubSeq(ms, i + 1, Len(ms))
           f == [j \in 1 .. Len(ms) - 1 |-> IF j < i THEN j ELSE j + 1]
<1>1. Len(ms) \in Nat /\ Len(ms) \in Int /\ i \in Nat \ {0} /\ i + 1 \in Nat \ {0}
      /\ i - 1 \in Int /\ i - 1 <= Len(ms) /\ Len(ms) <= Len(ms) /\ 1 \in Nat \ {0}
  BY LenProperties
<1>2. /\ before \in Seq(Message) /\ Len(before) = IF 1 <= i - 1 THEN i - 1 - 1 + 1 ELSE 0
      /\ \A j \in 1 .. Len(before) : before[j] = ms[1 + j - 1]
  BY <1>1, SubText
<1>3. /\ after \in Seq(Message)
      /\ Len(after) = IF i + 1 <= Len(ms) THEN Len(ms) - (i + 1) + 1 ELSE 0
      /\ \A j \in 1 .. Len(after) : after[j] = ms[i + 1 + j - 1]
  BY <1>1, SubText
<1>4. RemoveAt(ms, i) = before \o after
  BY DEF RemoveAt
<1> HIDE DEF before, after
<1>5. /\ before \o after \in Seq(Message) /\ Len(before \o after) = Len(before) + Len(after)
      /\ \A j \in 1 .. Len(before) + Len(after) :
           (before \o after)[j] = IF j <= Len(before) THEN before[j] ELSE after[j - Len(before)]
  BY <1>2, <1>3, ConcatProperties
<1>6. Len(before) = i - 1 /\ Len(after) = Len(ms) - i /\ Len(before) + Len(after) = Len(ms) - 1
  <2>1. i \in Nat /\ i >= 1 /\ i <= Len(ms)
    BY <1>1
  <2>2. Len(before) = i - 1
    BY <1>2, <2>1
  <2>3. Len(after) = Len(ms) - i
    BY <1>1, <1>3, <2>1
  <2> QED
    BY <1>1, <2>1, <2>2, <2>3
<1>7. \A j \in 1 .. Len(ms) - 1 : f[j] \in 1 .. Len(ms) /\ (before \o after)[j] = ms[f[j]]
  <2> SUFFICES ASSUME NEW j \in 1 .. Len(ms) - 1
               PROVE  f[j] \in 1 .. Len(ms) /\ (before \o after)[j] = ms[f[j]]
    OBVIOUS
  <2>1. CASE j < i
    BY <1>1, <1>2, <1>5, <1>6, <2>1
  <2>2. CASE ~ j < i
    <3>1. j - Len(before) \in 1 .. Len(after) /\ i + 1 + (j - Len(before)) - 1 = j + 1
      BY <1>1, <1>6, <2>2
    <3>2. (before \o after)[j] = ms[j + 1]
      BY <1>1, <1>3, <1>5, <1>6, <2>2, <3>1
    <3> QED
      BY <1>1, <2>2, <3>2
  <2> QED
    BY <2>1, <2>2
<1>8. PicksBy(f, before \o after, ms)
  <2>1. \A j, l \in 1 .. Len(ms) - 1 : f[j] = f[l] => j = l
    BY <1>1
  <2> HIDE DEF f
  <2> QED
    BY <1>5, <1>6, <1>7, <2>1 DEF PicksBy
<1> QED
  BY <1>4, <1>5, <1>8 DEF Picks

LEMMA ConcatKeyed ==
  ASSUME NEW s \in Seq(Message), NEW t \in Seq(Message), NEW n \in Nat, NEW m \in Nat, n <= m,
         Keyed(s, n), Keyed(t, m), \A j \in 1 .. Len(t) : t[j].key >= n
  PROVE  Keyed(s \o t, m)
<1>1. Len(s) \in Nat /\ Len(t) \in Nat
  BY LenProperties
<1>2. /\ s \o t \in Seq(Message) /\ Len(s \o t) = Len(s) + Len(t)
      /\ \A i \in 1 .. Len(s) + Len(t) :
           (s \o t)[i] = IF i <= Len(s) THEN s[i] ELSE t[i - Len(s)]
  BY ConcatProperties
<1>3. \A i \in 1 .. Len(s) + Len(t) : i > Len(s) => i - Len(s) \in 1 .. Len(t)
  BY <1>1
<1>4. \A i \in 1 .. Len(s) : s[i].key \in Nat /\ s[i].key < n
  BY <1>1, ElementOfSeq, MessageParts, NotKeys DEF Keyed
<1>5. \A i \in 1 .. Len(t) : t[i].key \in Nat /\ t[i].key < m /\ t[i].key >= n
  BY <1>1, ElementOfSeq, MessageParts, NotKeys DEF Keyed
<1>6. ASSUME NEW i \in 1 .. Len(s \o t) PROVE (s \o t)[i].key < m
  <2>0. i \in 1 .. Len(s) + Len(t)
    BY <1>2
  <2>1. CASE i <= Len(s)
    <3>1. (s \o t)[i] = s[i] /\ i \in 1 .. Len(s)
      BY <1>1, <1>2, <2>0, <2>1
    <3>2. s[i].key \in Nat /\ s[i].key < n
      BY <1>4, <3>1
    <3> QED
      BY <3>1, <3>2
  <2>2. CASE ~ i <= Len(s)
    <3>1. (s \o t)[i] = t[i - Len(s)] /\ i - Len(s) \in 1 .. Len(t)
      BY <1>1, <1>2, <2>0, <2>2
    <3> QED
      BY <1>5, <3>1
  <2> QED
    BY <2>1, <2>2
<1>7. ASSUME NEW i \in 1 .. Len(s \o t), NEW j \in 1 .. Len(s \o t),
             (s \o t)[i].key = (s \o t)[j].key
      PROVE  i = j
  <2>1. CASE i <= Len(s) /\ j <= Len(s)
    BY <1>1, <1>2, <1>7, <2>1 DEF Keyed
  <2>2. CASE i > Len(s) /\ j > Len(s)
    <3>1. i - Len(s) \in 1 .. Len(t) /\ j - Len(s) \in 1 .. Len(t)
      BY <1>1, <1>2, <1>3, <2>2
    <3>2. (s \o t)[i] = t[i - Len(s)] /\ (s \o t)[j] = t[j - Len(s)]
      BY <1>1, <1>2, <2>2
    <3>3. i - Len(s) = j - Len(s)
      BY <1>7, <3>1, <3>2 DEF Keyed
    <3> QED
      BY <1>1, <3>3
  <2>3. CASE i <= Len(s) /\ j > Len(s)
    BY <1>1, <1>2, <1>3, <1>4, <1>5, <1>7, <2>3
  <2>4. CASE i > Len(s) /\ j <= Len(s)
    BY <1>1, <1>2, <1>3, <1>4, <1>5, <1>7, <2>4
  <2> QED
    BY <1>1, <1>2, <2>1, <2>2, <2>3, <2>4
<1> QED
  BY <1>6, <1>7 DEF Keyed

LEMMA KeyedMore ==
  ASSUME NEW ms \in Seq(Message), NEW n \in Nat, NEW m \in Nat, n <= m, Keyed(ms, n)
  PROVE  Keyed(ms, m)
<1>1. \A i \in 1 .. Len(ms) : ms[i].key \in Nat
  BY LenProperties, ElementOfSeq, MessageParts, NotKeys
<1> QED
  BY <1>1 DEF Keyed

\* Loading keeps the keys of the messages it shows.
LEMMA LoadedKeyed ==
  ASSUME NEW ms \in Seq(Message), OnlyLastPending(ms), NEW n, Keyed(ms, n)
  PROVE  Keyed(loadMessages(ms), n)
<1> DEFINE normalized == [i \in 1 .. Len(ms) |-> normalizeStoredMessageForLoad(ms[i])]
           trimmed == trimMessages(normalized)
           sized == trimMessagesByContentSize(trimmed)
<1>1. Len(ms) \in Nat /\ \A i \in 1 .. Len(ms) : ms[i] \in Message
  BY LenProperties, ElementOfSeq
<1>2. /\ normalized \in Seq(Message) /\ Len(normalized) = Len(ms)
      /\ \A i \in 1 .. Len(ms) : normalized[i].key = ms[i].key
  BY <1>1, Normalized
<1>3. OnlyLastPending(normalized)
  BY <1>1, <1>2, Normalized DEF OnlyLastPending
<1>4. loadMessages(ms) = IF SizeOf(ms) > MaxStoredChars THEN <<>>
                         ELSE sanitizeMessagesOnLoad(sized)
  BY DEF loadMessages
<1> HIDE DEF normalized
<1>5. Keyed(normalized, n)
  BY <1>2 DEF Keyed
<1>6. trimmed \in Seq(Message) /\ OnlyLastPending(trimmed) /\ Keyed(trimmed, n)
  BY <1>2, <1>3, <1>5, TrimmedIsTail, TailOnlyLastPending, TailPicks, PicksKeyed
<1> HIDE DEF trimmed
<1>7. sized \in Seq(Message) /\ OnlyLastPending(sized) /\ Keyed(sized, n)
  BY <1>6, SizedIsTail, TailOnlyLastPending, TailPicks, PicksKeyed
<1> HIDE DEF sized
<1> DEFINE t == sanitizeMessagesOnLoad(sized)
<1>8. Len(t) = Len(sized) /\ \A j \in 1 .. Len(sized) : t[j].key = sized[j].key
  BY <1>7, Sanitized
<1> HIDE DEF t
<1>9. Keyed(t, n)
  BY <1>7, <1>8 DEF Keyed
<1>10. Keyed(<<>>, n)
  BY DEF Keyed
<1> QED
  BY <1>4, <1>9, <1>10 DEF t

\* What is stored is what was stored or part of what was or is shown.
LEMMA StoredFrom ==
  ASSUME [Next]_vars
  PROVE  saved' \in {saved, <<>>, trimMessages(messages), trimMessages(messages')}
                         \cup {trimMessages(ms) : ms \in late}
<1>1. CASE Kept
  BY <1>1, StoreKept DEF Kept
<1>2. CASE Changed
  BY <1>2 DEF Changed, updateMessages
<1>3. CASE Saved
  BY <1>3 DEF Saved, saveMessages
<1>4. CASE leavePage \/ reloadPage
  BY <1>4 DEF leavePage, reloadPage, saveMessages
<1>5. CASE loadOnMount
  BY <1>5 DEF loadOnMount, saveMessages
<1>6. CASE Written
  BY <1>6 DEF Written
<1> QED
  BY <1>1, <1>2, <1>3, <1>4, <1>5, <1>6, StoreStep

-----------------------------------------------------------------------------
(* What a step makes of the conversation.                                  *)

\* A message m that stays becomes b: it is left alone, grows by pieces of its
\* own answer or is edited, or its answer ends.
Kin(m, b) == b.key = m.key /\ b.from = m.from
Grown(m, b) ==
    /\ isAssistantMessagePending(m) /\ b.status = "streaming"
    /\ Len(b.text) >= Len(m.text)
    /\ \A i \in 1 .. Len(b.text) :
         b.text[i] = IF i <= Len(m.text) THEN m.text[i] ELSE m.key
Edited(m, b) == b.status = m.status /\ b.text = <<Notice>>
Ended(m, b) == isAssistantMessagePending(m) /\ ~ isAssistantMessagePending(b) /\ OwnText(b)
Goes(m, b) == Kin(m, b) /\ (b = m \/ Grown(m, b) \/ Edited(m, b))

\* The messages stay where they are.
InPlace(b) ==
    /\ b \in Seq(Message) /\ Len(b) = Len(messages)
    /\ \A j \in 1 .. Len(messages) :
         Goes(messages[j], b[j]) \/ (Kin(messages[j], b[j]) /\ Ended(messages[j], b[j]))

\* Messages go, and the others are as they were or have just been created.
Fresh(m) ==
    /\ m.key >= nextKey
    /\ m.from = "assistant" => m.status = "loading" /\ m.text = <<>>
Rebuilt(b) ==
    /\ b \in Seq(Message)
    /\ \A j \in 1 .. Len(b) :
         (\E i \in 1 .. Len(messages) : b[j] = messages[i]) \/ Fresh(b[j])

LEMMA InPlaceKeyed ==
  ASSUME NEW b, InPlace(b), NEW n, Keyed(messages, n) PROVE Keyed(b, n)
  BY DEF InPlace, Goes, Kin, Keyed

LEMMA SameInPlace == ASSUME PageInv PROVE InPlace(messages)
  BY MessageTypes DEF InPlace, Goes, Kin

\* What is on its way is still waited for.
LEMMA StillBusy ==
  ASSUME PageInv, Busy, isGenerating' => isGenerating, Len(messages') = Len(messages),
         \A j \in 1 .. Len(messages) : Goes(messages[j], messages'[j])
  PROVE  Busy'
<1> SUFFICES ASSUME isGenerating' PROVE isAssistantMessagePending(Last(messages'))
  BY DEF Busy, isAssistantMessagePending
<1> DEFINE n == Len(messages)
<1>1. n \in 1 .. n /\ isAssistantMessagePending(messages[n])
  BY MessageTypes, LastIsMessage DEF PageInv, Shown, Busy, Last
<1>2. Goes(messages[n], messages'[n]) /\ Last(messages') = messages'[n]
  BY <1>1 DEF Last
<1> HIDE DEF n
<1> QED
  BY <1>1, <1>2 DEF Goes, Grown, Edited, isAssistantMessagePending, Pending

\* flushStreamUpdates.
LEMMA FlushGoes ==
  ASSUME PageInv, OwnInv, KeyInv, pending # <<>>
  PROVE  InPlace(flushed) /\ \A j \in 1 .. Len(messages) : Goes(messages[j], flushed[j])
<1>1. /\ flushed \in Seq(Message) /\ Len(flushed) = Len(messages)
      /\ \A j \in 1 .. Len(messages) :
           /\ flushed[j].key = messages[j].key /\ flushed[j].from = messages[j].from
           /\ j # Len(messages) \/ messages[j].from # "assistant" \/ pending = <<>> =>
                flushed[j] = messages[j]
           /\ j = Len(messages) /\ messages[j].from = "assistant" /\ pending # <<>> =>
                flushed[j] = applyStreamingChunk(messages[j], pending)
  BY FlushedMessages DEF PageInv
<1>2. ASSUME NEW j \in 1 .. Len(messages) PROVE Goes(messages[j], flushed[j])
  <2> DEFINE m == messages[j]
             new == getAppendableChunk(m.text, pending)
  <2>1. Kin(m, flushed[j]) /\ m \in Message
    BY <1>1, MessageTypes DEF Kin
  <2>2. CASE flushed[j] = m
    BY <2>1, <2>2 DEF Goes
  <2>3. CASE flushed[j] # m
    <3>1. j = Len(messages) /\ flushed[j] = applyStreamingChunk(m, pending) /\ m = Last(messages)
      BY <1>1, <2>3 DEF Last
    <3>2. isAssistantMessagePending(m)
      BY <3>1 DEF KeyInv, Busy, PageInv, Sources, isGenerating
    <3>3. m.status # "error"
      BY <3>2 DEF isAssistantMessagePending, Pending
    <3>4. flushed[j].text = m.text \o new /\ flushed[j].status = "streaming"
      BY <2>1, <3>1, <3>3 DEF applyStreamingChunk, Message
    <3>5. new \in Text /\ \A i \in 1 .. Len(new) : new[i] = m.key
      BY <2>1, <3>1, PendingOwn, NewPieces
    <3>6. m.text \in Text
      BY <2>1, MessageParts
    <3> HIDE DEF m, new
    <3>7. Len(m.text) \in Nat /\ Len(new) \in Nat
      BY <3>5, <3>6, LenProperties DEF Text
    <3>8. /\ Len(m.text \o new) = Len(m.text) + Len(new)
          /\ \A i \in 1 .. Len(m.text) + Len(new) :
               (m.text \o new)[i] = IF i <= Len(m.text) THEN m.text[i] ELSE new[i - Len(m.text)]
      BY <3>5, <3>6, ConcatProperties DEF Text
    <3>9. ASSUME NEW i \in 1 .. Len(m.text) + Len(new)
          PROVE  (m.text \o new)[i] = IF i <= Len(m.text) THEN m.text[i] ELSE m.key
      <4>1. CASE i <= Len(m.text)
        BY <3>8, <4>1
      <4>2. CASE ~ i <= Len(m.text)
        <5>1. i - Len(m.text) \in 1 .. Len(new)
          BY <3>7, <4>2
        <5> QED
          BY <3>5, <3>8, <4>2, <5>1
      <4> QED
        BY <4>1, <4>2
    <3>10. Grown(m, flushed[j])
      BY <3>2, <3>4, <3>7, <3>8, <3>9 DEF Grown
    <3> QED
      BY <2>1, <3>10 DEF Goes, m
  <2> QED
    BY <2>2, <2>3
<1> QED
  BY <1>1, <1>2 DEF InPlace

\* An answer that ends: only the last message changes, and it waited.
LEMMA EndInPlace ==
  ASSUME PageInv, OwnInv, KeyInv, NEW b, OwnAnswered(b), NonePending(b), isGenerating
  PROVE  InPlace(b)
<1>1. /\ b \in Seq(Message) /\ Len(b) = Len(messages)
      /\ \A j \in 1 .. Len(messages) : Kin(messages[j], b[j])
  BY DEF OwnAnswered, OwnAfter, Kin
<1>2. ASSUME NEW j \in 1 .. Len(messages)
      PROVE  b[j] = messages[j] \/ Ended(messages[j], b[j])
  <2>1. CASE j # Len(messages)
    BY <2>1 DEF OwnAnswered, Answered
  <2>2. CASE j = Len(messages)
    <3>1. isAssistantMessagePending(messages[j])
      BY <2>2 DEF KeyInv, Busy, Last
    <3>2. ~ isAssistantMessagePending(b[j]) /\ OwnText(b[j])
      BY <1>1 DEF OwnAnswered, OwnAfter, OwnTexts, NonePending
    <3> QED
      BY <3>1, <3>2 DEF Ended
  <2> QED
    BY <2>1, <2>2
<1> QED
  BY <1>1, <1>2 DEF InPlace, Goes

\* The steps that bring an answer: it grows, or it ends and nothing runs.
LEMMA BringsInPlace ==
  ASSUME PageInv, OwnInv, KeyInv, Brings, PageInv'
  PROVE  InPlace(messages') /\ Busy'
<1>1. NothingNew /\ OwnAnswered(messages')
  BY BringsAnswered
<1>2. isGenerating' => isGenerating
  BY <1>1 DEF NothingNew, isGenerating
<1>3. CASE messages' = messages
  BY <1>2, <1>3, SameInPlace, MessageTypes, StillBusy DEF KeyInv, Goes, Kin
<1>4. CASE flushTimerFires
  <2>1. CASE pending = <<>>
    BY <1>3, <1>4, <2>1 DEF flushTimerFires
  <2>2. CASE pending # <<>>
    <3>1. messages' = flushed
      BY <1>4, <2>2 DEF flushTimerFires, updateMessages
    <3>2. Len(flushed) = Len(messages)
      BY FlushedMessages DEF PageInv
    <3> QED
      BY <1>2, <2>2, <3>1, <3>2, FlushGoes, StillBusy DEF KeyInv
  <2> QED
    BY <2>1, <2>2
<1>5. ASSUME isGenerating, ~ isGenerating' PROVE InPlace(messages') /\ Busy'
  <2>1. NonePending(messages')
    BY <1>5 DEF PageInv, Waiting, NonePending, isAssistantMessagePending
  <2> QED
    BY <1>1, <1>5, <2>1, EndInPlace DEF Busy
<1>6. CASE handleStreamComplete \/ handleStreamError \/ stopGeneration
  <2>1. isGenerating /\ ~ isGenerating'
    BY <1>6 DEF handleStreamComplete, handleStreamError, stopGeneration, isGenerating,
       isStreaming, NoSource
  <2> QED
    BY <1>5, <2>1
<1>7. CASE closedWithoutDone
  BY <1>3, <1>7 DEF closedWithoutDone
<1>8. ASSUME NEW c \in calls, CallEnds(c) PROVE InPlace(messages') /\ Busy'
  <2>1. CASE callAborted(c)
    BY <1>3, <2>1 DEF callAborted
  <2>2. CASE callFailed(c) \/ \E n \in {0, 1} : callAnswered(c, n)
    <3>1. /\ ~ c.aborted /\ UNCHANGED answerFrame /\ source' = source /\ chunks' = chunks
          /\ \/ pending' = pending /\ flushTimer' = flushTimer
             \/ pending' = <<>> /\ flushTimer' = FALSE
          /\ \E now \in {requesting, FALSE} : FinishCall(c, now)
      BY <2>2, NetKept DEF callFailed, callAnswered, FlushStreamUpdates
    <3>2. requesting \in BOOLEAN
      BY DEF PageInv, Types, RequestTypes
    <3>3. isGenerating /\ ~ isGenerating'
      BY <3>1, <3>2, CallEndedRun
    <3> QED
      BY <1>5, <3>3
  <2> QED
    BY <1>8, <2>1, <2>2 DEF CallEnds
<1> QED
  BY <1>4, <1>6, <1>7, <1>8 DEF Brings, StreamEnds

\* Save in the editor.
LEMMA EditInPlace ==
  ASSUME PageInv, KeyInv, NEW i \in DOMAIN messages, SaveEdit(i)
  PROVE  InPlace(messages') /\ Busy'
<1> DEFINE m == [messages[i] EXCEPT !.text = <<Notice>>]
           ms == [messages EXCEPT ![i] = m]
<1>1. i \in 1 .. Len(messages) /\ messages[i] \in Message /\ messages \in Seq(Message)
  BY MessageTypes
<1>2. m \in Message /\ Kin(messages[i], m) /\ Edited(messages[i], m)
  BY <1>1, NoticeText DEF Message, Text, Kin, Edited
<1>3. messages' = ms
  BY DEF SaveEdit, updateMessages
<1> HIDE DEF m
<1>4. /\ ms \in Seq(Message) /\ Len(ms) = Len(messages)
      /\ \A j \in 1 .. Len(messages) : ms[j] = IF j = i THEN m ELSE messages[j]
  BY <1>1, <1>2, ExceptSeq
<1> HIDE DEF ms
<1>5. \A j \in 1 .. Len(messages) : Goes(messages[j], ms[j])
  BY <1>2, <1>4 DEF Goes, Kin
<1>6. isGenerating' = isGenerating
  BY NetKept, RequestKept DEF SaveEdit, isGenerating, isStreaming
<1> QED
  BY <1>3, <1>4, <1>5, <1>6, StillBusy DEF InPlace, KeyInv

\* Messages are dropped while nothing is on its way, and new ones asked for.
LEMMA PickedRebuilt ==
  ASSUME KeyInv, NEW b \in Seq(Message), Picks(b, messages)
  PROVE  Rebuilt(b) /\ Keyed(b, nextKey)
<1>1. PICK f : PicksBy(f, b, messages)
  BY DEF Picks
<1> QED
  BY <1>1, PicksKeyed DEF Rebuilt, PicksBy, KeyInv

LEMMA AskedRebuilt ==
  ASSUME PageInv, KeyInv, NEW b \in Seq(Message), Picks(b, messages),
         NEW t \in Seq(Message), \A j \in 1 .. Len(t) : Fresh(t[j]),
         NEW n \in Nat, nextKey <= n, Keyed(t, n)
  PROVE  Rebuilt(b \o t) /\ Keyed(b \o t, n)
<1>1. Len(b) \in Nat /\ Len(t) \in Nat /\ nextKey \in Nat
  BY LenProperties, PlaygroundAssumption DEF PageInv, Types, PageTypes
<1>2. /\ b \o t \in Seq(Message) /\ Len(b \o t) = Len(b) + Len(t)
      /\ \A i \in 1 .. Len(b) + Len(t) :
           (b \o t)[i] = IF i <= Len(b) THEN b[i] ELSE t[i - Len(b)]
  BY ConcatProperties
<1>3. Rebuilt(b) /\ Keyed(b, nextKey)
  BY PickedRebuilt
<1>4. ASSUME NEW i \in 1 .. Len(b \o t)
      PROVE  (\E l \in 1 .. Len(messages) : (b \o t)[i] = messages[l]) \/ Fresh((b \o t)[i])
  <2>1. CASE i <= Len(b)
    <3>1. i \in 1 .. Len(b) /\ (b \o t)[i] = b[i]
      BY <1>1, <1>2, <2>1
    <3> QED
      BY <1>3, <3>1 DEF Rebuilt
  <2>2. CASE ~ i <= Len(b)
    <3>1. i - Len(b) \in 1 .. Len(t) /\ (b \o t)[i] = t[i - Len(b)]
      BY <1>1, <1>2, <2>2
    <3> QED
      BY <3>1
  <2> QED
    BY <2>1, <2>2
<1>5. Keyed(b \o t, n)
  BY <1>1, <1>3, ConcatKeyed DEF Fresh
<1> QED
  BY <1>2, <1>4, <1>5 DEF Rebuilt

LEMMA LastOfConcat ==
  ASSUME NEW b \in Seq(Message), NEW t \in Seq(Message), t # <<>>
  PROVE  Last(b \o t) = Last(t)
<1>1. Len(b) \in Nat /\ Len(t) \in Nat /\ Len(t) \in 1 .. Len(t)
  BY LenProperties, LastIsMessage
<1>2. /\ Len(b \o t) = Len(b) + Len(t)
      /\ \A i \in 1 .. Len(b) + Len(t) :
           (b \o t)[i] = IF i <= Len(b) THEN b[i] ELSE t[i - Len(b)]
  BY ConcatProperties
<1> DEFINE n == Len(b) + Len(t)
<1>3. n \in 1 .. n /\ ~ n <= Len(b) /\ n - Len(b) = Len(t)
  BY <1>1
<1>4. (b \o t)[n] = t[Len(t)]
  BY <1>2, <1>3
<1> QED
  BY <1>2, <1>4 DEF Last

\* The question and the message that waits for its answer.
LEMMA NewFresh ==
  ASSUME NEW k \in Nat, k >= nextKey
  PROVE  /\ Fresh(createUserMessage(k)) /\ Fresh(createLoadingAssistantMessage(k))
         /\ createUserMessage(k).key = k /\ createLoadingAssistantMessage(k).key = k
         /\ isAssistantMessagePending(createLoadingAssistantMessage(k))
  BY DEF Fresh, createUserMessage, createLoadingAssistantMessage,
     isAssistantMessagePending, Pending

LEMMA SendRebuilt ==
  ASSUME PageInv, KeyInv, handleSendMessage
  PROVE  Rebuilt(messages') /\ Keyed(messages', nextKey') /\ Busy'
<1> DEFINE k == nextKey + 1
           a == createUserMessage(nextKey)
           l == createLoadingAssistantMessage(k)
           t == <<a, l>>
<1>1. nextKey \in Keys /\ k \in Keys /\ nextKey \in Nat /\ k \in Nat /\ nextKey' = nextKey + 2
  BY PlaygroundAssumption DEF handleSendMessage, PageInv, Types, PageTypes, Keys
<1>2. a \in Message /\ l \in Message /\ Fresh(a) /\ Fresh(l) /\ a.key = nextKey
      /\ l.key = nextKey + 1 /\ isAssistantMessagePending(l)
  BY <1>1, NewMessages, NewFresh
<1>3. messages' = messages \o t /\ messages \in Seq(Message)
  BY MessageTypes DEF handleSendMessage, updateMessages
<1> HIDE DEF a, l
<1>4. t \in Seq(Message) /\ t # <<>> /\ Last(t) = l /\ Len(t) = 2 /\ t[1] = a /\ t[2] = l
  BY <1>2 DEF Last
<1> HIDE DEF t, k
<1>5. /\ \A j \in 1 .. Len(t) : Fresh(t[j])
      /\ Keyed(t, nextKey + 2)
  <2>1. \A j \in 1 .. Len(t) : j = 1 \/ j = 2
    BY <1>4
  <2> QED
    BY <1>1, <1>2, <1>4, <2>1 DEF Keyed
<1>6. Picks(messages, messages)
  <2>1. PicksBy([i \in 1 .. Len(messages) |-> i], messages, messages)
    BY DEF PicksBy
  <2> QED
    BY <2>1 DEF Picks
<1>7. nextKey + 2 \in Nat /\ nextKey <= nextKey + 2
  BY <1>1
<1>8. Rebuilt(messages \o t) /\ Keyed(messages \o t, nextKey + 2)
  BY <1>3, <1>4, <1>5, <1>6, <1>7, AskedRebuilt
<1>9. Last(messages \o t) = l
  BY <1>3, <1>4, LastOfConcat
<1> QED
  BY <1>1, <1>2, <1>3, <1>8, <1>9 DEF Busy, isAssistantMessagePending

LEMMA AskAgainRebuilt ==
  ASSUME PageInv, KeyInv, NEW n \in 0 .. Len(messages), nextKey <= MaxKey,
         updateMessages(SubSeq(messages, 1, n) \o <<createLoadingAssistantMessage(nextKey)>>),
         nextKey' = nextKey + 1
  PROVE  Rebuilt(messages') /\ Keyed(messages', nextKey') /\ Busy'
<1> DEFINE kept == SubSeq(messages, 1, n)
           l == createLoadingAssistantMessage(nextKey)
           t == <<l>>
<1>1. nextKey \in Keys /\ nextKey \in Nat
  BY PlaygroundAssumption DEF PageInv, Types, PageTypes, Keys
<1>2. l \in Message /\ Fresh(l) /\ l.key = nextKey /\ isAssistantMessagePending(l)
  BY <1>1, NewMessages, NewFresh
<1>3. kept \in Seq(Message) /\ Picks(kept, messages)
  <2>1. messages \in Seq(Message) /\ Len(messages) \in Nat
    BY MessageTypes
  <2>2. 1 \in Nat \ {0} /\ n \in Int /\ n <= Len(messages)
    BY <2>1
  <2> QED
    BY <2>1, <2>2, SubText, PrefixPicks
<1>4. messages' = kept \o t
  BY DEF updateMessages
<1> HIDE DEF l, kept
<1>5. t \in Seq(Message) /\ t # <<>> /\ Last(t) = l /\ Len(t) = 1 /\ t[1] = l
  BY <1>2 DEF Last
<1> HIDE DEF t
<1>6. (\A j \in 1 .. Len(t) : Fresh(t[j])) /\ Keyed(t, nextKey + 1)
  <2>1. \A j \in 1 .. Len(t) : j = 1
    BY <1>5
  <2> QED
    BY <1>1, <1>2, <1>5, <2>1 DEF Keyed
<1>7. nextKey + 1 \in Nat /\ nextKey <= nextKey + 1
  BY <1>1
<1>8. Rebuilt(kept \o t) /\ Keyed(kept \o t, nextKey + 1)
  BY <1>3, <1>5, <1>6, <1>7, AskedRebuilt
<1>9. Last(kept \o t) = l
  BY <1>3, <1>5, LastOfConcat
<1> QED
  BY <1>2, <1>4, <1>8, <1>9 DEF Busy, isAssistantMessagePending

\* The steps by which the user changes the list of messages.
Rebuilds ==
    \/ handleSendMessage \/ handleClearMessages
    \/ \E i \in DOMAIN messages :
         handleRegenerateMessage(i) \/ SaveEditAndSubmit(i) \/ handleDeleteMessage(i)

LEMMA RebuildsRebuilt ==
  ASSUME PageInv, KeyInv, Rebuilds
  PROVE  Rebuilt(messages') /\ Keyed(messages', nextKey') /\ Busy'
<1>1. ASSUME NEW i \in DOMAIN messages, handleRegenerateMessage(i)
      PROVE  Rebuilt(messages') /\ Keyed(messages', nextKey') /\ Busy'
  <2> DEFINE n == IF messages[i].from = "user" THEN i ELSE i - 1
  <2>1. n \in 0 .. Len(messages)
    BY MessageTypes
  <2>2. /\ updateMessages(SubSeq(messages, 1, n) \o <<createLoadingAssistantMessage(nextKey)>>)
        /\ nextKey <= MaxKey /\ nextKey' = nextKey + 1
    BY <1>1 DEF handleRegenerateMessage, createRegeneratedMessages
  <2> HIDE DEF n
  <2> QED
    BY <2>1, <2>2, AskAgainRebuilt
<1>2. ASSUME NEW i \in DOMAIN messages, SaveEditAndSubmit(i)
      PROVE  Rebuilt(messages') /\ Keyed(messages', nextKey') /\ Busy'
  <2>1. i \in 0 .. Len(messages)
    BY MessageTypes
  <2>2. /\ updateMessages(SubSeq(messages, 1, i) \o <<createLoadingAssistantMessage(nextKey)>>)
        /\ nextKey <= MaxKey /\ nextKey' = nextKey + 1
    BY <1>2 DEF SaveEditAndSubmit
  <2> QED
    BY <2>1, <2>2, AskAgainRebuilt
<1>3. ASSUME NEW i \in DOMAIN messages, handleDeleteMessage(i)
      PROVE  Rebuilt(messages') /\ Keyed(messages', nextKey') /\ Busy'
  <2>1. i \in 1 .. Len(messages) /\ messages \in Seq(Message)
    BY MessageTypes
  <2>2. messages' = RemoveAt(messages, i) /\ nextKey' = nextKey /\ ~ isGenerating'
    BY <1>3, NetKept, RequestKept DEF handleDeleteMessage, updateMessages, isGenerating,
       isStreaming
  <2> QED
    BY <2>1, <2>2, RemovedPicks, PickedRebuilt DEF Busy
<1>4. CASE handleClearMessages
  <2>1. messages' = <<>> /\ nextKey' = nextKey /\ ~ isGenerating'
    BY <1>4, NetKept, RequestKept DEF handleClearMessages, updateMessages, isGenerating,
       isStreaming
  <2> QED
    BY <2>1, EmptySeq DEF Rebuilt, Keyed, Busy
<1> QED
  BY <1>1, <1>2, <1>3, <1>4, SendRebuilt DEF Rebuilds

\* Every step leaves the messages in place, rebuilds the list, or opens the
\* page.
SamePage == loaded' = loaded /\ visits' = visits
InPlaceStep == SamePage /\ nextKey' = nextKey /\ InPlace(messages') /\ Busy'
RebuildStep == SamePage /\ nextKey' \in Nat /\ nextKey <= nextKey' /\ Rebuilt(messages')
               /\ Keyed(messages', nextKey') /\ Busy'
OpenStep == leavePage \/ reloadPage \/ loadOnMount

LEMMA StepShape ==
  ASSUME ~ crossed', PageInv, LateInv, OwnInv, KeyInv, [Next]_vars
  PROVE  InPlaceStep \/ RebuildStep \/ OpenStep
<1>1. PageInv'
  BY PageStep
<1>2. CASE messages' = messages /\ nextKey' = nextKey /\ SamePage
           /\ (isGenerating' => isGenerating)
  BY <1>2, SameInPlace, MessageTypes, StillBusy DEF InPlaceStep, KeyInv, Goes, Kin
<1>3. CASE Brings
  <2>1. SamePage /\ nextKey' = nextKey
    BY <1>3 DEF Brings, flushTimerFires, StreamEnds, handleStreamComplete,
       handleStreamError, closedWithoutDone, stopGeneration, CallEnds, callAborted,
       callFailed, callAnswered, answerFrame, SamePage, past
  <2> QED
    BY <1>1, <1>3, <2>1, BringsInPlace DEF InPlaceStep
<1>4. CASE Rebuilds
  <2>1. nextKey \in Nat
    BY PlaygroundAssumption DEF PageInv, Types, PageTypes
  <2>2. SamePage /\ nextKey' \in {nextKey, nextKey + 1, nextKey + 2}
    BY <1>4 DEF Rebuilds, handleSendMessage, handleClearMessages, handleRegenerateMessage,
       SaveEditAndSubmit, handleDeleteMessage, SamePage, past
  <2> QED
    BY <1>4, <2>1, <2>2, RebuildsRebuilt DEF RebuildStep
<1>5. ASSUME NEW i \in DOMAIN messages, SaveEdit(i) PROVE InPlaceStep
  BY <1>5, EditInPlace DEF InPlaceStep, SaveEdit, SamePage, past
<1>6. CASE TypeInEditor \/ CancelEdit \/ saveTimerFires
  BY <1>2, <1>6, NetKept, RequestKept DEF TypeInEditor, CancelEdit, saveTimerFires,
     SamePage, isGenerating, isStreaming, past
<1>7. ASSUME NEW i \in DOMAIN messages, handleEditMessage(i)
      PROVE  InPlaceStep \/ RebuildStep \/ OpenStep
  BY <1>2, <1>7, NetKept, RequestKept DEF handleEditMessage, SamePage, isGenerating,
     isStreaming, past
<1>8. ASSUME NEW n \in ChunkSizes, handleStreamUpdate(n)
      PROVE  InPlaceStep \/ RebuildStep \/ OpenStep
  BY <1>2, <1>8, RequestKept DEF handleStreamUpdate, answerFrame, SamePage, isGenerating,
     isStreaming, past
<1>9. CASE UNCHANGED vars
  BY <1>2, <1>9, NetKept, RequestKept DEF vars, SamePage, isGenerating, isStreaming, past
<1>10. CASE User
  BY <1>3, <1>4, <1>5, <1>6, <1>7, <1>10 DEF User, Rebuilds, Brings
<1>11. CASE (\E ms \in late : leftPageSaves(ms)) \/ (\E k \in left : leftExchangeEnds(k))
  BY <1>2, <1>11, NetKept, RequestKept DEF leftPageSaves, leftExchangeEnds, SamePage,
     isGenerating, isStreaming
<1> QED
  BY <1>3, <1>6, <1>8, <1>9, <1>10, <1>11 DEF Next, Brings, OpenStep

LEMMA KeyStep ==
  ASSUME ~ crossed', PageInv, LateInv, OwnInv, KeyInv, LateKeyed, [Next]_vars
  PROVE  KeyInv' /\ LateKeyed'
<1>1. nextKey \in Nat /\ Keyed(messages, nextKey) /\ Keyed(saved, nextKey)
      /\ saved \in Seq(Message) /\ OnlyLastPending(saved) /\ messages \in Seq(Message)
  BY MessageTypes, PlaygroundAssumption DEF PageInv, Types, PageTypes, StoreTypes,
     Waiting, KeyInv
<1>2. PageInv' /\ messages' \in Seq(Message)
  BY PageStep DEF PageInv, Types, PageTypes
<1>3. /\ nextKey' \in Nat /\ nextKey <= nextKey'
      /\ Keyed(messages', nextKey') /\ Busy'
  <2>1. CASE InPlaceStep
    BY <1>1, <2>1, InPlaceKeyed DEF InPlaceStep
  <2>2. CASE RebuildStep
    BY <2>2 DEF RebuildStep
  <2>3. CASE leavePage \/ reloadPage
    <3>1. messages' = <<>> /\ nextKey' = nextKey /\ ~ isGenerating'
      BY <2>3 DEF leavePage, reloadPage, Mounted, isGenerating, isStreaming
    <3> QED
      BY <1>1, <3>1 DEF Keyed, Busy
  <2>4. CASE loadOnMount
    <3>1. messages' = loadMessages(saved) /\ nextKey' = nextKey /\ ~ loaded
          /\ isGenerating' = isGenerating
      BY <2>4, NetKept, RequestKept DEF loadOnMount, isGenerating, isStreaming
    <3>2. ~ isGenerating'
      BY <3>1 DEF PageInv, Shown
    <3> QED
      BY <1>1, <3>1, <3>2, LoadedKeyed DEF Busy
  <2> QED
    BY <2>1, <2>2, <2>3, <2>4, StepShape DEF OpenStep
<1>4. \A t \in {saved, <<>>, trimMessages(messages), trimMessages(messages')}
                  \cup {trimMessages(ms) : ms \in late} : Keyed(t, nextKey')
  <2>1. Keyed(saved, nextKey') /\ Keyed(messages, nextKey')
    BY <1>1, <1>3, KeyedMore
  <2>2. Keyed(trimMessages(messages), nextKey') /\ Keyed(trimMessages(messages'), nextKey')
    BY <1>1, <1>2, <1>3, <2>1, TrimmedIsTail, TailPicks, PicksKeyed
  <2>3. \A ms \in late : Keyed(trimMessages(ms), nextKey')
    <3>1. \A ms \in late : ms \in Seq(Message) /\ Keyed(ms, nextKey')
      BY <1>1, <1>3, KeyedMore DEF LateInv, LateKeyed
    <3> QED
      BY <3>1, TrimmedIsTail, TailPicks, PicksKeyed
  <2> QED
    BY <2>1, <2>2, <2>3 DEF Keyed
<1>5. \A ms \in late' : Keyed(ms, nextKey')
  <2>1. \A ms \in late : ms \in Seq(Message) /\ Keyed(ms, nextKey')
    BY <1>1, <1>3, KeyedMore DEF LateInv, LateKeyed
  <2>2. Keyed(messages, nextKey')
    BY <1>1, <1>3, KeyedMore
  <2>3. ASSUME NEW k \in Runs, NEW text \in LateTexts(k)
        PROVE  Keyed(LateMessages(text), nextKey')
    <3>1. /\ Len(LateMessages(text)) = Len(messages)
          /\ \A j \in 1 .. Len(messages) : LateMessages(text)[j].key = messages[j].key
      BY LateTextOf, LateMessagesOf
    <3> QED
      BY <2>2, <3>1 DEF Keyed
  <2> QED
    BY <2>1, <2>3, LeftBehind
<1>6. KeyInv'
  BY <1>3, <1>4, StoredFrom DEF KeyInv, Keyed
<1> QED
  BY <1>5, <1>6 DEF LateKeyed, Keyed

\* The keys of the messages shown and stored stay different.
LEMMA KeyInvariance == Spec => [](crossed \/ (KeyInv /\ LateKeyed))
<1>1. Init => KeyInv /\ LateKeyed
  BY DEF Init, KeyInv, LateKeyed, Keyed, Busy, isGenerating, isStreaming
<1>2. ASSUME crossed \/ (PageInv /\ LateInv), crossed \/ (OwnInv /\ LateOwn),
             crossed \/ (KeyInv /\ LateKeyed), [Next]_vars
      PROVE  crossed' \/ (KeyInv /\ LateKeyed)'
  BY <1>2, CrossedStays, KeyStep
<1> QED
  BY <1>1, <1>2, PageInvariance, OwnInvariance, PTL DEF Spec

-----------------------------------------------------------------------------
(* Each answer follows Exchange.                                           *)

View(m) == [phase |-> PhaseOf(m), text |-> m.text]

LEMMA AnswerAt ==
  ASSUME NEW ms, NEW n, Keyed(ms, n), NEW i \in 1 .. Len(ms), ms[i].from = "assistant"
  PROVE  AnswerIn(ms, ms[i].key) = View(ms[i])
<1> DEFINE found == {j \in 1 .. Len(ms) : ms[j].key = ms[i].key /\ ms[j].from = "assistant"}
           at == CHOOSE j \in found : TRUE
<1>1. i \in found /\ \A j \in found : j = i
  BY DEF Keyed
<1>2. at = i
  BY <1>1
<1> QED
  BY <1>1, <1>2 DEF AnswerIn, View

LEMMA AnswerAbsent ==
  ASSUME NEW ms, NEW k, \A i \in 1 .. Len(ms) : ms[i].from = "assistant" => ms[i].key # k
  PROVE  AnswerIn(ms, k) = Absent
<1>1. {i \in 1 .. Len(ms) : ms[i].key = k /\ ms[i].from = "assistant"} = {}
  OBVIOUS
<1> QED
  BY <1>1 DEF AnswerIn

\* The answer of key k when the conversation becomes ms.
Changes(k, ms) ==
    \/ AnswerIn(ms, k) = AnswerIn(messages, k)
    \/ Answer(k)!Change(AnswerIn(messages, k), AnswerIn(ms, k))

LEMMA Dropped == ASSUME NEW ms, NEW k, AnswerIn(ms, k) = Absent PROVE Changes(k, ms)
  BY DEF Changes, Answer!Change, Answer!Drop, Absent

LEMMA InPlaceChanges ==
  ASSUME PageInv, KeyInv, NEW b, InPlace(b), NEW k \in Keys
  PROVE  Changes(k, b)
<1>1. /\ b \in Seq(Message) /\ Len(b) = Len(messages)
      /\ \A j \in 1 .. Len(messages) :
           /\ Kin(messages[j], b[j])
           /\ \/ b[j] = messages[j] \/ Grown(messages[j], b[j]) \/ Edited(messages[j], b[j])
              \/ Ended(messages[j], b[j])
  BY DEF InPlace, Goes
<1>2. Keyed(messages, nextKey) /\ Keyed(b, nextKey)
  BY InPlaceKeyed DEF KeyInv
<1>3. CASE \A i \in 1 .. Len(messages) : messages[i].from = "assistant" => messages[i].key # k
  <2>1. \A i \in 1 .. Len(b) : b[i].from = "assistant" => b[i].key # k
    BY <1>1, <1>3 DEF Kin
  <2> QED
    BY <2>1, AnswerAbsent, Dropped
<1>4. ASSUME NEW i \in 1 .. Len(messages), messages[i].from = "assistant", messages[i].key = k
      PROVE  Changes(k, b)
  <2> DEFINE m == messages[i]
             c == b[i]
  <2>1. Kin(m, c) /\ (c = m \/ Grown(m, c) \/ Edited(m, c) \/ Ended(m, c))
    BY <1>1, <1>4
  <2>2. AnswerIn(messages, k) = View(m)
    BY <1>2, <1>4, AnswerAt
  <2>3. AnswerIn(b, k) = View(c)
    BY <1>1, <1>2, <1>4, <2>1, AnswerAt DEF Kin
  <2>4. c.key = k /\ c.from = "assistant" /\ m.key = k
    BY <1>4, <2>1 DEF Kin
  <2> HIDE DEF m, c
  <2>5. CASE c = m
    BY <2>2, <2>3, <2>5 DEF Changes
  <2>6. CASE Grown(m, c)
    <3>1. View(m).phase \in Answer(k)!OnItsWay /\ View(c).phase = "growing"
          /\ View(m).text = m.text /\ View(c).text = c.text
      BY <2>6 DEF Grown, View, PhaseOf, isAssistantMessagePending, Pending,
         Answer!OnItsWay
    <3>2. Answer(k)!Grow(View(m), View(c))
      BY <2>4, <2>6, <3>1 DEF Grown, Answer!Grow
    <3> QED
      BY <2>2, <2>3, <3>2 DEF Changes, Answer!Change
  <2>7. CASE Edited(m, c)
    <3>1. View(m).phase # "absent" /\ View(c).phase = View(m).phase /\ View(c).text = <<Notice>>
      BY <2>7 DEF Edited, View, PhaseOf
    <3>2. Answer(k)!Amend(View(m), View(c))
      BY <3>1 DEF Answer!Amend
    <3> QED
      BY <2>2, <2>3, <3>2 DEF Changes, Answer!Change
  <2>8. CASE Ended(m, c)
    <3>1. View(m).phase \in Answer(k)!OnItsWay /\ View(c).phase = "ended" /\ View(c).text = c.text
      BY <2>8 DEF Ended, View, PhaseOf, isAssistantMessagePending, Pending,
         Answer!OnItsWay
    <3>2. Answer(k)!End(View(m), View(c))
      BY <2>4, <2>8, <3>1 DEF Ended, OwnText, Answer!End
    <3> QED
      BY <2>2, <2>3, <3>2 DEF Changes, Answer!Change
  <2> QED
    BY <2>1, <2>5, <2>6, <2>7, <2>8
<1> QED
  BY <1>3, <1>4

LEMMA RebuiltChanges ==
  ASSUME PageInv, KeyInv, NEW b, Rebuilt(b), NEW n, Keyed(b, n), NEW k \in Keys
  PROVE  Changes(k, b)
<1>1. Keyed(messages, nextKey)
  BY DEF KeyInv
<1>2. CASE \A i \in 1 .. Len(b) : b[i].from = "assistant" => b[i].key # k
  BY <1>2, AnswerAbsent, Dropped
<1>3. ASSUME NEW i \in 1 .. Len(b), b[i].from = "assistant", b[i].key = k PROVE Changes(k, b)
  <2>1. AnswerIn(b, k) = View(b[i])
    BY <1>3, AnswerAt
  <2>2. ASSUME NEW j \in 1 .. Len(messages), b[i] = messages[j] PROVE Changes(k, b)
    <3>1. AnswerIn(messages, k) = View(b[i])
      BY <1>1, <1>3, <2>2, AnswerAt
    <3> QED
      BY <2>1, <3>1 DEF Changes
  <2>3. CASE Fresh(b[i])
    <3>1. \A j \in 1 .. Len(messages) : messages[j].key # k
      <4>1. nextKey \in Nat /\ k \in Nat /\ k >= nextKey
        BY <1>3, <2>3, NotKeys, PlaygroundAssumption DEF Fresh, PageInv, Types, PageTypes
      <4> QED
        BY <1>1, <4>1 DEF Keyed
    <3>2. AnswerIn(messages, k) = Absent
      BY <3>1, AnswerAbsent
    <3>3. View(b[i]).phase = "asked" /\ View(b[i]).text = <<>> /\ Absent.phase = "absent"
      BY <1>3, <2>3 DEF Fresh, View, PhaseOf, Absent
    <3>4. Answer(k)!Ask(Absent, View(b[i]))
      BY <3>3 DEF Answer!Ask
    <3> QED
      BY <2>1, <3>2, <3>4 DEF Changes, Answer!Change
  <2> QED
    BY <2>2, <2>3 DEF Rebuilt
<1> QED
  BY <1>2, <1>3

\* The page is opened: what it shows has ended.
LEMMA OpenedEnded ==
  ASSUME NEW ms, NonePending(ms), NEW k
  PROVE  AnswerIn(ms, k).phase \in {"absent", "ended"}
<1> DEFINE found == {i \in 1 .. Len(ms) : ms[i].key = k /\ ms[i].from = "assistant"}
           at == CHOOSE i \in found : TRUE
<1>1. CASE found = {}
  BY <1>1 DEF AnswerIn, Absent
<1>2. CASE found # {}
  <2>1. at \in found
    BY <1>2
  <2>2. PhaseOf(ms[at]) = "ended"
    BY <2>1 DEF NonePending, isAssistantMessagePending, Pending, PhaseOf
  <2>3. AnswerIn(ms, k) = [phase |-> PhaseOf(ms[at]), text |-> ms[at].text]
    BY <1>2 DEF AnswerIn
  <2> HIDE DEF at
  <2> QED
    BY <2>2, <2>3
<1> QED
  BY <1>1, <1>2

LEMMA AnswerNextInPage ==
  ASSUME NEW k \in Keys, SamePage, Changes(k, messages')
  PROVE  Answer(k)!Next \/ Answer(k)!Same
<1>1. AnswerIn(messages, k)' = AnswerIn(messages', k)
  BY DEF AnswerIn, PhaseOf, Absent
<1>2. (2 * visits + (IF loaded THEN 1 ELSE 0))' = 2 * visits + (IF loaded THEN 1 ELSE 0)
  BY DEF SamePage
<1> QED
  BY <1>1, <1>2 DEF Changes, Answer!Next, Answer!Step, Answer!Same

LEMMA AnswerNextOpened ==
  ASSUME PageInv, NEW k \in Keys, OpenStep
  PROVE  Answer(k)!Next
<1> DEFINE session == 2 * visits + (IF loaded THEN 1 ELSE 0)
<1>1. AnswerIn(messages, k)' = AnswerIn(messages', k)
  BY DEF AnswerIn, PhaseOf, Absent
<1>2. visits \in Nat
  BY PlaygroundAssumption DEF PageInv, Types, PageTypes
<1>3. CASE leavePage \/ reloadPage
  <2>1. loaded /\ loaded' = FALSE /\ visits' = visits + 1 /\ messages' = <<>>
    BY <1>3 DEF leavePage, reloadPage, Mounted
  <2>2. session' = session + 1
    BY <1>2, <2>1
  <2>3. NonePending(messages')
    BY <2>1 DEF NonePending
  <2> QED
    BY <1>1, <2>2, <2>3, OpenedEnded DEF Answer!Next, Answer!Restart, Answer!OnItsWay
<1>4. CASE loadOnMount
  <2>1. ~ loaded /\ loaded' = TRUE /\ visits' = visits /\ messages' = loadMessages(saved)
    BY <1>4 DEF loadOnMount, past
  <2>2. session' = session + 1
    BY <1>2, <2>1
  <2>3. NonePending(messages')
    BY <2>1, LoadedMessages DEF PageInv, Types, StoreTypes, Waiting
  <2> QED
    BY <1>1, <2>2, <2>3, OpenedEnded DEF Answer!Next, Answer!Restart, Answer!OnItsWay
<1> QED
  BY <1>3, <1>4 DEF OpenStep

\* The page implements Exchange for every answer: it is asked for, grows by
\* pieces of its own, ends once, and changes after that only by the user's
\* hand; a page that is opened shows no answer that is still on its way.
THEOREM PlaygroundAnswersFollowExchange == Spec => AnswersFollowExchange
<1>1. ASSUME Init PROVE \A k \in Keys : Answer(k)!Init
  <2> SUFFICES ASSUME NEW k \in Keys PROVE Answer(k)!Init
    OBVIOUS
  <2>1. messages = <<>> /\ loaded = FALSE /\ visits = 0
    BY <1>1 DEF Init
  <2>2. AnswerIn(messages, k) = Absent
    BY <2>1, AnswerAbsent
  <2> QED
    BY <2>1, <2>2 DEF Answer!Init, Absent
<1>2. ASSUME crossed \/ (PageInv /\ LateInv), crossed \/ (OwnInv /\ LateOwn),
             crossed \/ (KeyInv /\ LateKeyed), [Next]_vars
      PROVE  [crossed' \/ \A k \in Keys : Answer(k)!Next \/ Answer(k)!Same]_vars
  <2> SUFFICES ASSUME ~ crossed', NEW k \in Keys PROVE Answer(k)!Next \/ Answer(k)!Same
    OBVIOUS
  <2>0. PageInv /\ LateInv /\ OwnInv /\ KeyInv
    BY <1>2, CrossedStays
  <2>1. CASE InPlaceStep
    BY <2>0, <2>1, InPlaceChanges, AnswerNextInPage DEF InPlaceStep
  <2>2. CASE RebuildStep
    BY <2>0, <2>2, RebuiltChanges, AnswerNextInPage DEF RebuildStep
  <2>3. CASE OpenStep
    BY <2>0, <2>3, AnswerNextOpened
  <2> QED
    BY <1>2, <2>0, <2>1, <2>2, <2>3, StepShape
<1> QED
  BY <1>1, <1>2, PageInvariance, OwnInvariance, KeyInvariance, PTL
  DEF Spec, AnswersFollowExchange

===============================================================================
