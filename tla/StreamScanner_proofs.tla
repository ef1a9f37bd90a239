------------------------- MODULE StreamScanner_proofs -------------------------
(***************************************************************************)
(* Proofs about StreamScanner, for any buffer sizes and any number of      *)
(* lines and pings.                                                        *)
(***************************************************************************)
EXTENDS StreamScanner, TLAPS

-----------------------------------------------------------------------------
(* The inductive invariant, by concern.                                    *)

Bit(b) == IF b THEN 1 ELSE 0

Reading == {"scan", "check", "send"}
HandOut == {"signal", "exited"}

\* The types, apart from the bounds on the two counters of chunks, which need
\* the account below.
Kinds ==
    /\ main \in {"wait", "signal", "join", "close", "returned"}
    /\ scan \in Reading \cup {"close", "panicked", "signal", "exited"}
    /\ line \in {"none", "data", "done", "other"}
    /\ hand \in {"range", "lock", "handle"} \cup HandOut
    /\ ping \in {"off", "select", "sending", "signal", "exited", "recovered"}
    /\ pinger \in {"none", "lock", "write", "ok", "failed"}
    /\ writeMutex \in {"free", "hand", "pinger"}
    /\ wg \subseteq {"scan", "hand", "ping"}
    /\ endReason \in Reasons
    /\ quit \in {"no", "stop", "panic"}
Switches ==
    /\ stopClosed \in BOOLEAN /\ dataClosed \in BOOLEAN /\ ctxDone \in BOOLEAN
    /\ clientGone \in BOOLEAN /\ bodyClosed \in BOOLEAN /\ overran \in BOOLEAN
Counts ==
    /\ stopChan \in 0 .. StopCap /\ dataChan \in 0 .. DataCap
    /\ lines \in 0 .. MaxLines /\ pings \in 0 .. MaxPings
    /\ received \in Nat /\ handled \in Nat

\* Which of the objects the clean-up has closed, and who has closed dataChan.
Closing ==
    /\ stopClosed => main = "returned"
    /\ ctxDone => main # "wait"
    /\ dataClosed => scan \in {"panicked", "signal", "exited"}
    /\ "hand" \in wg <=> hand \notin HandOut
    /\ hand \in HandOut /\ quit = "no" => dataClosed /\ dataChan = 0
    /\ main \in {"close", "returned"} /\ ~ overran => hand \in HandOut

\* Nobody has left the stream, or woken the caller, before there is a reason.
Reasoned ==
    endReason = NoReason /\ scan # "panicked" =>
        /\ main = "wait" /\ scan \in Reading /\ hand \notin HandOut /\ stopChan = 0
        /\ ping \notin {"signal", "recovered"}

\* While the caller waits: the signals in stopChan are those of the goroutines
\* that have gone, less the one the ping goroutine took, and the one the
\* scanner took, which only a data handler that quit, or a ping goroutine that
\* panicked, can have sent.
Signals ==
    main = "wait" =>
        /\ scan # "exited" /\ hand # "exited" => stopChan <= Bit(ping = "recovered")
        /\ Bit(scan = "exited") + Bit(hand = "exited")
             <= stopChan + Bit(ping = "exited") + Bit(quit # "no")
        /\ scan = "exited" /\ hand # "exited" => stopChan + Bit(ping = "exited") >= 1

\* Where the chunks that were counted as received are; a chunk is lost only by
\* a scanner that leaves its loop while sending it.
InTransit == handled + dataChan + Bit(hand = "lock") + Bit(scan = "send")
Account ==
    /\ received + Bit(scan = "check") <= lines
    /\ InTransit <= received
    /\ scan \in Reading => InTransit = received
    /\ endReason \in {"done", "eof"} /\ quit = "no" =>
         scan \in {"close", "signal", "exited"} /\ InTransit = received

\* Each goroutine and the caller signal once.
OneSignal ==
    stopChan <= Bit(scan = "exited") + Bit(hand = "exited") + Bit(main \notin {"wait", "signal"})
                  + Bit(ping = "recovered")

StreamInv == Kinds /\ Switches /\ Counts /\ Closing /\ Reasoned /\ Signals /\ OneSignal /\ Account

\* The reasons a goroutine gives are none of them StreamEndReasonNone.
LEMMA ReasonNames ==
  {"done", "timeout", "client_gone", "scanner_error", "handler_stop", "eof", "panic",
   "ping_fail"} \subseteq Reasons \ {NoReason}
<1>1. NoReason \notin {"done", "timeout", "client_gone", "scanner_error", "handler_stop", "eof",
                       "panic", "ping_fail"}
  BY Zenon DEF NoReason
<1> QED
  BY <1>1 DEF Reasons

LEMMA InitStreamInv == Init => StreamInv
<1> SUFFICES ASSUME Init PROVE StreamInv
  OBVIOUS
<1>1. Kinds /\ Switches
  BY DEF Init, Kinds, Switches, Reading, HandOut, Reasons
<1>2. Counts
  BY StreamAssumption DEF Init, Counts
<1>3. Closing /\ Reasoned
  BY DEF Init, Closing, Reasoned, Reading, HandOut
<1>4. Signals /\ OneSignal /\ Account
  BY ReasonNames DEF Init, Signals, OneSignal, Account, InTransit, Bit, Reading
<1> QED
  BY <1>1, <1>2, <1>3, <1>4 DEF StreamInv

-----------------------------------------------------------------------------
(* What the steps of each goroutine leave alone, and the shared objects.   *)

LEMMA ScanKeeps ==
  ScanFrame => /\ main' = main /\ overran' = overran /\ bodyClosed' = bodyClosed
               /\ stopClosed' = stopClosed /\ ctxDone' = ctxDone /\ clientGone' = clientGone
               /\ hand' = hand /\ quit' = quit /\ handled' = handled
               /\ ping' = ping /\ pinger' = pinger /\ pings' = pings
               /\ writeMutex' = writeMutex
  BY DEF ScanFrame, mainVars, handVars, pingVars

LEMMA HandKeeps ==
  HandFrame => /\ main' = main /\ overran' = overran /\ bodyClosed' = bodyClosed
               /\ stopClosed' = stopClosed /\ ctxDone' = ctxDone /\ clientGone' = clientGone
               /\ scan' = scan /\ line' = line /\ received' = received /\ lines' = lines
               /\ dataClosed' = dataClosed
               /\ ping' = ping /\ pinger' = pinger /\ pings' = pings
  BY DEF HandFrame, mainVars, scanVars, pingVars

LEMMA PingKeeps ==
  PingFrame => /\ main' = main /\ overran' = overran /\ bodyClosed' = bodyClosed
               /\ stopClosed' = stopClosed /\ ctxDone' = ctxDone /\ clientGone' = clientGone
               /\ scan' = scan /\ line' = line /\ received' = received /\ lines' = lines
               /\ dataClosed' = dataClosed /\ dataChan' = dataChan
               /\ hand' = hand /\ quit' = quit /\ handled' = handled
  BY DEF PingFrame, mainVars, scanVars, handVars

LEMMA MainKeeps ==
  MainFrame => /\ scan' = scan /\ line' = line /\ received' = received /\ lines' = lines
               /\ dataClosed' = dataClosed /\ dataChan' = dataChan
               /\ hand' = hand /\ quit' = quit /\ handled' = handled
               /\ ping' = ping /\ pinger' = pinger /\ pings' = pings
               /\ writeMutex' = writeMutex /\ wg' = wg /\ clientGone' = clientGone
  BY DEF MainFrame, scanVars, handVars, pingVars

\* A step that changes nothing but clientGone keeps everything.
LEMMA QuietStep ==
  ASSUME StreamInv, clientLeaves \/ UNCHANGED vars
  PROVE  StreamInv'
<1>1. /\ main' = main /\ overran' = overran /\ bodyClosed' = bodyClosed
      /\ stopClosed' = stopClosed /\ ctxDone' = ctxDone /\ stopChan' = stopChan
      /\ dataChan' = dataChan /\ wg' = wg /\ endReason' = endReason
      /\ writeMutex' = writeMutex
  BY DEF clientLeaves, vars, mainVars
<1>2. /\ scan' = scan /\ line' = line /\ received' = received /\ lines' = lines
      /\ dataClosed' = dataClosed /\ hand' = hand /\ quit' = quit /\ handled' = handled
      /\ ping' = ping /\ pinger' = pinger /\ pings' = pings
  BY DEF clientLeaves, vars, scanVars, handVars, pingVars
<1>3. clientGone' = clientGone \/ clientGone' = TRUE
  BY DEF clientLeaves, vars
<1>4. Kinds' /\ Counts' /\ Closing' /\ Reasoned'
  BY <1>1, <1>2 DEF StreamInv, Kinds, Counts, Closing, Reasoned
<1>5. Signals' /\ OneSignal' /\ Account'
  BY <1>1, <1>2 DEF StreamInv, Signals, OneSignal, Account, InTransit
<1>6. Switches'
  BY <1>1, <1>2, <1>3 DEF StreamInv, Switches
<1> QED
  BY <1>4, <1>5, <1>6 DEF StreamInv

\* sync.Once: from then on there is a reason, and the first one stays.
LEMMA ReasonSet ==
  ASSUME Kinds, NEW reason \in Reasons \ {NoReason}, SetEndReason(reason)
  PROVE  /\ endReason' \in Reasons /\ endReason' # NoReason
         /\ endReason' = reason \/ (endReason' = endReason /\ endReason # NoReason)
  BY DEF Kinds, SetEndReason

\* Whoever finds a reason to stop in the channels finds the reason set.
LEMMA StopMeansReason ==
  ASSUME StreamInv, stopChan > 0 \/ stopClosed \/ ctxDone
  PROVE  endReason # NoReason \/ scan = "panicked"
  BY DEF StreamInv, Closing, Reasoned

LEMMA Received ==
  ASSUME Counts, ReceiveStop
  PROVE  stopChan' \in 0 .. StopCap /\ stopChan' <= stopChan /\ stopChan' >= stopChan - 1
  BY StreamAssumption DEF Counts, ReceiveStop

LEMMA Sent ==
  ASSUME Counts, SafeSendBool
  PROVE  /\ stopChan' \in 0 .. StopCap
         /\ stopChan' = stopChan \/ stopChan' = stopChan + 1
         /\ ~ stopClosed => stopChan' = stopChan + 1
<1>1. CASE stopClosed
  BY <1>1 DEF Counts, SafeSendBool
<1>2. CASE ~ stopClosed
  BY <1>2, StreamAssumption DEF Counts, SafeSendBool
<1> QED
  BY <1>1, <1>2
-----------------------------------------------------------------------------
(* The scanner: each step keeps each part of the invariant it can disturb. *)

LEMMA ScanLineStep ==
  ASSUME StreamInv, ScanLine, ScanFrame
  PROVE  StreamInv'
<1>1. Kinds' /\ Switches'
  BY ScanKeeps DEF StreamInv, Kinds, Switches, Reading, ScanLine
<1>2. Counts'
  BY ScanKeeps, StreamAssumption DEF StreamInv, Counts, ScanLine
<1>3. Closing'
  BY ScanKeeps DEF StreamInv, Closing, ScanLine
<1>4. Reasoned'
  BY ScanKeeps DEF StreamInv, Reasoned, Reading, ScanLine
<1>5. Signals' /\ OneSignal'
  BY ScanKeeps DEF StreamInv, Signals, OneSignal, ScanLine
<1>6. Account'
  BY ScanKeeps DEF StreamInv, Kinds, Counts, Account, InTransit, Bit, ScanLine
<1> QED
  BY <1>1, <1>2, <1>3, <1>4, <1>5, <1>6 DEF StreamInv

LEMMA ScanStoppedStep ==
  ASSUME StreamInv, ScanStopped, ScanFrame
  PROVE  StreamInv'
<1>1. Kinds' /\ Switches'
  BY ScanKeeps, ReasonNames, ReasonSet DEF StreamInv, Kinds, Switches, ScanStopped
<1>2. Counts'
  BY ScanKeeps, Received DEF StreamInv, Counts, ScanStopped
<1>3. Closing'
  BY ScanKeeps DEF StreamInv, Closing, ScanStopped
<1>4. Reasoned'
  <2>1. CASE ReceiveStop \/ ctxDone
    <3>1. endReason # NoReason
      BY <2>1, StopMeansReason DEF ReceiveStop, ScanStopped
    <3>2. endReason' # NoReason
      BY <3>1 DEF ScanStopped, SetEndReason
    <3> QED
      BY <3>2 DEF Reasoned
  <2>2. CASE clientGone /\ SetEndReason("client_gone")
    BY <2>2, ReasonNames, ReasonSet DEF StreamInv, Reasoned
  <2> QED
    BY <2>1, <2>2 DEF ScanStopped
<1>5. Signals' /\ OneSignal'
  BY ScanKeeps, Received DEF StreamInv, Kinds, Counts, Closing, Signals, OneSignal, Bit,
     ScanStopped
<1>6. Account'
  BY ScanKeeps DEF StreamInv, Counts, Account, InTransit, Bit, Reading, ScanStopped
<1> QED
  BY <1>1, <1>2, <1>3, <1>4, <1>5, <1>6 DEF StreamInv

LEMMA ScanTakesStep ==
  ASSUME StreamInv, ScanTakes, ScanFrame
  PROVE  StreamInv'
<1>1. Kinds' /\ Switches'
  BY ScanKeeps, ReasonNames, ReasonSet DEF StreamInv, Kinds, Switches, Reading, ScanTakes
<1>2. Counts'
  BY ScanKeeps DEF StreamInv, Counts, ScanTakes
<1>3. Closing'
  BY ScanKeeps DEF StreamInv, Closing, ScanTakes
<1>4. Reasoned'
  BY ScanKeeps, ReasonNames, ReasonSet DEF StreamInv, Reasoned, Reading, ScanTakes
<1>5. Signals' /\ OneSignal'
  BY ScanKeeps DEF StreamInv, Signals, OneSignal, ScanTakes
<1>6. Account'
  BY ScanKeeps DEF StreamInv, Kinds, Counts, Account, InTransit, Bit, ScanTakes
<1> QED
  BY <1>1, <1>2, <1>3, <1>4, <1>5, <1>6 DEF StreamInv

LEMMA ScanQueuesStep ==
  ASSUME StreamInv, ScanQueues, ScanFrame
  PROVE  StreamInv'
<1>1. Kinds' /\ Switches'
  BY ScanKeeps DEF StreamInv, Kinds, Switches, Reading, ScanQueues
<1>2. Counts'
  BY ScanKeeps, StreamAssumption DEF StreamInv, Counts, ScanQueues
<1>3. Closing'
  BY ScanKeeps DEF StreamInv, Closing, ScanQueues
<1>4. Reasoned'
  BY ScanKeeps DEF StreamInv, Reasoned, Reading, ScanQueues
<1>5. Signals' /\ OneSignal'
  BY ScanKeeps DEF StreamInv, Signals, OneSignal, ScanQueues
<1>6. Account'
  BY ScanKeeps DEF StreamInv, Kinds, Counts, Account, InTransit, Bit, ScanQueues
<1> QED
  BY <1>1, <1>2, <1>3, <1>4, <1>5, <1>6 DEF StreamInv

LEMMA ScanLeavesStep ==
  ASSUME StreamInv, ScanLeaves, ScanFrame
  PROVE  StreamInv'
<1>1. Kinds' /\ Switches'
  BY ScanKeeps DEF StreamInv, Kinds, Switches, ScanLeaves, WgDone
<1>2. Counts'
  BY ScanKeeps DEF StreamInv, Counts, ScanLeaves
<1>3. Closing'
  BY ScanKeeps DEF StreamInv, Closing, ScanLeaves, WgDone
<1>4. Reasoned'
  BY DEF StreamInv, Reasoned, Reading, ScanLeaves
<1>5. Signals' /\ OneSignal'
  BY ScanKeeps DEF StreamInv, Signals, OneSignal, ScanLeaves
<1>6. Account'
  BY ScanKeeps DEF StreamInv, Account, InTransit, Reading, ScanLeaves
<1> QED
  BY <1>1, <1>2, <1>3, <1>4, <1>5, <1>6 DEF StreamInv

LEMMA ScanPanicsStep ==
  ASSUME StreamInv, ScanPanics, ScanFrame
  PROVE  StreamInv'
<1>1. Kinds' /\ Switches'
  BY ScanKeeps DEF StreamInv, Kinds, Switches, ScanPanics
<1>2. Counts'
  BY ScanKeeps DEF StreamInv, Counts, ScanPanics
<1>3. Closing'
  BY ScanKeeps DEF StreamInv, Closing, ScanPanics
<1>4. Reasoned'
  BY DEF Reasoned, ScanPanics
<1>5. Signals' /\ OneSignal'
  BY ScanKeeps DEF StreamInv, Signals, OneSignal, ScanPanics
<1>6. Account'
  BY ScanKeeps DEF StreamInv, Counts, Account, InTransit, Bit, Reading, ScanPanics
<1> QED
  BY <1>1, <1>2, <1>3, <1>4, <1>5, <1>6 DEF StreamInv

LEMMA ScanPanickedStep ==
  ASSUME StreamInv, ScanPanicked, ScanFrame
  PROVE  StreamInv'
<1>1. Kinds' /\ Switches'
  BY ScanKeeps, ReasonNames, ReasonSet DEF StreamInv, Kinds, Switches, ScanPanicked, WgDone
<1>2. Counts'
  BY ScanKeeps DEF StreamInv, Counts, ScanPanicked
<1>3. Closing'
  BY ScanKeeps DEF StreamInv, Closing, ScanPanicked, WgDone
<1>4. Reasoned'
  BY ReasonNames, ReasonSet DEF StreamInv, Reasoned, ScanPanicked
<1>5. Signals' /\ OneSignal'
  BY ScanKeeps DEF StreamInv, Signals, OneSignal, ScanPanicked
<1>6. Account'
  BY ScanKeeps, ReasonNames, ReasonSet DEF StreamInv, Account, InTransit, Reading,
     ScanPanicked
<1> QED
  BY <1>1, <1>2, <1>3, <1>4, <1>5, <1>6 DEF StreamInv

LEMMA ScanSignalsStep ==
  ASSUME StreamInv, ScanSignals, ScanFrame
  PROVE  StreamInv'
<1>1. Kinds' /\ Switches'
  BY ScanKeeps DEF StreamInv, Kinds, Switches, ScanSignals
<1>2. Counts'
  BY ScanKeeps, Sent DEF StreamInv, Counts, ScanSignals
<1>3. Closing'
  BY ScanKeeps DEF StreamInv, Closing, ScanSignals
<1>4. Reasoned'
  BY DEF StreamInv, Reasoned, Reading, ScanSignals
<1>5. Signals' /\ OneSignal'
  BY ScanKeeps, Sent DEF StreamInv, Counts, Closing, Signals, OneSignal, Bit, ScanSignals
<1>6. Account'
  BY ScanKeeps DEF StreamInv, Account, InTransit, Reading, ScanSignals
<1> QED
  BY <1>1, <1>2, <1>3, <1>4, <1>5, <1>6 DEF StreamInv

LEMMA ScanEndsStep ==
  ASSUME StreamInv, NEW reason \in {"eof", "scanner_error"}, ScanEnds(reason), ScanFrame
  PROVE  StreamInv'
<1>1. Kinds' /\ Switches'
  BY ScanKeeps, ReasonNames, ReasonSet DEF StreamInv, Kinds, Switches, ScanEnds
<1>2. Counts'
  BY ScanKeeps DEF StreamInv, Counts, ScanEnds
<1>3. Closing'
  BY ScanKeeps DEF StreamInv, Closing, ScanEnds
<1>4. Reasoned'
  BY ReasonNames, ReasonSet DEF StreamInv, Reasoned, ScanEnds
<1>5. Signals' /\ OneSignal'
  BY ScanKeeps DEF StreamInv, Signals, OneSignal, ScanEnds
<1>6. Account'
  BY ScanKeeps DEF StreamInv, Kinds, Account, InTransit, ScanEnds
<1> QED
  BY <1>1, <1>2, <1>3, <1>4, <1>5, <1>6 DEF StreamInv

-----------------------------------------------------------------------------
(* The data handler.                                                       *)

LEMMA HandTakesStep ==
  ASSUME StreamInv, HandTakes, HandFrame
  PROVE  StreamInv'
<1>1. Kinds' /\ Switches'
  BY HandKeeps DEF StreamInv, Kinds, Switches, HandTakes
<1>2. Counts'
  BY HandKeeps, StreamAssumption DEF StreamInv, Counts, HandTakes
<1>3. Closing'
  BY HandKeeps DEF StreamInv, Closing, HandOut, HandTakes
<1>4. Reasoned'
  BY HandKeeps DEF StreamInv, Reasoned, HandOut, HandTakes
<1>5. Signals' /\ OneSignal'
  BY HandKeeps DEF StreamInv, Signals, OneSignal, HandTakes
<1>6. Account'
  BY HandKeeps DEF StreamInv, Counts, Account, InTransit, Bit, HandTakes
<1> QED
  BY <1>1, <1>2, <1>3, <1>4, <1>5, <1>6 DEF StreamInv

LEMMA HandDrainedStep ==
  ASSUME StreamInv, HandDrained, HandFrame
  PROVE  StreamInv'
<1>1. Kinds' /\ Switches'
  BY HandKeeps DEF StreamInv, Kinds, Switches, HandOut, HandDrained, WgDone
<1>2. Counts'
  BY HandKeeps DEF StreamInv, Counts, HandDrained
<1>3. Closing'
  BY HandKeeps DEF StreamInv, Closing, HandOut, HandDrained, WgDone
<1>4. Reasoned'
  BY HandKeeps DEF StreamInv, Closing, Reasoned, Reading, HandDrained
<1>5. Signals' /\ OneSignal'
  BY HandKeeps DEF StreamInv, Signals, OneSignal, HandDrained
<1>6. Account'
  BY HandKeeps DEF StreamInv, Account, InTransit, HandDrained
<1> QED
  BY <1>1, <1>2, <1>3, <1>4, <1>5, <1>6 DEF StreamInv

LEMMA HandLocksStep ==
  ASSUME StreamInv, HandLocks, HandFrame
  PROVE  StreamInv'
<1>1. Kinds' /\ Switches'
  BY HandKeeps DEF StreamInv, Kinds, Switches, HandLocks
<1>2. Counts'
  BY HandKeeps DEF StreamInv, Counts, HandLocks
<1>3. Closing'
  BY HandKeeps DEF StreamInv, Closing, HandOut, HandLocks
<1>4. Reasoned'
  BY HandKeeps DEF StreamInv, Reasoned, HandOut, HandLocks
<1>5. Signals' /\ OneSignal'
  BY HandKeeps DEF StreamInv, Signals, OneSignal, HandLocks
<1>6. Account'
  BY HandKeeps DEF StreamInv, Counts, Account, InTransit, Bit, HandLocks
<1> QED
  BY <1>1, <1>2, <1>3, <1>4, <1>5, <1>6 DEF StreamInv

LEMMA HandReturnsStep ==
  ASSUME StreamInv, HandReturns, HandFrame
  PROVE  StreamInv'
<1>1. Kinds' /\ Switches'
  <2>1. endReason' \in Reasons
    BY ReasonNames, ReasonSet DEF StreamInv, Kinds, HandReturns
  <2>2. wg' \subseteq {"scan", "hand", "ping"}
    BY DEF StreamInv, Kinds, HandReturns, WgDone
  <2> QED
    BY <2>1, <2>2, HandKeeps DEF StreamInv, Kinds, Switches, HandOut, HandReturns
<1>2. Counts'
  BY HandKeeps DEF StreamInv, Counts, HandReturns
<1>3. Closing'
  BY HandKeeps DEF StreamInv, Closing, HandOut, HandReturns, WgDone
<1>4. Reasoned'
  BY HandKeeps, ReasonNames, ReasonSet DEF StreamInv, Reasoned, HandOut, HandReturns
<1>5. Signals' /\ OneSignal'
  BY HandKeeps DEF StreamInv, Counts, Signals, OneSignal, Bit, HandReturns
<1>6. Account'
  BY HandKeeps DEF StreamInv, Account, InTransit, HandReturns
<1> QED
  BY <1>1, <1>2, <1>3, <1>4, <1>5, <1>6 DEF StreamInv

LEMMA HandPanicsStep ==
  ASSUME StreamInv, HandPanics, HandFrame
  PROVE  StreamInv'
<1>1. Kinds' /\ Switches'
  BY HandKeeps, ReasonNames, ReasonSet DEF StreamInv, Kinds, Switches, HandOut,
     HandPanics, WgDone
<1>2. Counts'
  BY HandKeeps DEF StreamInv, Counts, HandPanics
<1>3. Closing'
  BY HandKeeps DEF StreamInv, Closing, HandOut, HandPanics, WgDone
<1>4. Reasoned'
  BY ReasonNames, ReasonSet DEF StreamInv, Reasoned, HandPanics
<1>5. Signals' /\ OneSignal'
  BY HandKeeps DEF StreamInv, Counts, Signals, OneSignal, Bit, HandPanics
<1>6. Account'
  BY HandKeeps DEF StreamInv, Account, InTransit, HandPanics
<1> QED
  BY <1>1, <1>2, <1>3, <1>4, <1>5, <1>6 DEF StreamInv

LEMMA HandSignalsStep ==
  ASSUME StreamInv, HandSignals, HandFrame
  PROVE  StreamInv'
<1>1. Kinds' /\ Switches'
  BY HandKeeps DEF StreamInv, Kinds, Switches, HandOut, HandSignals
<1>2. Counts'
  BY HandKeeps, Sent DEF StreamInv, Counts, HandSignals
<1>3. Closing'
  BY HandKeeps DEF StreamInv, Closing, HandOut, HandSignals
<1>4. Reasoned'
  BY HandKeeps DEF StreamInv, Kinds, Reasoned, HandSignals
<1>5. Signals' /\ OneSignal'
  BY HandKeeps, Sent DEF StreamInv, Counts, Closing, Signals, OneSignal, Bit, HandSignals
<1>6. Account'
  BY HandKeeps DEF StreamInv, Account, InTransit, HandSignals
<1> QED
  BY <1>1, <1>2, <1>3, <1>4, <1>5, <1>6 DEF StreamInv

-----------------------------------------------------------------------------
(* The pings.                                                              *)

LEMMA PingStartsStep ==
  ASSUME StreamInv, PingStarts, PingFrame
  PROVE  StreamInv'
<1>1. Kinds' /\ Switches'
  BY PingKeeps DEF StreamInv, Kinds, Switches, PingStarts
<1>2. Counts'
  BY PingKeeps, StreamAssumption DEF StreamInv, Counts, PingStarts
<1>3. Closing'
  BY PingKeeps DEF StreamInv, Closing, PingStarts
<1>4. Reasoned'
  BY PingKeeps DEF StreamInv, Reasoned, PingStarts
<1>5. Signals' /\ OneSignal'
  BY PingKeeps DEF StreamInv, Signals, OneSignal, PingStarts
<1>6. Account'
  BY PingKeeps DEF StreamInv, Account, InTransit, PingStarts
<1> QED
  BY <1>1, <1>2, <1>3, <1>4, <1>5, <1>6 DEF StreamInv

LEMMA PingerLocksStep ==
  ASSUME StreamInv, PingerLocks, PingFrame
  PROVE  StreamInv'
<1>1. Kinds' /\ Switches'
  BY PingKeeps DEF StreamInv, Kinds, Switches, PingerLocks
<1>2. Counts'
  BY PingKeeps DEF StreamInv, Counts, PingerLocks
<1>3. Closing'
  BY PingKeeps DEF StreamInv, Closing, PingerLocks
<1>4. Reasoned'
  BY PingKeeps DEF StreamInv, Reasoned, PingerLocks
<1>5. Signals' /\ OneSignal'
  BY PingKeeps DEF StreamInv, Signals, OneSignal, PingerLocks
<1>6. Account'
  BY PingKeeps DEF StreamInv, Account, InTransit, PingerLocks
<1> QED
  BY <1>1, <1>2, <1>3, <1>4, <1>5, <1>6 DEF StreamInv

LEMMA PingerWritesStep ==
  ASSUME StreamInv, PingerWrites, PingFrame
  PROVE  StreamInv'
<1>1. Kinds' /\ Switches'
  BY PingKeeps DEF StreamInv, Kinds, Switches, PingerWrites
<1>2. Counts'
  BY PingKeeps DEF StreamInv, Counts, PingerWrites
<1>3. Closing'
  BY PingKeeps DEF StreamInv, Closing, PingerWrites
<1>4. Reasoned'
  BY PingKeeps DEF StreamInv, Reasoned, PingerWrites
<1>5. Signals' /\ OneSignal'
  BY PingKeeps DEF StreamInv, Signals, OneSignal, PingerWrites
<1>6. Account'
  BY PingKeeps DEF StreamInv, Account, InTransit, PingerWrites
<1> QED
  BY <1>1, <1>2, <1>3, <1>4, <1>5, <1>6 DEF StreamInv

LEMMA PingSentStep ==
  ASSUME StreamInv, PingSent, PingFrame
  PROVE  StreamInv'
<1>1. Kinds' /\ Switches'
  BY PingKeeps DEF StreamInv, Kinds, Switches, PingSent
<1>2. Counts'
  BY PingKeeps DEF StreamInv, Counts, PingSent
<1>3. Closing'
  BY PingKeeps DEF StreamInv, Closing, PingSent
<1>4. Reasoned'
  BY PingKeeps DEF StreamInv, Reasoned, PingSent
<1>5. Signals' /\ OneSignal'
  BY PingKeeps DEF StreamInv, Signals, OneSignal, PingSent
<1>6. Account'
  BY PingKeeps DEF StreamInv, Account, InTransit, PingSent
<1> QED
  BY <1>1, <1>2, <1>3, <1>4, <1>5, <1>6 DEF StreamInv

LEMMA PingFailsStep ==
  ASSUME StreamInv, PingFails, PingFrame
  PROVE  StreamInv'
<1>1. Kinds' /\ Switches'
  BY PingKeeps, ReasonNames, ReasonSet DEF StreamInv, Kinds, Switches, PingFails, WgDone
<1>2. Counts'
  BY PingKeeps DEF StreamInv, Counts, PingFails
<1>3. Closing'
  BY PingKeeps DEF StreamInv, Closing, PingFails, WgDone
<1>4. Reasoned'
  BY ReasonNames, ReasonSet DEF StreamInv, Reasoned, PingFails
<1>5. Signals' /\ OneSignal'
  BY PingKeeps DEF StreamInv, Counts, Signals, OneSignal, Bit, PingFails
<1>6. Account'
  BY PingKeeps, ReasonNames, ReasonSet DEF StreamInv, Account, InTransit, PingFails
<1> QED
  BY <1>1, <1>2, <1>3, <1>4, <1>5, <1>6 DEF StreamInv

LEMMA PingEndsStep ==
  ASSUME StreamInv, PingEnds, PingFrame
  PROVE  StreamInv'
<1>1. Kinds' /\ Switches'
  BY PingKeeps DEF StreamInv, Kinds, Switches, PingEnds, LeavesPinger, WgDone
<1>2. Counts'
  BY PingKeeps, Received DEF StreamInv, Counts, PingEnds
<1>3. Closing'
  BY PingKeeps DEF StreamInv, Closing, PingEnds, LeavesPinger, WgDone
<1>4. Reasoned'
  BY PingKeeps, Received DEF StreamInv, Reasoned, PingEnds
<1>5. Signals' /\ OneSignal'
  BY PingKeeps, Received DEF StreamInv, Counts, Signals, OneSignal, Bit, PingEnds
<1>6. Account'
  BY PingKeeps DEF StreamInv, Account, InTransit, PingEnds
<1> QED
  BY <1>1, <1>2, <1>3, <1>4, <1>5, <1>6 DEF StreamInv

LEMMA PingPanicsStep ==
  ASSUME StreamInv, PingPanics, PingFrame
  PROVE  StreamInv'
<1>1. Kinds' /\ Switches'
  BY PingKeeps, ReasonNames, ReasonSet DEF StreamInv, Kinds, Switches, PingPanics,
     LeavesPinger, WgDone
<1>2. Counts'
  BY PingKeeps DEF StreamInv, Counts, PingPanics
<1>3. Closing'
  BY PingKeeps DEF StreamInv, Closing, PingPanics, WgDone
<1>4. Reasoned'
  BY ReasonNames, ReasonSet DEF StreamInv, Reasoned, PingPanics
<1>5. Signals' /\ OneSignal'
  BY PingKeeps DEF StreamInv, Counts, Signals, OneSignal, Bit, PingPanics
<1>6. Account'
  BY PingKeeps, ReasonNames, ReasonSet DEF StreamInv, Account, InTransit, PingPanics
<1> QED
  BY <1>1, <1>2, <1>3, <1>4, <1>5, <1>6 DEF StreamInv

LEMMA PingSignalsStep ==
  ASSUME StreamInv, PingSignals, PingFrame
  PROVE  StreamInv'
<1>1. Kinds' /\ Switches'
  BY PingKeeps DEF StreamInv, Kinds, Switches, PingSignals
<1>2. Counts'
  BY PingKeeps, Sent DEF StreamInv, Counts, PingSignals
<1>3. Closing'
  BY PingKeeps DEF StreamInv, Closing, PingSignals
<1>4. Reasoned'
  BY PingKeeps DEF StreamInv, Reasoned, PingSignals
<1>5. Signals' /\ OneSignal'
  BY PingKeeps, Sent DEF StreamInv, Counts, Closing, Signals, OneSignal, Bit, PingSignals
<1>6. Account'
  BY PingKeeps DEF StreamInv, Account, InTransit, PingSignals
<1> QED
  BY <1>1, <1>2, <1>3, <1>4, <1>5, <1>6 DEF StreamInv

-----------------------------------------------------------------------------
(* The caller.                                                             *)

LEMMA WaitEndsStep ==
  ASSUME StreamInv, WaitEnds, MainFrame
  PROVE  StreamInv'
<1>1. Kinds' /\ Switches'
  <2>1. endReason' \in Reasons
    BY ReasonNames, ReasonSet DEF StreamInv, Kinds, WaitEnds
  <2>2. Kinds'
    BY <2>1, MainKeeps DEF StreamInv, Kinds, WaitEnds
  <2>3. Switches'
    BY MainKeeps, Zenon DEF StreamInv, Switches, WaitEnds
  <2> QED
    BY <2>2, <2>3
<1>2. Counts'
  BY MainKeeps, Received DEF StreamInv, Counts, WaitEnds
<1>3. Closing'
  BY MainKeeps DEF StreamInv, Closing, WaitEnds
<1>4. Reasoned'
  <2>1. CASE ReceiveStop /\ UNCHANGED endReason
    BY <2>1, MainKeeps, StopMeansReason DEF ReceiveStop, Reasoned
  <2>2. CASE SetEndReason("timeout") \/ SetEndReason("client_gone")
    BY <2>2, ReasonNames, ReasonSet DEF StreamInv, Reasoned
  <2> QED
    BY <2>1, <2>2 DEF WaitEnds
<1>5. Signals' /\ OneSignal'
  BY MainKeeps, Received DEF StreamInv, Counts, Signals, OneSignal, Bit, WaitEnds
<1>6. Account'
  BY MainKeeps, ReasonNames, ReasonSet DEF StreamInv, Account, InTransit, WaitEnds
<1> QED
  BY <1>1, <1>2, <1>3, <1>4, <1>5, <1>6 DEF StreamInv

LEMMA MainSignalsStep ==
  ASSUME StreamInv, MainSignals, MainFrame
  PROVE  StreamInv'
<1>1. Kinds' /\ Switches'
  <2>1. Kinds'
    BY MainKeeps DEF StreamInv, Kinds, MainSignals
  <2>2. Switches'
    BY MainKeeps, Zenon DEF StreamInv, Switches, MainSignals
  <2> QED
    BY <2>1, <2>2
<1>2. Counts'
  BY MainKeeps, Sent DEF StreamInv, Counts, MainSignals
<1>3. Closing'
  BY MainKeeps DEF StreamInv, Closing, MainSignals
<1>4. Reasoned'
  BY MainKeeps DEF StreamInv, Reasoned, MainSignals
<1>5. Signals' /\ OneSignal'
  BY MainKeeps, Sent DEF StreamInv, Counts, Signals, OneSignal, Bit, MainSignals
<1>6. Account'
  BY MainKeeps DEF StreamInv, Account, InTransit, MainSignals
<1> QED
  BY <1>1, <1>2, <1>3, <1>4, <1>5, <1>6 DEF StreamInv

LEMMA MainJoinsStep ==
  ASSUME StreamInv, MainJoins, MainFrame
  PROVE  StreamInv'
<1>1. Kinds' /\ Switches'
  <2>1. overran' \in BOOLEAN
    BY DEF MainJoins
  <2>2. Kinds'
    BY MainKeeps DEF StreamInv, Kinds, MainJoins
  <2>3. Switches'
    BY <2>1, MainKeeps DEF StreamInv, Switches, MainJoins
  <2> QED
    BY <2>2, <2>3
<1>2. Counts'
  BY MainKeeps DEF StreamInv, Counts, MainJoins
<1>3. Closing'
  <2>1. ~ overran' => hand \in HandOut
    BY DEF StreamInv, Closing, MainJoins
  <2> QED
    BY <2>1, MainKeeps DEF StreamInv, Closing, MainJoins
<1>4. Reasoned'
  BY MainKeeps DEF StreamInv, Reasoned, MainJoins
<1>5. Signals' /\ OneSignal'
  BY MainKeeps DEF StreamInv, Signals, OneSignal, MainJoins
<1>6. Account'
  BY MainKeeps DEF StreamInv, Account, InTransit, MainJoins
<1> QED
  BY <1>1, <1>2, <1>3, <1>4, <1>5, <1>6 DEF StreamInv

LEMMA MainClosesStep ==
  ASSUME StreamInv, MainCloses, MainFrame
  PROVE  StreamInv'
<1>1. Kinds' /\ Switches'
  <2>1. Kinds'
    BY MainKeeps DEF StreamInv, Kinds, MainCloses
  <2>2. Switches'
    BY MainKeeps DEF StreamInv, Switches, MainCloses
  <2> QED
    BY <2>1, <2>2
<1>2. Counts'
  BY MainKeeps DEF StreamInv, Counts, MainCloses
<1>3. Closing'
  BY MainKeeps DEF StreamInv, Closing, MainCloses
<1>4. Reasoned'
  BY MainKeeps DEF StreamInv, Reasoned, MainCloses
<1>5. Signals' /\ OneSignal'
  BY MainKeeps DEF StreamInv, Signals, OneSignal, MainCloses
<1>6. Account'
  BY MainKeeps DEF StreamInv, Account, InTransit, MainCloses
<1> QED
  BY <1>1, <1>2, <1>3, <1>4, <1>5, <1>6 DEF StreamInv

-----------------------------------------------------------------------------
(* The theorems.                                                           *)

\* StreamScannerHandler: every step of the scanner, the data handler, the pings
\* and the caller keeps the invariant.
THEOREM StreamInvariance == Spec => []StreamInv
<1>1. ASSUME StreamInv, [Next]_vars PROVE StreamInv'
  <2>1. CASE ScannerMoves
    BY <1>1, <2>1, ScanStoppedStep, ScanTakesStep, ScanQueuesStep, ScanLeavesStep,
       ScanPanickedStep, ScanSignalsStep, ScanEndsStep DEF ScannerMoves
  <2>2. CASE Upstream
    BY <1>1, <2>2, ScanLineStep, ScanPanicsStep, ScanEndsStep DEF Upstream
  <2>3. CASE HandlerMoves \/ HandlerLocks \/ HandlerWritten
    BY <1>1, <2>3, HandTakesStep, HandDrainedStep, HandLocksStep, HandReturnsStep,
       HandPanicsStep, HandSignalsStep DEF HandlerMoves, HandlerLocks, HandlerWritten
  <2>4. CASE PingMoves \/ ((PingStarts \/ PingPanics) /\ PingFrame) \/ PingLocks \/ PingWritten
    BY <1>1, <2>4, PingStartsStep, PingerLocksStep, PingerWritesStep, PingSentStep,
       PingFailsStep, PingEndsStep, PingPanicsStep, PingSignalsStep
    DEF PingMoves, PingLocks, PingWritten
  <2>5. CASE MainMoves
    BY <1>1, <2>5, WaitEndsStep, MainSignalsStep, MainJoinsStep, MainClosesStep DEF
       MainMoves
  <2>6. CASE clientLeaves \/ UNCHANGED vars
    BY <1>1, <2>6, QuietStep
  <2> QED
    BY <1>1, <2>1, <2>2, <2>3, <2>4, <2>5, <2>6 DEF Next
<1> QED
  BY InitStreamInv, <1>1, PTL DEF Spec

\* The goroutines are at places the code has, the channels within their
\* buffers; no more chunks are handled than were received, no more received
\* than lines were read.
THEOREM StreamTypeCorrect == Spec => []TypeOK
<1>1. ASSUME StreamInv PROVE TypeOK
  <2>1. {stopClosed, dataClosed, ctxDone, clientGone, bodyClosed, overran} \subseteq BOOLEAN
    BY <1>1, Zenon DEF StreamInv, Switches
  <2>2. lines \in 0 .. MaxLines /\ received \in 0 .. lines /\ handled \in 0 .. received
    BY <1>1 DEF StreamInv, Counts, Account, InTransit, Bit
  <2> QED
    BY <1>1, <2>1, <2>2 DEF StreamInv, TypeOK, Kinds, Counts, Reading, HandOut
<1> QED
  BY StreamInvariance, <1>1, PTL

\* The caller of StreamScannerHandler starts to clean up only with an end
\* reason set, for every order of timeouts, ends and failures; but for a
\* panic of the scanner, which signals first.
THEOREM StreamReasonBeforeCleanUp == Spec => []ReasonBeforeCleanUp
<1>1. ASSUME StreamInv PROVE ReasonBeforeCleanUp
  BY <1>1 DEF StreamInv, Reasoned, ReasonBeforeCleanUp
<1> QED
  BY StreamInvariance, <1>1, PTL

\* One stopChan is read by three: still no signal is lost.  When scanner and
\* data handler are both gone, the caller that waits has a signal to find,
\* unless dataHandler quit while pings were on.
THEOREM StreamNoLostWakeUp == Spec => []NoLostWakeUp
<1>1. ASSUME StreamInv PROVE NoLostWakeUp
  BY <1>1 DEF StreamInv, Signals, Bit, NoLostWakeUp
<1> QED
  BY StreamInvariance, <1>1, PTL

\* For any buffer and any number of lines: when the caller has returned after
\* [DONE] or the end of the body, dataHandler has handled every chunk received,
\* unless it stopped the stream itself or the clean-up gave up waiting.
THEOREM StreamAllChunksHandled == Spec => []AllChunksHandled
<1>1. ASSUME StreamInv PROVE AllChunksHandled
  BY <1>1 DEF StreamInv, Counts, Closing, Account, InTransit, Bit, HandOut, AllChunksHandled
<1> QED
  BY StreamInvariance, <1>1, PTL

\* Somebody who is about to signal finds stopChan full.
SendBlocks == "signal" \in {scan, hand, main, ping} /\ stopChan >= StopCap

\* Everyone who ends sends one value to stopChan.  With the buffer
\* of three that the code makes, a deferred signal can only block when the ping
\* goroutine has panicked: it is the fourth sender.
THEOREM StreamBlocksOnlyOnPingPanic ==
  ASSUME StopCap >= 3
  PROVE  Spec => [](SendBlocks => ping \in {"signal", "recovered"})
<1>1. ASSUME StreamInv PROVE SendBlocks => ping \in {"signal", "recovered"}
  BY <1>1, StreamAssumption DEF StreamInv, Counts, OneSignal, Bit, SendBlocks
<1> QED
  BY StreamInvariance, <1>1, PTL

\* A buffer of four would do: then no deferred signal ever blocks, whoever
\* panics.
THEOREM StreamFourNeverBlock ==
  ASSUME StopCap >= 4
  PROVE  Spec => []~ SendBlocks
<1>1. ASSUME StreamInv PROVE ~ SendBlocks
  BY <1>1, StreamAssumption DEF StreamInv, Counts, OneSignal, Bit, SendBlocks
<1> QED
  BY StreamInvariance, <1>1, PTL
=============================================================================
