---------------------------- MODULE StreamScanner ----------------------------
(***************************************************************************)
(* StreamScannerHandler relays one streaming answer: a scanner goroutine   *)
(* reads the upstream body line by line and queues the data lines, a data  *)
(* handler goroutine writes them to the client, a ping goroutine keeps the *)
(* client connection alive, and the caller waits for the end, for the      *)
(* streaming timeout or for the client to go away, and then cleans up.     *)
(* They talk through stopChan (buffered, read by three of them), dataChan, *)
(* a context, a wait group and a mutex around the client connection.       *)
(* Chunks are counted, not named: channels are FIFO, so the counts tell    *)
(* which chunks have been handled.                                         *)
(***************************************************************************)
EXTENDS Naturals

CONSTANTS
    StopCap,     \* buffer of stopChan
    DataCap,     \* buffer of dataChan
    MaxLines,    \* bound on the lines the upstream sends
    MaxPings     \* bound on the pings of a stream

ASSUME StreamAssumption ==
    /\ StopCap \in Nat \ {0} /\ DataCap \in Nat
    /\ MaxLines \in Nat /\ MaxPings \in Nat

VARIABLES
    main,        \* where StreamScannerHandler itself is
    scan,        \* where the scanner goroutine is
    line,        \* the kind of the line it holds
    hand,        \* where the data handler goroutine is
    ping,        \* where the ping goroutine is
    pinger,      \* the goroutine that writes one ping, not in the wait group
    stopChan,    \* values in stopChan
    stopClosed,
    dataChan,    \* chunks in dataChan
    dataClosed,
    writeMutex,  \* who holds it
    wg,          \* the goroutines the wait group counts
    endReason,   \* StreamStatus.EndReason
    ctxDone, clientGone, bodyClosed,
    quit,        \* the data handler stopped the stream: "no", "stop" or "panic"
    overran,     \* the clean-up gave up waiting for the goroutines
    received,    \* ReceivedResponseCount
    handled,     \* chunks given to dataHandler
    lines, pings \* what the bounds count

mainVars == <<main, overran, bodyClosed, stopClosed, ctxDone>>
scanVars == <<scan, line, received, lines, dataClosed>>
handVars == <<hand, quit, handled>>
pingVars == <<ping, pinger, pings>>
vars == <<mainVars, scanVars, handVars, pingVars,
          stopChan, dataChan, writeMutex, wg, endReason, clientGone>>

\* StreamEndReasonNone: no reason has been given.
NoReason == ""

Reasons == {NoReason, "done", "timeout", "client_gone", "scanner_error",
            "handler_stop", "eof", "panic", "ping_fail"}

\* The values the goroutines, the channels and the counters can take.
TypeOK ==
    /\ main \in {"wait", "signal", "join", "close", "returned"}
    /\ scan \in {"scan", "check", "send", "close", "panicked", "signal", "exited"}
    /\ line \in {"none", "data", "done", "other"}
    /\ hand \in {"range", "lock", "handle", "signal", "exited"}
    /\ ping \in {"off", "select", "sending", "signal", "exited", "recovered"}
    /\ pinger \in {"none", "lock", "write", "ok", "failed"}
    /\ stopChan \in 0 .. StopCap /\ dataChan \in 0 .. DataCap
    /\ {stopClosed, dataClosed, ctxDone, clientGone, bodyClosed, overran} \subseteq BOOLEAN
    /\ writeMutex \in {"free", "hand", "pinger"}
    /\ wg \subseteq {"scan", "hand", "ping"}
    /\ endReason \in Reasons
    /\ quit \in {"no", "stop", "panic"}
    /\ lines \in 0 .. MaxLines /\ received \in 0 .. lines /\ handled \in 0 .. received
    /\ pings \in 0 .. MaxPings

\* pingEnabled is a setting: without it there is no ping goroutine.
Init ==
    /\ main = "wait" /\ overran = FALSE
    /\ scan = "scan" /\ line = "none" /\ received = 0 /\ lines = 0 /\ bodyClosed = FALSE
    /\ hand = "range" /\ quit = "no" /\ handled = 0
    /\ ping \in {"select", "off"} /\ pinger = "none" /\ pings = 0
    /\ stopChan = 0 /\ stopClosed = FALSE /\ dataChan = 0 /\ dataClosed = FALSE
    /\ writeMutex = "free"
    /\ wg = {"scan", "hand"} \cup (IF ping = "select" THEN {"ping"} ELSE {})
    /\ endReason = NoReason /\ ctxDone = FALSE /\ clientGone = FALSE

-----------------------------------------------------------------------------
(* The shared objects.                                                     *)

\* sync.Once: the first reason stays.
SetEndReason(reason) ==
    endReason' = IF endReason = NoReason THEN reason ELSE endReason

\* A receive takes a value, or returns at once when the channel is closed.
ReceiveStop ==
    /\ stopChan > 0 \/ stopClosed
    /\ stopChan' = IF stopChan > 0 THEN stopChan - 1 ELSE 0

\* Mutant: a buffer of one.
SendBuffersOne ==
    /\ stopClosed \/ stopChan < 1
    /\ stopChan' = IF stopClosed THEN stopChan ELSE stopChan + 1

\* A send on a closed channel panics and SafeSendBool recovers; a send into a
\* full buffer waits.
SafeSendBool ==
    /\ stopClosed \/ stopChan < StopCap
    /\ stopChan' = IF stopClosed THEN stopChan ELSE stopChan + 1

WgDone(g) == wg' = wg \ {g}

-----------------------------------------------------------------------------
(* The scanner goroutine.                                                  *)

ScanLine ==
    /\ scan = "scan" /\ ~ bodyClosed /\ lines < MaxLines
    /\ line' \in {"data", "done", "other"}
    /\ lines' = lines + 1
    /\ scan' = "check"
    /\ UNCHANGED <<received, dataClosed, stopChan, dataChan, wg, endReason>>

\* Mutant: the end of the body sets no reason.
ScanEndsSilently(reason) ==
    /\ scan = "scan" /\ scan' = "close"
    /\ bodyClosed => reason = "scanner_error"
    /\ UNCHANGED <<line, lines, received, dataClosed, stopChan, dataChan, wg, endReason>>

\* Scan returns false: the body ends, or reading it fails, as it does once it
\* is closed.
ScanEnds(reason) ==
    /\ scan = "scan" /\ scan' = "close"
    /\ bodyClosed => reason = "scanner_error"
    /\ SetEndReason(reason)
    /\ UNCHANGED <<line, lines, received, dataClosed, stopChan, dataChan, wg>>

\* The select at the top of the loop and the one around the send: a stop
\* signal, ctx.Done and, in the first, the client's context.
ScanStopped ==
    /\ scan \in {"check", "send"} /\ scan' = "close" /\ line' = "none"
    /\ \/ ReceiveStop /\ UNCHANGED endReason
       \/ ctxDone /\ UNCHANGED <<stopChan, endReason>>
       \/ /\ scan = "check" /\ clientGone
          /\ SetEndReason("client_gone") /\ UNCHANGED stopChan
    /\ UNCHANGED <<lines, received, dataClosed, dataChan, wg>>

\* No case is ready: the line is looked at. A [DONE] ends the scan, a data
\* line is counted and will be queued, anything else is skipped.
ScanTakes ==
    /\ scan = "check" /\ stopChan = 0 /\ ~ stopClosed /\ ~ ctxDone /\ ~ clientGone
    /\ \/ line = "other" /\ scan' = "scan" /\ UNCHANGED <<received, endReason>>
       \/ line = "done" /\ scan' = "close" /\ SetEndReason("done") /\ UNCHANGED received
       \/ line = "data" /\ scan' = "send" /\ received' = received + 1 /\ UNCHANGED endReason
    /\ line' = "none"
    /\ UNCHANGED <<lines, dataClosed, stopChan, dataChan, wg>>

ScanQueues ==
    /\ scan = "send" /\ dataChan < DataCap
    /\ dataChan' = dataChan + 1
    /\ scan' = "scan"
    /\ UNCHANGED <<line, lines, received, dataClosed, stopChan, wg, endReason>>

\* The deferred function: close(dataChan) and wg.Done; the stop signal is a
\* step of its own.
ScanLeaves ==
    /\ scan = "close" /\ scan' = "signal"
    /\ dataClosed' = TRUE
    /\ WgDone("scan")
    /\ UNCHANGED <<line, lines, received, stopChan, dataChan, endReason>>

\* After a panic dataChan is closed before the reason is set.
ScanPanics ==
    /\ scan \in {"check", "send"} /\ scan' = "panicked" /\ line' = "none"
    /\ dataClosed' = TRUE
    /\ UNCHANGED <<lines, received, stopChan, dataChan, wg, endReason>>

ScanPanicked ==
    /\ scan = "panicked" /\ scan' = "signal"
    /\ WgDone("scan") /\ SetEndReason("panic")
    /\ UNCHANGED <<line, lines, received, dataClosed, stopChan, dataChan>>

ScanSignals ==
    /\ scan = "signal" /\ scan' = "exited"
    /\ SafeSendBool
    /\ UNCHANGED <<line, lines, received, dataClosed, dataChan, wg, endReason>>

ScanFrame == UNCHANGED <<mainVars, handVars, pingVars, writeMutex, clientGone>>

-----------------------------------------------------------------------------
(* The data handler goroutine.                                             *)

HandTakes ==
    /\ hand = "range" /\ hand' = "lock"
    /\ dataChan > 0 /\ dataChan' = dataChan - 1
    /\ UNCHANGED <<quit, handled, stopChan, writeMutex, wg, endReason>>

HandDrained ==
    /\ hand = "range" /\ dataChan = 0 /\ dataClosed
    /\ hand' = "signal" /\ WgDone("hand")
    /\ UNCHANGED <<quit, handled, stopChan, dataChan, writeMutex, endReason>>

HandLocks ==
    /\ hand = "lock" /\ hand' = "handle"
    /\ writeMutex = "free" /\ writeMutex' = "hand"
    /\ handled' = handled + 1
    /\ UNCHANGED <<quit, stopChan, dataChan, wg, endReason>>

\* dataHandler returns: the stream goes on, or it called Stop or Done.
HandReturns ==
    /\ hand = "handle"
    /\ writeMutex' = "free"
    /\ \/ hand' = "range" /\ UNCHANGED <<quit, wg, endReason>>
       \/ /\ \E reason \in {"handler_stop", "done"} : SetEndReason(reason)
          /\ hand' = "signal" /\ WgDone("hand") /\ quit' = "stop"
    /\ UNCHANGED <<handled, stopChan, dataChan>>

\* A panic of dataHandler leaves the mutex locked: Unlock is not deferred.
HandPanics ==
    /\ hand = "handle" /\ hand' = "signal" /\ quit' = "panic"
    /\ WgDone("hand") /\ SetEndReason("panic")
    /\ UNCHANGED <<handled, stopChan, dataChan, writeMutex>>

\* Mutant: a data handler that drained dataChan does not signal.
HandSignalsOnStop ==
    /\ hand = "signal" /\ hand' = "exited"
    /\ IF quit = "no" THEN UNCHANGED stopChan ELSE SafeSendBool
    /\ UNCHANGED <<quit, handled, dataChan, writeMutex, wg, endReason>>

HandSignals ==
    /\ hand = "signal" /\ hand' = "exited"
    /\ SafeSendBool
    /\ UNCHANGED <<quit, handled, dataChan, writeMutex, wg, endReason>>

HandFrame == UNCHANGED <<mainVars, scanVars, pingVars, clientGone>>

-----------------------------------------------------------------------------
(* The ping goroutine and the goroutine it starts for each ping.           *)

\* The clean-up stops pingTicker; until then it may fire.
PingStarts ==
    /\ ping = "select" /\ pings < MaxPings /\ main \in {"wait", "signal"}
    /\ pings' = pings + 1
    /\ ping' = "sending" /\ pinger' = "lock"
    /\ UNCHANGED <<stopChan, writeMutex, wg, endReason>>

PingerLocks ==
    /\ pinger = "lock" /\ pinger' = "write"
    /\ writeMutex = "free" /\ writeMutex' = "pinger"
    /\ UNCHANGED <<ping, pings, stopChan, wg, endReason>>

PingerWrites ==
    /\ pinger = "write"
    /\ pinger' \in IF ping = "sending" THEN {"ok", "failed", "none"} ELSE {"none"}
    /\ writeMutex' = "free"
    /\ UNCHANGED <<ping, pings, stopChan, wg, endReason>>

PingSent ==
    /\ ping = "sending" /\ ping' = "select"
    /\ pinger = "ok" /\ pinger' = "none"
    /\ UNCHANGED <<pings, stopChan, writeMutex, wg, endReason>>

\* The write failed, or ten seconds went by without an answer.  (A panic of
\* the writer gives no answer: it unlocks the mutex and is gone.)
PingFails ==
    /\ ping = "sending" /\ ping' = "exited" /\ WgDone("ping")
    /\ \/ pinger = "failed" /\ pinger' = "none"
       \/ pinger \in {"none", "lock", "write"} /\ UNCHANGED pinger
    /\ SetEndReason("ping_fail")
    /\ UNCHANGED <<pings, stopChan, writeMutex>>

\* The writer of the last ping goes on by itself; an answer it has given is
\* dropped.
LeavesPinger == pinger' = IF pinger \in {"ok", "failed"} THEN "none" ELSE pinger

\* A stop signal, ctx.Done or, between two pings, the client gone or the end of
\* maxPingDuration.
PingEnds ==
    /\ ping \in {"select", "sending"} /\ ping' = "exited" /\ WgDone("ping")
    /\ \/ ReceiveStop
       \/ (ctxDone \/ ping = "select") /\ UNCHANGED stopChan
    /\ LeavesPinger
    /\ UNCHANGED <<pings, writeMutex, endReason>>

\* The ping goroutine panics and recovers: unlike its other ends, this one
\* signals.
PingPanics ==
    /\ ping \in {"select", "sending"} /\ ping' = "signal" /\ WgDone("ping")
    /\ SetEndReason("panic")
    /\ LeavesPinger
    /\ UNCHANGED <<pings, stopChan, writeMutex>>

PingSignals ==
    /\ ping = "signal" /\ ping' = "recovered"
    /\ SafeSendBool
    /\ UNCHANGED <<pinger, pings, writeMutex, wg, endReason>>

PingFrame == UNCHANGED <<mainVars, scanVars, handVars, dataChan, clientGone>>

-----------------------------------------------------------------------------
(* The caller.                                                             *)

\* No line for streamingTimeout, the client gone, or a stop signal. cancel is
\* the first of the deferred functions.
WaitEnds ==
    /\ main = "wait" /\ main' = "signal" /\ ctxDone' = TRUE
    /\ \/ SetEndReason("timeout") /\ UNCHANGED stopChan
       \/ clientGone /\ SetEndReason("client_gone") /\ UNCHANGED stopChan
       \/ ReceiveStop /\ UNCHANGED endReason
    /\ UNCHANGED <<overran, bodyClosed, stopClosed>>

\* The other deferred functions, last first: the stop signal and the tickers;
\* the wait group for at most five seconds; close(stopChan); the body.
MainSignals ==
    /\ main = "signal" /\ main' = "join"
    /\ SafeSendBool
    /\ UNCHANGED <<overran, bodyClosed, stopClosed, ctxDone, endReason>>

\* Mutant: only the scanner is waited for.
MainJoinsScanner ==
    /\ main = "join" /\ main' = "close"
    /\ overran' = ("scan" \in wg)
    /\ UNCHANGED <<bodyClosed, stopClosed, ctxDone, stopChan, endReason>>

MainJoins ==
    /\ main = "join" /\ main' = "close"
    /\ overran' = (wg # {})
    /\ UNCHANGED <<bodyClosed, stopClosed, ctxDone, stopChan, endReason>>

\* Mutant: the body is not closed.
MainLeavesBody ==
    /\ main = "close" /\ main' = "returned"
    /\ stopClosed' = TRUE
    /\ UNCHANGED <<overran, bodyClosed, ctxDone, stopChan, endReason>>

MainCloses ==
    /\ main = "close" /\ main' = "returned"
    /\ stopClosed' = TRUE /\ bodyClosed' = TRUE
    /\ UNCHANGED <<overran, ctxDone, stopChan, endReason>>

MainFrame == UNCHANGED <<scanVars, handVars, pingVars, dataChan, writeMutex, wg, clientGone>>

clientLeaves ==
    /\ ~ clientGone /\ clientGone' = TRUE
    /\ UNCHANGED <<mainVars, scanVars, handVars, pingVars, stopChan, dataChan, writeMutex,
                   wg, endReason>>

-----------------------------------------------------------------------------
\* What each goroutine does once it can; the upstream, which may stall for ever
\* on an open body, and the writes to the client are apart.
ScannerMoves ==
    /\ \/ ScanStopped \/ ScanTakes \/ ScanQueues \/ ScanLeaves \/ ScanPanicked \/ ScanSignals
       \/ bodyClosed /\ ScanEnds("scanner_error")
    /\ ScanFrame
Upstream ==
    /\ ScanLine \/ ScanPanics \/ \E reason \in {"eof", "scanner_error"} : ScanEnds(reason)
    /\ ScanFrame
HandlerMoves == (HandTakes \/ HandDrained \/ HandSignals) /\ HandFrame
HandlerLocks == HandLocks /\ HandFrame
HandlerWritten == (HandReturns \/ HandPanics) /\ HandFrame
PingMoves == (PingSent \/ PingFails \/ PingEnds \/ PingSignals) /\ PingFrame
PingLocks == PingerLocks /\ PingFrame
PingWritten == PingerWrites /\ PingFrame
MainMoves == (WaitEnds \/ MainSignals \/ MainJoins \/ MainCloses) /\ MainFrame

Next ==
    \/ ScannerMoves \/ Upstream
    \/ HandlerMoves \/ HandlerLocks \/ HandlerWritten
    \/ PingMoves \/ ((PingStarts \/ PingPanics) /\ PingFrame) \/ PingLocks \/ PingWritten
    \/ MainMoves \/ clientLeaves

Spec == Init /\ [][Next]_vars

\* Goroutines that can go on do, a goroutine waiting for the mutex gets it, and
\* time passes, so timeouts come. A write to the client may block for ever:
\* that it does not is asked only where a property says so.
Fairness ==
    /\ WF_vars(ScannerMoves) /\ WF_vars(HandlerMoves) /\ WF_vars(PingMoves) /\ WF_vars(MainMoves)
    /\ SF_vars(HandlerLocks) /\ SF_vars(PingLocks)
WritesReturn == WF_vars(HandlerWritten) /\ WF_vars(PingWritten)

FairSpec == Spec /\ Fairness

-----------------------------------------------------------------------------
(* Properties.                                                             *)

\* "EndReason already set by the goroutine that triggered stopChan": when the
\* wait is over there is a reason for the end, whoever ended it. A panic of the
\* scanner is the exception: it closes dataChan, which ends the data handler
\* and the wait, before it sets its reason.
ReasonBeforeCleanUp == main # "wait" => endReason # NoReason \/ scan = "panicked"

\* stopChan is read by the caller, the scanner and the ping goroutine: a signal
\* one of them takes must not leave the caller waiting for the timeout when the
\* stream is over. Only a stop or a panic of the data handler, with pings on,
\* can lose the last signal.
NoLostWakeUp ==
    main = "wait" /\ scan = "exited" /\ hand = "exited" /\ stopChan = 0 =>
        quit # "no" /\ ping = "exited"

\* A stream that ended with [DONE] or with the end of the body is relayed to
\* the last chunk before StreamScannerHandler returns and usage is computed,
\* unless dataHandler itself stopped or the clean-up ran out of time.
AllChunksHandled ==
    main = "returned" /\ endReason \in {"done", "eof"} /\ quit = "no" /\ ~ overran =>
        handled = received /\ dataChan = 0

\* StreamScannerHandler returns, with an upstream that stalls and a client
\* write that never comes back: no send into stopChan blocks the clean-up,
\* unless a ping goroutine that panicked has taken the room in stopChan that
\* was left for it.
HandlerReturns ==
    \/ <>(main = "returned")
    \/ <>[](main = "signal" /\ ping = "recovered" /\ stopChan = StopCap)

\* stopChan: its buffer was enlarged "to avoid blocking", so that the handler
\* always returns.  (It is not so: see StreamBlocked.cfg.)
BufferAvoidsBlocking == <>(main = "returned")

\* No goroutine of a stream stays behind, even when the upstream stalls and
\* chunks wait for a data handler that has gone; except the writer of a ping
\* when a panic left the mutex locked.
NoGoroutineStays ==
    WritesReturn =>
        <>[](/\ scan = "exited" /\ hand = "exited"
             /\ ping \in {"off", "exited", "recovered"}
             /\ quit = "panic" \/ pinger = "none")

=============================================================================
