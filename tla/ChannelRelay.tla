----------------------------- MODULE ChannelRelay -----------------------------
(***************************************************************************)
(* A relayed request picks a channel from the memory cache, calls it and,  *)
(* when the call fails, picks again: priority by priority and, with the    *)
(* "auto" token group, group by group.  Meanwhile failing channels are     *)
(* disabled by goroutines, tests enable them again, and the cache is       *)
(* rebuilt from the database from time to time.                            *)
(* One request is followed; what the others do to the channels is the      *)
(* action otherReport.                                                     *)
(***************************************************************************)
EXTENDS Naturals, Sequences, FiniteSets

CONSTANTS
    AutoGroups,   \* the groups the "auto" token group stands for, in order
    Channels,
    Group,        \* Group[c] : the group of channel c
    Priority,     \* Priority[c]
    Weight,       \* Weight[c]
    RetryTimes,   \* common.RetryTimes
    AutomaticDisableChannelEnabled,
    AutoBan,      \* the channels that may be disabled automatically
    NoChannel,
    MaxReports,   \* bound on the status changes other requests and tests ask for
    MaxDBFaults   \* bound on failing database updates

Groups == {AutoGroups[i] : i \in 1 .. Len(AutoGroups)}

ASSUME RelayAssumption ==
    /\ AutoGroups \in Seq(Groups) /\ AutoGroups # <<>>
    /\ \A a, b \in 1 .. Len(AutoGroups) : AutoGroups[a] = AutoGroups[b] => a = b
    /\ Group \in [Channels -> Groups] /\ Priority \in [Channels -> Nat]
    /\ Weight \in [Channels -> Nat] /\ RetryTimes \in Nat /\ NoChannel \notin Channels
    /\ AutomaticDisableChannelEnabled \in BOOLEAN /\ AutoBan \subseteq Channels
    /\ MaxReports \in Nat /\ MaxDBFaults \in Nat

ASSUME FinitelyManyChannels == IsFiniteSet(Channels)

Kinds == {"group", "auto", "cross"}
Statuses == {"enabled", "disabled"}
Cached == Statuses \cup {"absent"}
Updates == [channel : Channels, status : Statuses]

VARIABLES
    kind,            \* the token: one group, "auto", "auto" with crossGroupRetry
    pc,              \* where the request is
    retry,           \* RetryParam.Retry
    resetNextTry,    \* RetryParam.resetNextTry
    autoGroupIndex,  \* ContextKeyAutoGroupIndex, from 1
    channel,         \* the channel in use
    usingGroup,      \* RelayInfo.UsingGroup, whose ratio prices the request
    tried,           \* the channels called, in order
    cached,          \* the channels in group2model2channels
    cacheStatus,     \* channelsIDM[c].Status, or "absent"
    db,              \* the status column
    snapshot,        \* the rows InitChannelCache has read and not yet swapped in
    updates,         \* the goroutines about to call UpdateChannelStatus
    update,          \* the one that holds channelStatusLock, after the cache part
    reports, faults, \* what the bounds count
    raced,           \* channels the last swap took from rows that were out of date
    disturbed        \* the channels on offer changed since the request came

reqVars == <<kind, pc, retry, resetNextTry, autoGroupIndex, channel, usingGroup, tried>>
cacheVars == <<cached, cacheStatus, db, snapshot, update, faults, raced>>
vars == <<reqVars, cacheVars, updates, reports, disturbed>>

NoRows == <<>>
NoUpdate == <<>>

\* The shape of the request's context, the cache and the pending updates.
TypeOK ==
    /\ kind \in Kinds
    /\ pc \in {"distribute", "select", "call", "answered", "failed", "refused"}
    /\ retry \in 0 .. RetryTimes + 1 /\ resetNextTry \in BOOLEAN
    /\ autoGroupIndex \in 1 .. Len(AutoGroups) + 1
    /\ channel \in Channels \cup {NoChannel} /\ usingGroup \in Groups
    /\ tried \in Seq(Channels)
    /\ cached \subseteq Channels
    /\ cacheStatus \in [Channels -> Cached] /\ db \in [Channels -> Statuses]
    /\ snapshot \in [Channels -> Cached] \cup {NoRows}
    /\ updates \subseteq Updates /\ update \in Updates \cup {NoUpdate}
    /\ reports \in 0 .. MaxReports /\ faults \in 0 .. MaxDBFaults
    /\ raced \subseteq Channels /\ disturbed \in BOOLEAN

Enabled(status) == {c \in Channels : status[c] = "enabled"}

Init ==
    /\ kind \in Kinds
    /\ pc = "distribute" /\ retry = 0 /\ resetNextTry = FALSE /\ autoGroupIndex = 1
    /\ channel = NoChannel /\ usingGroup = AutoGroups[1] /\ tried = <<>>
    /\ db = [c \in Channels |-> "enabled"]
    /\ cacheStatus = db /\ cached = Channels
    /\ snapshot = NoRows /\ updates = {} /\ update = NoUpdate
    /\ reports = 0 /\ faults = 0 /\ raced = {} /\ disturbed = FALSE

-----------------------------------------------------------------------------
(* Choosing a channel.                                                     *)

InGroup(g) == {c \in cached : Group[c] = g}

\* sortedUniquePriorities: the rank of a channel's priority in its group, from 0.
Rank(c, cs) == Cardinality({Priority[d] : d \in {e \in cs : Priority[e] > Priority[c]}})
Ranks(cs) == Cardinality({Priority[c] : c \in cs})

\* The channels GetRandomSatisfiedChannel may return at a retry count: those of
\* the priority of that rank, or of the lowest when the count is past it. A
\* channel of weight 0 is drawn only when all weigh 0.
GetRandomSatisfiedChannel(g, n) ==
    LET cs == InGroup(g)
        rank == IF n >= Ranks(cs) THEN Ranks(cs) - 1 ELSE n
        target == {c \in cs : Rank(c, cs) = rank}
    IN  IF \A c \in target : Weight[c] = 0 THEN target
        ELSE {c \in target : Weight[c] > 0}

\* The walk of a request over its groups: a token of one group has the first.
Last == IF kind = "group" THEN 1 ELSE Len(AutoGroups)

\* Mutant: the next group one try too early.
SwitchesEarly == kind = "cross" /\ retry + 1 >= RetryTimes

Switches == kind = "cross" /\ retry >= RetryTimes

\* CacheGetRandomSatisfiedChannel, one group of its loop: a group with nothing
\* to offer is left and the retry count starts again; otherwise a channel is
\* taken, with HandleGroupRatio and SetupContextForSelectedChannel after it,
\* and with crossGroupRetry the next try goes to the next group when this one
\* has had its tries.
LeaveGroup ==
    /\ autoGroupIndex <= Last
    /\ GetRandomSatisfiedChannel(AutoGroups[autoGroupIndex], retry) = {}
    /\ autoGroupIndex' = autoGroupIndex + 1
    /\ retry' = 0
    /\ UNCHANGED <<kind, pc, resetNextTry, channel, usingGroup, tried>>

\* Mutant: the count starts again in the same group.
TakeStaysInGroup ==
    \E c \in GetRandomSatisfiedChannel(AutoGroups[autoGroupIndex], retry) :
        /\ channel' = c /\ usingGroup' = Group[c]
        /\ IF Switches
             THEN retry' = 0 /\ resetNextTry' = TRUE
             ELSE UNCHANGED <<retry, resetNextTry>>
        /\ UNCHANGED autoGroupIndex
        /\ pc' = "call"
        /\ UNCHANGED <<kind, tried>>

Take ==
    \E c \in GetRandomSatisfiedChannel(AutoGroups[autoGroupIndex], retry) :
        /\ channel' = c /\ usingGroup' = Group[c]
        /\ IF Switches
             THEN retry' = 0 /\ resetNextTry' = TRUE /\ autoGroupIndex' = autoGroupIndex + 1
             ELSE UNCHANGED <<retry, resetNextTry, autoGroupIndex>>
        /\ pc' = "call"
        /\ UNCHANGED <<kind, tried>>

\* Mutant: no error when nothing is left.
ExhaustedWaits(outcome) ==
    /\ autoGroupIndex > Last
    /\ UNCHANGED reqVars

Exhausted(outcome) ==
    /\ autoGroupIndex > Last
    /\ pc' = outcome /\ channel' = NoChannel
    /\ UNCHANGED <<kind, retry, resetNextTry, autoGroupIndex, usingGroup, tried>>

\* The distributor picks the first channel with a RetryParam of its own: what
\* it leaves in retry and resetNextTry is not seen by Relay.
Distribute ==
    /\ pc = "distribute"
    /\ \/ LeaveGroup \/ Exhausted("refused")
       \/ /\ autoGroupIndex <= Last
          /\ \E c \in GetRandomSatisfiedChannel(AutoGroups[autoGroupIndex], 0) :
                /\ channel' = c /\ usingGroup' = Group[c]
          /\ autoGroupIndex' = IF Switches THEN autoGroupIndex + 1 ELSE autoGroupIndex
          /\ pc' = "call"
          /\ UNCHANGED <<kind, retry, resetNextTry, tried>>
    /\ UNCHANGED <<cacheVars, updates, reports, disturbed>>

getChannel ==
    /\ pc = "select"
    /\ LeaveGroup \/ Exhausted("failed") \/ (autoGroupIndex <= Last /\ Take)
    /\ UNCHANGED <<cacheVars, updates, reports, disturbed>>

-----------------------------------------------------------------------------
(* The retry loop of Relay.                                                *)

Answer ==
    /\ pc = "call" /\ pc' = "answered"
    /\ tried' = Append(tried, channel)
    /\ UNCHANGED <<kind, retry, resetNextTry, autoGroupIndex, channel, usingGroup>>
    /\ UNCHANGED <<cacheVars, updates, reports, disturbed>>

\* shouldRetry: a channel error is always worth another try, an error with a
\* status code for retries while tries are left, others never.
shouldRetry(error) ==
    \/ error = "channel"
    \/ error = "status" /\ RetryTimes - retry > 0

IncreaseRetry ==
    /\ retry' = IF resetNextTry THEN retry ELSE retry + 1
    /\ resetNextTry' = FALSE

\* The error of the call disables the channel: it is a channel error, or its
\* status code or its words are among those that do (matches).
ShouldDisableChannel(error, matches) ==
    AutomaticDisableChannelEnabled /\ (error = "channel" \/ matches)

\* The call fails: processChannelError may start a goroutine that disables the
\* channel; then the loop goes on or ends.
Fail(error, matches) ==
    /\ pc = "call"
    /\ tried' = Append(tried, channel)
    /\ updates' = IF ShouldDisableChannel(error, matches) /\ channel \in AutoBan
                  THEN updates \cup {[channel |-> channel, status |-> "disabled"]}
                  ELSE updates
    /\ IF shouldRetry(error)
         THEN IncreaseRetry /\ pc' = IF retry' <= RetryTimes THEN "select" ELSE "failed"
         ELSE pc' = "failed" /\ UNCHANGED <<retry, resetNextTry>>
    /\ UNCHANGED <<kind, autoGroupIndex, channel, usingGroup, cacheVars, reports, disturbed>>

-----------------------------------------------------------------------------
(* The status of channels: the cache and the database.                     *)

\* Another request, the balance check, a channel test or an administrator
\* disables or enables.
otherReport ==
    /\ reports < MaxReports /\ reports' = reports + 1
    /\ \E u \in Updates : updates' = updates \cup {u}
    /\ UNCHANGED <<reqVars, cacheVars, disturbed>>

\* Mutant: a disabled channel stays in the lists.
KeepInList(c, status) ==
    /\ cacheStatus' = [cacheStatus EXCEPT ![c] = status]
    /\ UNCHANGED cached

\* A channel that is not enabled leaves the lists; one that is enabled again
\* comes back with the next rebuild.
CacheUpdateChannelStatus(c, status) ==
    /\ cacheStatus' = [cacheStatus EXCEPT ![c] = status]
    /\ cached' = IF status = "enabled" THEN cached ELSE cached \ {c}

Started == pc # "distribute" \/ autoGroupIndex > 1

\* UpdateChannelStatus: under channelStatusLock the cache, then the row. A
\* channel the cache does not know, or has in that status already, is left
\* alone.
updateCache ==
    /\ update = NoUpdate
    /\ \E u \in updates :
        /\ updates' = updates \ {u}
        /\ IF cacheStatus[u.channel] \in {"absent", u.status}
             THEN UNCHANGED <<cached, cacheStatus, update>>
             ELSE CacheUpdateChannelStatus(u.channel, u.status) /\ update' = u
    /\ disturbed' = (disturbed \/ (Started /\ cached' # cached))
    /\ UNCHANGED <<reqVars, db, snapshot, reports, faults, raced>>

\* GetChannelById and SaveWithoutKey, either of which may fail.
updateRow ==
    /\ update # NoUpdate /\ update' = NoUpdate
    /\ \/ db' = [db EXCEPT ![update.channel] = update.status] /\ UNCHANGED faults
       \/ faults < MaxDBFaults /\ faults' = faults + 1 /\ UNCHANGED db
    /\ UNCHANGED <<reqVars, cached, cacheStatus, snapshot, updates, reports, raced, disturbed>>

\* InitChannelCache: the rows are read without a lock and swapped in later. The
\* error of the query is not looked at: one that fails yields no rows.
readRows ==
    /\ snapshot = NoRows
    /\ \/ snapshot' = db /\ UNCHANGED faults
       \/ /\ faults < MaxDBFaults /\ faults' = faults + 1
          /\ snapshot' = [c \in Channels |-> "absent"]
    /\ UNCHANGED <<reqVars, cached, cacheStatus, db, updates, update, reports, raced,
                   disturbed>>

\* Mutant: a channel that is back is not listed again.
swapListOnly ==
    /\ snapshot # NoRows /\ snapshot' = NoRows
    /\ cached' = cached \cap Enabled(snapshot) /\ cacheStatus' = snapshot
    /\ raced' = {c \in Channels : snapshot[c] # db[c] \/ (update # NoUpdate /\ update.channel = c)}
    /\ disturbed' = (disturbed \/ (Started /\ cached' # cached))
    /\ UNCHANGED <<reqVars, db, updates, update, reports, faults>>

swapRows ==
    /\ snapshot # NoRows /\ snapshot' = NoRows
    /\ cached' = Enabled(snapshot) /\ cacheStatus' = snapshot
    /\ raced' = {c \in Channels : snapshot[c] # db[c] \/ (update # NoUpdate /\ update.channel = c)}
    /\ disturbed' = (disturbed \/ (Started /\ cached' # cached))
    /\ UNCHANGED <<reqVars, db, updates, update, reports, faults>>

-----------------------------------------------------------------------------
Relay ==
    \/ Distribute \/ getChannel \/ Answer
    \/ \E error \in {"channel", "status", "final"}, matches \in BOOLEAN : Fail(error, matches)

Next == Relay \/ otherReport \/ updateCache \/ updateRow \/ readRows \/ swapRows

Spec == Init /\ [][Next]_vars

\* A call answers or fails in the end, goroutines run, SyncChannelCache goes
\* round for ever.
FairSpec ==
    /\ Spec /\ WF_vars(Relay) /\ WF_vars(updateCache) /\ WF_vars(updateRow)
    /\ WF_vars(readRows) /\ WF_vars(swapRows)

-----------------------------------------------------------------------------
(* Properties.                                                             *)

TriedIn(g) == {i \in 1 .. Len(tried) : Group[tried[i]] = g}

\* The retry loop's bound is a counter the selection sets back to 0: even so
\* the groups are called in their order, none again once it was left, and each
\* at most RetryTimes + 1 times, whatever becomes of their channels.
WalkInOrder ==
    /\ \A g \in Groups : Cardinality(TriedIn(g)) <= RetryTimes + 1
    /\ \A i, j \in 1 .. Len(tried) : \A a, b \in 1 .. Len(AutoGroups) :
           i < j /\ Group[tried[i]] = AutoGroups[a] /\ Group[tried[j]] = AutoGroups[b] => a <= b

\* When the request has left a group for the next one, or has tried all, each
\* of its first RetryTimes + 1 priorities was called, while no channel has come
\* or gone in the meantime.
ExhaustsPriorities ==
    kind = "cross" /\ ~ disturbed /\ channel # NoChannel =>
        \A g \in Groups, h \in Groups :
            Group[channel] = h /\ (\E a, b \in 1 .. Len(AutoGroups) :
                                       a < b /\ AutoGroups[a] = g /\ AutoGroups[b] = h) =>
                \A c \in InGroup(g) : Rank(c, InGroup(g)) <= RetryTimes =>
                    \E i \in TriedIn(g) : Priority[tried[i]] = Priority[c]

\* "Each group will exhaust all its priorities before moving to the next
\* group", as the comment has it: not only the first RetryTimes + 1.
ExhaustsAllPriorities ==
    kind = "cross" /\ ~ disturbed /\ pc = "call" =>
        \A a, b \in 1 .. Len(AutoGroups) :
            a < b /\ Group[channel] = AutoGroups[b] =>
                \A c \in InGroup(AutoGroups[a]) :
                    \E i \in TriedIn(AutoGroups[a]) : Priority[tried[i]] = Priority[c]

\* A channel whose row says disabled is on offer only when the last rebuild
\* overlapped the update that disabled it.
DisabledOnlyByRace ==
    \A c \in cached : db[c] = "disabled" /\ update = NoUpdate => c \in raced

\* The retry loop ends, although the selection resets its counter.
RequestEnds == <>(pc \in {"answered", "failed", "refused"})

\* When no more updates come, the channels on offer become and stay the ones
\* the database has enabled, whatever raced or failed before.
CacheConverges == <>[](updates = {} /\ cached = Enabled(db))

=============================================================================
