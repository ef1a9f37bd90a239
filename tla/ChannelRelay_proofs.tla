-------------------------- MODULE ChannelRelay_proofs --------------------------
(***************************************************************************)
(* Proofs about ChannelRelay, for any groups, channels, priorities,        *)
(* weights and number of retries.                                          *)
(***************************************************************************)
EXTENDS ChannelRelay, FiniteSetTheorems, WellFoundedInduction, TLAPS

-----------------------------------------------------------------------------
(* The inductive invariants.                                               *)

Walk == 1 .. Len(AutoGroups)
From(a) == Group[channel] = AutoGroups[a]
Tries(a) == Cardinality(TriedIn(AutoGroups[a]))

\* Where the request is in its walk.  The channel in use comes from the group
\* the index points at or, when the selection has moved the index on, from the
\* one before: then the count has been set back, and the coming increment is
\* skipped, unless there are no retries at all.
Position ==
    /\ pc = "distribute" => retry = 0 /\ ~ resetNextTry /\ tried = <<>>
    /\ pc = "select" => retry <= RetryTimes /\ ~ resetNextTry
    /\ pc = "call" =>
         /\ channel \in Channels /\ retry <= RetryTimes
         /\ \/ autoGroupIndex \in Walk /\ From(autoGroupIndex) /\ ~ resetNextTry
            \/ /\ autoGroupIndex - 1 \in Walk /\ From(autoGroupIndex - 1)
               /\ retry = 0 /\ (resetNextTry \/ RetryTimes = 0)

\* No group after the current one was called, and none after the one in use.
Reached ==
    \A i \in 1 .. Len(tried) : \A a \in Walk :
        Group[tried[i]] = AutoGroups[a] =>
            /\ a <= autoGroupIndex
            /\ pc = "call" => \A b \in Walk : From(b) => a <= b

InOrder ==
    \A i, j \in 1 .. Len(tried) : \A a, b \in Walk :
        i < j /\ Group[tried[i]] = AutoGroups[a] /\ Group[tried[j]] = AutoGroups[b] => a <= b

\* The retry count bounds the calls to the current group, which is why setting
\* it back is harmless once the group is left.
Counted ==
    \A a \in Walk :
        /\ Tries(a) <= RetryTimes + 1
        /\ pc \in {"select", "call"} /\ a = autoGroupIndex => Tries(a) <= retry
        /\ pc = "call" /\ From(a) => Tries(a) <= RetryTimes

WalkInv == TypeOK /\ Position /\ Reached /\ InOrder /\ Counted

\* A channel that is disabled, or about to be, is on offer only when the last
\* rebuild overlapped the update.
Disabling(c) == update # NoUpdate /\ update.channel = c /\ update.status = "disabled"
CacheInv == \A c \in cached : db[c] = "disabled" \/ Disabling(c) => c \in raced

-----------------------------------------------------------------------------
(* The constants, and what the selection may return.                       *)

LEMMA WalkFacts ==
  /\ Len(AutoGroups) \in Nat /\ 1 \in Walk
  /\ \A a \in Walk : AutoGroups[a] \in Groups
  /\ \A a, b \in Walk : AutoGroups[a] = AutoGroups[b] => a = b
<1>1. Len(AutoGroups) \in Nat /\ Len(AutoGroups) # 0
  BY RelayAssumption
<1> QED
  BY <1>1, RelayAssumption DEF Walk, Groups

LEMMA LastInWalk == TypeOK => Last \in Walk
  BY WalkFacts DEF Last, Walk, TypeOK

\* A channel on offer is a channel of the group asked for.
LEMMA OfferedFromGroup ==
  ASSUME TypeOK, NEW g, NEW n, NEW c \in GetRandomSatisfiedChannel(g, n)
  PROVE  c \in Channels /\ Group[c] = g
<1>1. c \in InGroup(g)
  BY DEF GetRandomSatisfiedChannel
<1> QED
  BY <1>1 DEF InGroup, TypeOK

\* One more call is one more try of the channel's group.
LEMMA OneMoreTry ==
  ASSUME tried \in Seq(Channels), NEW c \in Channels, tried' = Append(tried, c)
  PROVE  /\ Len(tried) \in Nat /\ Len(tried') = Len(tried) + 1
         /\ \A i \in 1 .. Len(tried) : tried'[i] = tried[i]
         /\ tried'[Len(tried) + 1] = c
  OBVIOUS

LEMMA TriesAreCounted ==
  ASSUME tried \in Seq(Channels), NEW g
  PROVE  IsFiniteSet(TriedIn(g)) /\ Cardinality(TriedIn(g)) \in Nat
<1>1. Len(tried) \in Nat
  OBVIOUS
<1>2. IsFiniteSet(1 .. Len(tried))
  BY <1>1, FS_Interval
<1>3. TriedIn(g) \subseteq 1 .. Len(tried)
  BY DEF TriedIn
<1>4. IsFiniteSet(TriedIn(g))
  BY <1>2, <1>3, FS_Subset
<1> QED
  BY <1>4, FS_CardinalityType

LEMMA TriesGrow ==
  ASSUME tried \in Seq(Channels), NEW c \in Channels, tried' = Append(tried, c), NEW a
  PROVE  /\ Group[c] = AutoGroups[a] => Tries(a)' = Tries(a) + 1
         /\ Group[c] # AutoGroups[a] => Tries(a)' = Tries(a)
<1> DEFINE g == AutoGroups[a]
<1>1. CASE Group[c] = g
  <2>1. TriedIn(g)' = TriedIn(g) \cup {Len(tried) + 1}
    BY <1>1, OneMoreTry DEF TriedIn
  <2>2. Len(tried) + 1 \notin TriedIn(g)
    BY OneMoreTry DEF TriedIn
  <2>3. Cardinality(TriedIn(g) \cup {Len(tried) + 1}) = Cardinality(TriedIn(g)) + 1
    BY <2>2, TriesAreCounted, FS_AddElement
  <2> QED
    BY <1>1, <2>1, <2>3 DEF Tries
<1>2. CASE Group[c] # g
  <2>1. TriedIn(g)' = TriedIn(g)
    BY <1>2, OneMoreTry DEF TriedIn
  <2> QED
    BY <1>2, <2>1 DEF Tries
<1> QED
  BY <1>1, <1>2

LEMMA TriesStay == ASSUME tried' = tried, NEW a PROVE Tries(a)' = Tries(a)
  BY DEF Tries, TriedIn

-----------------------------------------------------------------------------
(* The types.                                                              *)

LEMMA InitTypes == Init => TypeOK
<1> SUFFICES ASSUME Init PROVE TypeOK
  OBVIOUS
<1>1. /\ kind \in Kinds /\ retry \in 0 .. RetryTimes + 1
      /\ autoGroupIndex \in 1 .. Len(AutoGroups) + 1 /\ usingGroup \in Groups
  BY RelayAssumption, WalkFacts DEF Init, Walk
<1>2. cacheStatus \in [Channels -> Cached] /\ db \in [Channels -> Statuses]
  BY DEF Init, Cached, Statuses
<1>3. reports \in 0 .. MaxReports /\ faults \in 0 .. MaxDBFaults
  BY RelayAssumption DEF Init
<1>4. channel \in Channels \cup {NoChannel} /\ tried \in Seq(Channels)
  BY DEF Init
<1>5. /\ pc \in {"distribute", "select", "call", "answered", "failed", "refused"}
      /\ resetNextTry \in BOOLEAN /\ disturbed \in BOOLEAN
  BY DEF Init
<1>6. /\ cached \subseteq Channels /\ raced \subseteq Channels /\ updates \subseteq Updates
      /\ update \in Updates \cup {NoUpdate} /\ snapshot \in [Channels -> Cached] \cup {NoRows}
  BY Zenon DEF Init
<1> QED
  BY <1>1, <1>2, <1>3, <1>4, <1>5, <1>6 DEF TypeOK

\* What the request keeps when it is not its turn, and the other way round.
LEMMA RequestKept ==
  UNCHANGED reqVars => /\ kind' = kind /\ pc' = pc /\ retry' = retry
                       /\ resetNextTry' = resetNextTry /\ autoGroupIndex' = autoGroupIndex
                       /\ channel' = channel /\ usingGroup' = usingGroup /\ tried' = tried
  BY DEF reqVars

LEMMA CacheKept ==
  UNCHANGED cacheVars => /\ cached' = cached /\ cacheStatus' = cacheStatus /\ db' = db
                         /\ snapshot' = snapshot /\ update' = update /\ faults' = faults
                         /\ raced' = raced
  BY DEF cacheVars

\* The types of the request and those of the channels, apart.
RequestTypes ==
    /\ kind \in Kinds
    /\ pc \in {"distribute", "select", "call", "answered", "failed", "refused"}
    /\ retry \in 0 .. RetryTimes + 1 /\ resetNextTry \in BOOLEAN
    /\ autoGroupIndex \in 1 .. Len(AutoGroups) + 1
    /\ channel \in Channels \cup {NoChannel} /\ usingGroup \in Groups
    /\ tried \in Seq(Channels)
CacheTypes ==
    /\ cached \subseteq Channels
    /\ cacheStatus \in [Channels -> Cached] /\ db \in [Channels -> Statuses]
    /\ snapshot \in [Channels -> Cached] \cup {NoRows}
    /\ update \in Updates \cup {NoUpdate}
    /\ faults \in 0 .. MaxDBFaults /\ raced \subseteq Channels
OtherTypes ==
    /\ updates \subseteq Updates /\ reports \in 0 .. MaxReports /\ disturbed \in BOOLEAN

LEMMA TypesApart == TypeOK <=> RequestTypes /\ CacheTypes /\ OtherTypes
  BY DEF TypeOK, RequestTypes, CacheTypes, OtherTypes

LEMMA TypesTogether == RequestTypes' /\ CacheTypes' /\ OtherTypes' => TypeOK'
  BY DEF TypeOK, RequestTypes, CacheTypes, OtherTypes

LEMMA LeaveGroupTypes == TypeOK /\ LeaveGroup => RequestTypes'
  BY LastInWalk, WalkFacts, RelayAssumption DEF TypeOK, RequestTypes, LeaveGroup, Walk

LEMMA ExhaustedTypes ==
  ASSUME TypeOK, NEW outcome \in {"failed", "refused"}, Exhausted(outcome) PROVE RequestTypes'
  BY DEF TypeOK, RequestTypes, Exhausted

LEMMA RequestStepTypes ==
  ASSUME WalkInv, Relay
  PROVE  RequestTypes'
<1> USE DEF WalkInv
<1>1. CASE Distribute
  <2>1. CASE LeaveGroup
    BY <2>1, LeaveGroupTypes
  <2>2. CASE Exhausted("refused")
    BY <2>2, ExhaustedTypes
  <2>3. ASSUME autoGroupIndex <= Last,
               NEW c \in GetRandomSatisfiedChannel(AutoGroups[autoGroupIndex], 0),
               channel' = c, usingGroup' = Group[c], pc' = "call",
               autoGroupIndex' = IF Switches THEN autoGroupIndex + 1 ELSE autoGroupIndex,
               UNCHANGED <<kind, retry, resetNextTry, tried>>
        PROVE  RequestTypes'
    <3>1. autoGroupIndex' \in 1 .. Len(AutoGroups) + 1
      BY <2>3, LastInWalk, WalkFacts DEF TypeOK, Walk
    <3>2. c \in Channels /\ Group[c] \in Groups
      BY OfferedFromGroup, RelayAssumption
    <3> QED
      BY <2>3, <3>1, <3>2 DEF TypeOK, RequestTypes
  <2> QED
    BY <1>1, <2>1, <2>2, <2>3 DEF Distribute
<1>2. CASE getChannel
  <2>1. CASE LeaveGroup
    BY <2>1, LeaveGroupTypes
  <2>2. CASE Exhausted("failed")
    BY <2>2, ExhaustedTypes
  <2>3. CASE autoGroupIndex <= Last /\ Take
    <3>1. PICK c \in GetRandomSatisfiedChannel(AutoGroups[autoGroupIndex], retry) :
            /\ channel' = c /\ usingGroup' = Group[c]
            /\ IF Switches
                 THEN retry' = 0 /\ resetNextTry' = TRUE /\ autoGroupIndex' = autoGroupIndex + 1
                 ELSE UNCHANGED <<retry, resetNextTry, autoGroupIndex>>
            /\ pc' = "call"
            /\ UNCHANGED <<kind, tried>>
      BY <2>3 DEF Take
    <3>2. autoGroupIndex' \in 1 .. Len(AutoGroups) + 1
      BY <2>3, <3>1, LastInWalk, WalkFacts DEF TypeOK, Walk
    <3>5. retry' \in 0 .. RetryTimes + 1
      BY <3>1, RelayAssumption DEF TypeOK
    <3>3. c \in Channels /\ Group[c] \in Groups
      BY OfferedFromGroup, RelayAssumption
    <3>4. resetNextTry' \in BOOLEAN
      BY <3>1 DEF TypeOK
    <3> QED
      BY <3>1, <3>2, <3>3, <3>4, <3>5 DEF TypeOK, RequestTypes
  <2> QED
    BY <1>2, <2>1, <2>2, <2>3 DEF getChannel
<1>3. CASE Answer
  BY <1>3 DEF Answer, TypeOK, RequestTypes, Position
<1>4. ASSUME NEW error, NEW matches \in BOOLEAN, Fail(error, matches) PROVE RequestTypes'
  <2>1. retry' \in 0 .. RetryTimes + 1
    BY <1>4, RelayAssumption DEF Fail, IncreaseRetry, TypeOK, Position
  <2>2. resetNextTry' \in BOOLEAN
    BY <1>4 DEF Fail, IncreaseRetry, TypeOK
  <2>3. tried' \in Seq(Channels)
    BY <1>4 DEF Fail, TypeOK, Position
  <2>4. pc' \in {"select", "failed"} 
    BY <1>4 DEF Fail
  <2> QED
    BY <1>4, <2>1, <2>2, <2>3, <2>4 DEF Fail, TypeOK, RequestTypes
<1> QED
  BY <1>1, <1>2, <1>3, <1>4 DEF Relay

LEMMA RelayStepTypes == ASSUME WalkInv, Relay PROVE TypeOK'
<1>1. CASE Distribute \/ getChannel \/ Answer
  <2>1. UNCHANGED cacheVars /\ updates' = updates /\ reports' = reports /\ disturbed' = disturbed
    BY <1>1 DEF Distribute, getChannel, Answer
  <2> QED
    BY <2>1, RequestStepTypes, CacheKept, TypesApart, TypesTogether DEF WalkInv, CacheTypes, OtherTypes
<1>2. ASSUME NEW error, NEW matches \in BOOLEAN, Fail(error, matches) PROVE TypeOK'
  <2>1. UNCHANGED cacheVars /\ reports' = reports /\ disturbed' = disturbed
    BY <1>2 DEF Fail
  <2>2. [channel |-> channel, status |-> "disabled"] \in Updates
    BY <1>2 DEF WalkInv, Fail, Position, Updates, Statuses
  <2>3. updates' \subseteq Updates
    BY <1>2, <2>2 DEF Fail, WalkInv, TypeOK
  <2> QED
    BY <2>1, <2>3, RequestStepTypes, CacheKept, TypesApart, TypesTogether DEF WalkInv, CacheTypes, OtherTypes
<1> QED
  BY <1>1, <1>2 DEF Relay

LEMMA OtherStepTypes ==
  ASSUME TypeOK, otherReport \/ updateCache \/ updateRow \/ readRows \/ swapRows
  PROVE  TypeOK'
<1>1. RequestTypes'
  <2>1. UNCHANGED reqVars
    BY DEF otherReport, updateCache, updateRow, readRows, swapRows
  <2> QED
    BY <2>1, RequestKept, TypesApart DEF RequestTypes
<1>2. CASE otherReport
  BY <1>1, <1>2, CacheKept, TypesApart, TypesTogether, RelayAssumption DEF otherReport, CacheTypes, OtherTypes
<1>3. CASE updateCache
  <2>1. PICK u \in updates :
          /\ updates' = updates \ {u}
          /\ IF cacheStatus[u.channel] \in {"absent", u.status}
               THEN UNCHANGED <<cached, cacheStatus, update>>
               ELSE CacheUpdateChannelStatus(u.channel, u.status) /\ update' = u
    BY <1>3 DEF updateCache
  <2>2. u \in Updates /\ u.channel \in Channels /\ u.status \in Statuses
    BY DEF TypeOK, Updates
  <2>3. cached' \subseteq Channels /\ cacheStatus' \in [Channels -> Cached]
    BY <2>1, <2>2 DEF CacheUpdateChannelStatus, TypeOK, Cached
  <2>4. update' \in Updates \cup {NoUpdate} /\ updates' \subseteq Updates
    BY <2>1, <2>2 DEF TypeOK
  <2>5. disturbed' \in BOOLEAN
    BY <1>3 DEF updateCache
  <2> QED
    BY <1>1, <1>3, <2>3, <2>4, <2>5, TypesApart, TypesTogether DEF updateCache, CacheTypes, OtherTypes
<1>4. CASE updateRow
  <2>1. update \in Updates /\ update.channel \in Channels /\ update.status \in Statuses
    BY <1>4 DEF updateRow, TypeOK, Updates
  <2>2. db' \in [Channels -> Statuses]
    BY <1>4, <2>1 DEF updateRow, TypeOK
  <2>3. faults' \in 0 .. MaxDBFaults
    BY <1>4, RelayAssumption DEF updateRow, TypeOK
  <2> QED
    BY <1>1, <1>4, <2>2, <2>3, TypesApart, TypesTogether DEF updateRow, CacheTypes, OtherTypes
<1>5. CASE readRows
  <2>1. snapshot' \in [Channels -> Cached] /\ faults' \in 0 .. MaxDBFaults
    BY <1>5, RelayAssumption DEF readRows, TypeOK, Cached
  <2> QED
    BY <1>1, <1>5, <2>1, TypesApart, TypesTogether DEF readRows, CacheTypes, OtherTypes
<1>6. CASE swapRows
  <2>1. cached' \subseteq Channels /\ cacheStatus' \in [Channels -> Cached]
        /\ raced' \subseteq Channels
    BY <1>6 DEF swapRows, TypeOK, Enabled
  <2>2. disturbed' \in BOOLEAN
    BY <1>6 DEF swapRows
  <2> QED
    BY <1>1, <1>6, <2>1, <2>2, TypesApart, TypesTogether DEF swapRows, CacheTypes, OtherTypes
<1> QED
  BY <1>2, <1>3, <1>4, <1>5, <1>6

-----------------------------------------------------------------------------
(* The walk.                                                               *)

LEMMA InitWalk == Init => WalkInv
<1> SUFFICES ASSUME Init PROVE WalkInv
  OBVIOUS
<1>1. Position /\ Reached /\ InOrder
  BY DEF Init, Position, Reached, InOrder
<1>2. \A g : TriedIn(g) = {}
  BY DEF Init, TriedIn
<1>3. \A a : Tries(a) = 0
  BY <1>2, FS_EmptySet DEF Tries
<1>4. Counted
  BY <1>3, RelayAssumption DEF Init, Counted
<1> QED
  BY <1>1, <1>4, InitTypes DEF WalkInv

\* A step that is not the request's.
LEMMA WalkKept ==
  ASSUME WalkInv, TypeOK', UNCHANGED reqVars
  PROVE  WalkInv'
<1>1. Position' /\ Reached' /\ InOrder'
  BY RequestKept DEF WalkInv, Position, Reached, InOrder, From
<1>2. Counted'
  BY RequestKept, TriesStay DEF WalkInv, Counted, From
<1> QED
  BY <1>1, <1>2 DEF WalkInv

\* The groups after the current one have had no call.
LEMMA NoTriesAhead ==
  ASSUME WalkInv, NEW a \in Walk, a > autoGroupIndex
  PROVE  Tries(a) = 0
<1>1. TriedIn(AutoGroups[a]) = {}
  BY DEF WalkInv, TypeOK, Reached, TriedIn, Walk
<1> QED
  BY <1>1, FS_EmptySet DEF Tries

LEMMA LeaveGroupWalk ==
  ASSUME WalkInv, LeaveGroup, pc \in {"distribute", "select"}, TypeOK'
  PROVE  WalkInv'
<1>1. Position'
  BY RelayAssumption DEF WalkInv, LeaveGroup, Position
<1>2. Reached' /\ InOrder'
  BY DEF WalkInv, TypeOK, LeaveGroup, Reached, InOrder, Walk
<1>3. Counted'
  <2> SUFFICES ASSUME NEW a \in Walk
               PROVE  /\ Tries(a)' <= RetryTimes + 1
                      /\ a = autoGroupIndex' => Tries(a)' <= retry'
    BY DEF Counted, LeaveGroup
  <2>1. Tries(a)' = Tries(a)
    BY TriesStay DEF LeaveGroup
  <2>2. a = autoGroupIndex' => Tries(a) = 0
    BY NoTriesAhead DEF LeaveGroup, WalkInv, TypeOK, Walk
  <2> QED
    BY <2>1, <2>2 DEF WalkInv, Counted, LeaveGroup
<1> QED
  BY <1>1, <1>2, <1>3 DEF WalkInv

LEMMA ExhaustedWalk ==
  ASSUME WalkInv, NEW outcome \in {"failed", "refused"}, Exhausted(outcome), TypeOK'
  PROVE  WalkInv'
<1>1. Position' /\ Reached' /\ InOrder'
  BY DEF WalkInv, Exhausted, Position, Reached, InOrder
<1>2. Counted'
  BY TriesStay DEF WalkInv, Counted, Exhausted
<1> QED
  BY <1>1, <1>2 DEF WalkInv

\* A channel of the current group is taken, and the index stays, or moves on
\* and the count is 0.
LEMMA TakenWalk ==
  ASSUME WalkInv, TypeOK', autoGroupIndex \in Walk, retry <= RetryTimes,
         \A a \in Walk : a = autoGroupIndex => Tries(a) <= retry,
         pc' = "call", channel' \in Channels, Group[channel'] = AutoGroups[autoGroupIndex],
         tried' = tried,
         \/ autoGroupIndex' = autoGroupIndex /\ retry' = retry /\ ~ resetNextTry'
         \/ /\ autoGroupIndex' = autoGroupIndex + 1 /\ retry' = 0
            /\ resetNextTry' \/ RetryTimes = 0
  PROVE  WalkInv'
<1>0. RetryTimes \in Nat /\ autoGroupIndex \in Nat /\ retry \in Nat
  BY RelayAssumption DEF WalkInv, TypeOK
<1>1. Position'
  BY <1>0 DEF Position, From
<1>2. Reached'
  <2> SUFFICES ASSUME NEW i \in 1 .. Len(tried), NEW a \in Walk, Group[tried[i]] = AutoGroups[a]
               PROVE  /\ a <= autoGroupIndex'
                      /\ \A b \in Walk : Group[channel'] = AutoGroups[b] => a <= b
    BY DEF Reached, From
  <2>1. a <= autoGroupIndex
    BY DEF WalkInv, Reached
  <2>2. \A b \in Walk : Group[channel'] = AutoGroups[b] => b = autoGroupIndex
    BY WalkFacts
  <2> QED
    BY <1>0, <2>1, <2>2 DEF Walk
<1>3. InOrder'
  BY DEF WalkInv, InOrder
<1>4. Counted'
  <2> SUFFICES ASSUME NEW a \in Walk
               PROVE  /\ Tries(a)' <= RetryTimes + 1
                      /\ a = autoGroupIndex' => Tries(a)' <= retry'
                      /\ Group[channel'] = AutoGroups[a] => Tries(a)' <= RetryTimes
    BY DEF Counted, From
  <2>1. Tries(a)' = Tries(a)
    BY TriesStay
  <2>2. Tries(a) \in Nat /\ Tries(a) <= RetryTimes + 1
    BY TriesAreCounted DEF WalkInv, TypeOK, Counted, Tries
  <2>3. a = autoGroupIndex + 1 => Tries(a) = 0
    BY <1>0, NoTriesAhead
  <2>4. Group[channel'] = AutoGroups[a] => a = autoGroupIndex
    BY WalkFacts
  <2>5. a = autoGroupIndex' => Tries(a) <= retry'
    BY <1>0, <2>2, <2>3
  <2> QED
    BY <1>0, <2>1, <2>2, <2>4, <2>5
<1> QED
  BY <1>1, <1>2, <1>3, <1>4 DEF WalkInv

LEMMA DistributeWalk == ASSUME WalkInv, Distribute, TypeOK' PROVE WalkInv'
<1>1. CASE LeaveGroup
  BY <1>1, LeaveGroupWalk DEF Distribute
<1>2. CASE Exhausted("refused")
  BY <1>2, ExhaustedWalk
<1>3. ASSUME autoGroupIndex <= Last,
             NEW c \in GetRandomSatisfiedChannel(AutoGroups[autoGroupIndex], 0),
             channel' = c, usingGroup' = Group[c], pc' = "call",
             autoGroupIndex' = IF Switches THEN autoGroupIndex + 1 ELSE autoGroupIndex,
             UNCHANGED <<kind, retry, resetNextTry, tried>>
      PROVE  WalkInv'
  <2>1. autoGroupIndex \in Walk /\ RetryTimes \in Nat
    BY <1>3, LastInWalk, WalkFacts, RelayAssumption DEF WalkInv, TypeOK, Walk
  <2>2. channel' \in Channels /\ Group[channel'] = AutoGroups[autoGroupIndex]
    BY <1>3, OfferedFromGroup DEF WalkInv
  <2>3. retry = 0 /\ ~ resetNextTry /\ tried = <<>>
    BY DEF Distribute, WalkInv, Position
  <2>4. \A a : Tries(a) = 0
    <3>1. \A g : TriedIn(g) = {}
      BY <2>3 DEF TriedIn
    <3> QED
      BY <3>1, FS_EmptySet DEF Tries
  <2>5. Switches => RetryTimes = 0
    BY <2>1, <2>3 DEF Switches
  <2>6. \A a \in Walk : a = autoGroupIndex => Tries(a) <= retry
    BY <2>3, <2>4
  <2>7. retry <= RetryTimes
    BY <2>1, <2>3
  <2>8. ~ resetNextTry'
    BY <1>3, <2>3
  <2> QED
    BY <1>3, <2>1, <2>2, <2>3, <2>5, <2>6, <2>7, <2>8, TakenWalk
<1> QED
  BY <1>1, <1>2, <1>3 DEF Distribute

LEMMA GetChannelWalk == ASSUME WalkInv, getChannel, TypeOK' PROVE WalkInv'
<1>1. CASE LeaveGroup
  BY <1>1, LeaveGroupWalk DEF getChannel
<1>2. CASE Exhausted("failed")
  BY <1>2, ExhaustedWalk
<1>3. CASE autoGroupIndex <= Last /\ Take
  <2>1. PICK c \in GetRandomSatisfiedChannel(AutoGroups[autoGroupIndex], retry) :
          /\ channel' = c
          /\ IF Switches
               THEN retry' = 0 /\ resetNextTry' = TRUE /\ autoGroupIndex' = autoGroupIndex + 1
               ELSE UNCHANGED <<retry, resetNextTry, autoGroupIndex>>
          /\ pc' = "call" /\ tried' = tried
    BY <1>3 DEF Take
  <2>2. autoGroupIndex \in Walk
    BY <1>3, LastInWalk, WalkFacts DEF WalkInv, TypeOK, Walk
  <2>3. channel' \in Channels /\ Group[channel'] = AutoGroups[autoGroupIndex]
    BY <2>1, OfferedFromGroup DEF WalkInv
  <2>4. retry <= RetryTimes /\ ~ resetNextTry
    BY DEF getChannel, WalkInv, Position
  <2>5. \A a \in Walk : a = autoGroupIndex => Tries(a) <= retry
    BY DEF getChannel, WalkInv, Counted
  <2>6. CASE Switches
    BY <2>1, <2>2, <2>3, <2>4, <2>5, <2>6, TakenWalk
  <2>7. CASE ~ Switches
    BY <2>1, <2>2, <2>3, <2>4, <2>5, <2>7, TakenWalk
  <2> QED
    BY <2>6, <2>7
<1> QED
  BY <1>1, <1>2, <1>3 DEF getChannel

\* The channel in use is called: its group is the last one called.
LEMMA CalledWalk ==
  ASSUME WalkInv, TypeOK', pc = "call", pc' # "call",
         tried' = Append(tried, channel), autoGroupIndex' = autoGroupIndex
  PROVE  /\ Reached' /\ InOrder'
         /\ \A a \in Walk : Tries(a)' <= RetryTimes + 1
<1>1. channel \in Channels /\ tried \in Seq(Channels) /\ RetryTimes \in Nat
  BY RelayAssumption DEF WalkInv, TypeOK, Position
<1>2. /\ Len(tried) \in Nat /\ Len(tried') = Len(tried) + 1
      /\ \A i \in 1 .. Len(tried) : tried'[i] = tried[i]
      /\ tried'[Len(tried) + 1] = channel
  BY <1>1, OneMoreTry
<1>3. \A a \in Walk : From(a) => a <= autoGroupIndex
  BY WalkFacts DEF WalkInv, TypeOK, Position, From, Walk
<1>4. Reached'
  BY <1>2, <1>3 DEF WalkInv, Reached, From
<1>5. InOrder'
  BY <1>2 DEF WalkInv, Reached, InOrder, From
<1>6. ASSUME NEW a \in Walk PROVE Tries(a)' <= RetryTimes + 1
  <2>1. Tries(a) \in Nat
    BY <1>1, TriesAreCounted DEF Tries
  <2>2. CASE From(a)
    BY <1>1, <2>1, <2>2, TriesGrow DEF WalkInv, Counted, From
  <2>3. CASE ~ From(a)
    BY <1>1, <2>1, <2>3, TriesGrow DEF WalkInv, Counted, From
  <2> QED
    BY <2>2, <2>3
<1> QED
  BY <1>4, <1>5, <1>6

LEMMA AnswerWalk == ASSUME WalkInv, Answer, TypeOK' PROVE WalkInv'
<1>1. /\ Reached' /\ InOrder'
      /\ \A a \in Walk : Tries(a)' <= RetryTimes + 1
  BY CalledWalk DEF Answer
<1>2. Position' /\ Counted'
  BY <1>1 DEF Answer, Position, Counted
<1> QED
  BY <1>1, <1>2 DEF WalkInv

LEMMA FailWalk ==
  ASSUME WalkInv, NEW error, NEW matches \in BOOLEAN, Fail(error, matches), TypeOK'
  PROVE  WalkInv'
<1>1. pc = "call" /\ pc' \in {"select", "failed"}
  BY DEF Fail
<1>2. /\ Reached' /\ InOrder'
      /\ \A a \in Walk : Tries(a)' <= RetryTimes + 1
  BY <1>1, CalledWalk DEF Fail
<1>3. pc' = "select" => retry' <= RetryTimes /\ IncreaseRetry
  BY DEF Fail
<1>4. Position'
  BY <1>1, <1>3 DEF Position, IncreaseRetry
<1>5. ASSUME NEW a \in Walk, pc' = "select", a = autoGroupIndex' PROVE Tries(a)' <= retry'
  <2>1. /\ channel \in Channels /\ tried \in Seq(Channels) /\ tried' = Append(tried, channel)
        /\ retry \in Nat /\ RetryTimes \in Nat
    BY <1>1, RelayAssumption DEF WalkInv, TypeOK, Position, Fail
  <2>2. Tries(a) \in Nat /\ Tries(a) <= retry /\ a = autoGroupIndex
    BY <1>1, <1>5, <2>1, TriesAreCounted DEF WalkInv, Counted, Tries, Fail
  <2>3. CASE From(a)
    <3>1. ~ resetNextTry
      BY <1>1, <2>2, <2>3, WalkFacts DEF WalkInv, Position, From, Walk
    <3>2. retry' = retry + 1
      BY <1>3, <1>5, <3>1 DEF IncreaseRetry
    <3>3. Tries(a)' = Tries(a) + 1
      BY <2>1, <2>3, TriesGrow DEF From
    <3> QED
      BY <2>1, <2>2, <3>2, <3>3
  <2>4. CASE ~ From(a)
    <3>1. Tries(a)' = Tries(a)
      BY <2>1, <2>4, TriesGrow DEF From
    <3>2. retry' >= retry
      BY <1>3, <1>5, <2>1 DEF IncreaseRetry
    <3> QED
      BY <2>1, <2>2, <3>1, <3>2, TypeOK' DEF TypeOK
  <2> QED
    BY <2>3, <2>4
<1>6. Counted'
  BY <1>1, <1>2, <1>5 DEF Counted
<1> QED
  BY <1>2, <1>4, <1>6 DEF WalkInv

-----------------------------------------------------------------------------
(* The cache.                                                              *)

LEMMA CacheStep == ASSUME TypeOK, CacheInv, [Next]_vars PROVE CacheInv'
<1>1. CASE Relay \/ otherReport \/ readRows \/ UNCHANGED vars
  <2>1. cached' = cached /\ db' = db /\ update' = update /\ raced' = raced
    BY <1>1, CacheKept DEF Relay, Distribute, getChannel, Answer, Fail, otherReport, readRows, vars
  <2> QED
    BY <2>1 DEF CacheInv, Disabling
<1>2. CASE updateCache
  <2>1. PICK u \in updates :
          IF cacheStatus[u.channel] \in {"absent", u.status}
            THEN UNCHANGED <<cached, cacheStatus, update>>
            ELSE CacheUpdateChannelStatus(u.channel, u.status) /\ update' = u
    BY <1>2 DEF updateCache
  <2>2. db' = db /\ raced' = raced
    BY <1>2 DEF updateCache
  <2>3. cached' \subseteq cached /\ \A c \in cached' : Disabling(c)' => Disabling(c)
    BY <2>1 DEF CacheUpdateChannelStatus, Disabling
  <2> QED
    BY <2>2, <2>3 DEF CacheInv
<1>3. CASE updateRow
  <2>1. cached' = cached /\ raced' = raced /\ ~ \E c : Disabling(c)'
    BY <1>3 DEF updateRow, Disabling
  <2>2. \A c \in cached : db'[c] = "disabled" => db[c] = "disabled" \/ Disabling(c)
    BY <1>3 DEF updateRow, Disabling, TypeOK
  <2> QED
    BY <2>1, <2>2 DEF CacheInv
<1>4. CASE swapRows
  <2>1. \A c \in cached' : c \in Channels /\ snapshot[c] = "enabled"
    BY <1>4 DEF swapRows, Enabled
  <2> QED
    BY <1>4, <2>1 DEF swapRows, CacheInv, Disabling
<1> QED
  BY <1>1, <1>2, <1>3, <1>4 DEF Next

-----------------------------------------------------------------------------
(* The theorems.                                                           *)

\* Every turn of the retry loop keeps the invariant of the walk, and every step
\* of UpdateChannelStatus and InitChannelCache that of the cache.
THEOREM RelayInvariance == Spec => [](WalkInv /\ CacheInv)
<1>1. Init => WalkInv /\ CacheInv
  <2>1. Init => CacheInv
    BY DEF Init, CacheInv, Disabling
  <2> QED
    BY <2>1, InitWalk
<1>2. ASSUME WalkInv, CacheInv, [Next]_vars PROVE WalkInv' /\ CacheInv'
  <2>1. CacheInv'
    BY <1>2, CacheStep DEF WalkInv
  <2>2. CASE Relay
    BY <1>2, <2>1, <2>2, RelayStepTypes, DistributeWalk, GetChannelWalk, AnswerWalk, FailWalk DEF Relay
  <2>3. CASE otherReport \/ updateCache \/ updateRow \/ readRows \/ swapRows
    <3>1. UNCHANGED reqVars
      BY <2>3 DEF otherReport, updateCache, updateRow, readRows, swapRows
    <3> QED
      BY <1>2, <2>1, <2>3, <3>1, OtherStepTypes, WalkKept DEF WalkInv
  <2>4. CASE UNCHANGED vars
    <3>1. UNCHANGED reqVars /\ UNCHANGED cacheVars
          /\ updates' = updates /\ reports' = reports /\ disturbed' = disturbed
      BY <2>4 DEF vars
    <3>2. TypeOK'
      BY <1>2, <3>1, RequestKept, CacheKept DEF WalkInv, TypeOK
    <3> QED
      BY <1>2, <2>1, <3>1, <3>2, WalkKept
  <2> QED
    BY <1>2, <2>1, <2>2, <2>3, <2>4 DEF Next
<1> QED
  BY <1>1, <1>2, PTL DEF Spec

\* The request's context, the cache and the pending updates keep their types: the retry
\* count never passes RetryTimes + 1, the group index never leaves the list of groups.
THEOREM RelayTypeCorrect == Spec => []TypeOK
  BY RelayInvariance, PTL DEF WalkInv

\* However the selection resets the retry count, a request calls the groups in
\* their order and each at most RetryTimes + 1 times.
THEOREM RelayWalkInOrder == Spec => []WalkInOrder
<1>1. ASSUME WalkInv PROVE WalkInOrder
  <2>1. \A g \in Groups : Cardinality(TriedIn(g)) <= RetryTimes + 1
    BY <1>1 DEF WalkInv, Counted, Tries, Groups, Walk
  <2> QED
    BY <1>1, <2>1 DEF WalkInv, InOrder, WalkInOrder, Walk
<1> QED
  BY RelayInvariance, <1>1, PTL

\* A disabled channel is on offer only when a rebuild of the cache overlapped
\* the update that disabled it.
THEOREM RelayDisabledOnlyByRace == Spec => []DisabledOnlyByRace
<1>1. ASSUME CacheInv PROVE DisabledOnlyByRace
  BY <1>1 DEF CacheInv, DisabledOnlyByRace
<1> QED
  BY RelayInvariance, <1>1, PTL

-----------------------------------------------------------------------------
(* Priorities.                                                             *)

Prios(cs) == {Priority[c] : c \in cs}
Above(S, p) == {q \in S : q > p}

LEMMA AboveCounted ==
  ASSUME NEW S, IsFiniteSet(S), NEW p
  PROVE  IsFiniteSet(Above(S, p)) /\ Cardinality(Above(S, p)) \in Nat
<1>1. Above(S, p) \in SUBSET S
  BY DEF Above
<1>2. IsFiniteSet(Above(S, p))
  BY <1>1, FS_Subset
<1> QED
  BY <1>2, FS_CardinalityType

\* The higher a priority, the fewer are above it.
LEMMA HigherFewer ==
  ASSUME NEW S \in SUBSET Nat, IsFiniteSet(S), NEW p \in Nat, NEW q \in S, q > p
  PROVE  Cardinality(Above(S, q)) < Cardinality(Above(S, p))
<1>1. Above(S, q) \in SUBSET Above(S, p) /\ q \in Above(S, p) /\ q \notin Above(S, q)
  <2>1. ~ q > q /\ \A s \in S : s > q => s > p
    OBVIOUS
  <2> QED
    BY <2>1, Zenon DEF Above
<1>2. Cardinality(Above(S, q)) \in Nat /\ Cardinality(Above(S, p)) \in Nat
      /\ IsFiniteSet(Above(S, p))
  BY AboveCounted
<1>3. /\ Cardinality(Above(S, q)) <= Cardinality(Above(S, p))
      /\ Cardinality(Above(S, q)) # Cardinality(Above(S, p))
  BY <1>1, <1>2, FS_Subset
<1> QED
  BY <1>2, <1>3

LEMMA LeastExists ==
  ASSUME NEW S, S \subseteq Nat, S # {}
  PROVE  \E i \in S : \A j \in S : i <= j
<1>1. PICK x \in S : \A y \in S : ~ (<<y, x>> \in OpToRel(<, Nat))
  BY NatLessThanWellFounded, WFMin
<1>2. ASSUME NEW y \in S PROVE x <= y
  <2>1. x \in Nat /\ y \in Nat /\ <<y, x>> \in Nat \X Nat
    OBVIOUS
  <2>2. <<y, x>>[1] = y /\ <<y, x>>[2] = x
    OBVIOUS
  <2>3. ~ y < x
    BY <1>1, <2>1, <2>2, Zenon DEF OpToRel
  <2> QED
    BY <2>1, <2>3
<1> QED
  BY <1>1, <1>2

\* The ranks of a group's priorities have no gaps.
LEMMA EveryRank ==
  ASSUME NEW S \in SUBSET Nat, IsFiniteSet(S), NEW r \in Nat, r < Cardinality(S)
  PROVE  \E p \in S : Cardinality(Above(S, p)) = r
<1> DEFINE N(p) == Cardinality(Above(S, p))
           A == {p \in S : N(p) >= r}
<1>1. \A p : N(p) \in Nat /\ IsFiniteSet(Above(S, p))
  BY AboveCounted
<1>2. Cardinality(S) \in Nat
  BY FS_CardinalityType
\* The next priority above a set has one fewer above it.
<1>3. ASSUME NEW T \in SUBSET S, T # {}, IsFiniteSet(T),
             \A q \in T : \A s \in S : s > q => s \in T
      PROVE  \E q \in T : N(q) = Cardinality(T) - 1
  <2>1. PICK q \in T : \A s \in T : q <= s
    BY <1>3, LeastExists
  <2>2. q \in Nat /\ \A s \in S : s \in Nat
    OBVIOUS
  <2>3. \A s \in S : s > q <=> s \in T \ {q}
    BY <1>3, <2>1, <2>2
  <2>4. Above(S, q) = T \ {q}
    BY <2>3 DEF Above
  <2> QED
    BY <1>3, <2>1, <2>4, FS_RemoveElement
<1>4. A # {}
  <2>1. S # {}
    BY <1>2, FS_EmptySet
  <2>2. PICK p \in S : N(p) = Cardinality(S) - 1
    BY <1>3, <2>1
  <2> HIDE DEF N
  <2> QED
    BY <1>1, <1>2, <2>2
<1>5. PICK p \in A : \A q \in A : N(p) <= N(q)
  <2> DEFINE M == {N(q) : q \in A}
  <2> HIDE DEF N
  <2>1. M \subseteq Nat /\ M # {}
    BY <1>1, <1>4
  <2>2. PICK m \in M : \A k \in M : m <= k
    BY <2>1, LeastExists
  <2> QED
    BY <2>2
<1>6. ~ N(p) > r
  <2> SUFFICES ASSUME N(p) > r PROVE FALSE
    OBVIOUS
  <2>1. Above(S, p) \in SUBSET S /\ \A q \in Above(S, p) : \A s \in S : s > q => s \in Above(S, p)
    BY <1>5 DEF Above
  <2>2. Above(S, p) # {}
    BY FS_EmptySet
  <2>3. PICK q \in Above(S, p) : N(q) = N(p) - 1
    BY <1>1, <1>3, <2>1, <2>2
  <2>4. q \in S /\ N(p) \in Nat
    BY <1>1, <2>1, <2>3
  <2> HIDE DEF N
  <2> QED
    BY <1>5, <2>3, <2>4
<1> QED
  BY <1>1, <1>5, <1>6

LEMMA PriosCounted ==
  ASSUME NEW cs \in SUBSET Channels
  PROVE  /\ Prios(cs) \in SUBSET Nat /\ IsFiniteSet(Prios(cs))
         /\ Cardinality(Prios(cs)) \in Nat
         /\ cs # {} => Cardinality(Prios(cs)) > 0
<1>1. Prios(cs) \in SUBSET Nat
  BY RelayAssumption DEF Prios
<1>2. IsFiniteSet(cs)
  BY FinitelyManyChannels, FS_Subset
<1>3. [c \in cs |-> Priority[c]] \in Surjection(cs, Prios(cs))
  BY DEF Surjection, Prios
<1>4. IsFiniteSet(Prios(cs))
  BY <1>2, <1>3, FS_Surjection
<1>5. Cardinality(Prios(cs)) \in Nat
  BY <1>4, FS_CardinalityType
<1>6. cs # {} => Prios(cs) # {}
  BY DEF Prios
<1> QED
  BY <1>1, <1>4, <1>5, <1>6, FS_EmptySet

\* The rank of a channel in its group.
LEMMA RankIs ==
  ASSUME NEW cs \in SUBSET Channels, NEW c \in cs
  PROVE  /\ Rank(c, cs) = Cardinality(Above(Prios(cs), Priority[c]))
         /\ Rank(c, cs) \in Nat /\ Rank(c, cs) < Ranks(cs)
<1> DEFINE p == Priority[c]
           S == Prios(cs)
<1>1. S \in SUBSET Nat /\ IsFiniteSet(S) /\ p \in S
  BY PriosCounted DEF Prios
<1>2. {Priority[d] : d \in {e \in cs : Priority[e] > p}} = Above(S, p)
  BY DEF Above, Prios
<1>3. Rank(c, cs) = Cardinality(Above(S, p)) /\ Ranks(cs) = Cardinality(S)
  BY <1>2 DEF Rank, Ranks, Prios
<1>4. Above(S, p) \in SUBSET S /\ p \notin Above(S, p)
  BY <1>1 DEF Above
<1>5. Cardinality(S) \in Nat /\ Cardinality(Above(S, p)) \in Nat
  BY <1>1, AboveCounted, FS_CardinalityType
<1>6. Cardinality(Above(S, p)) <= Cardinality(S) /\ Cardinality(Above(S, p)) # Cardinality(S)
  BY <1>1, <1>4, FS_Subset
<1> QED
  BY <1>3, <1>5, <1>6

\* GetRandomSatisfiedChannel finds a channel whenever the group has one, and one
\* of the priority asked for whenever there is such a priority.
LEMMA OfferedByRank ==
  ASSUME TypeOK, NEW g, NEW n \in Nat
  PROVE  /\ GetRandomSatisfiedChannel(g, n) = {} => InGroup(g) = {}
         /\ \A c \in GetRandomSatisfiedChannel(g, n) : \A d \in InGroup(g) :
              Rank(d, InGroup(g)) = n => Priority[d] = Priority[c]
<1> DEFINE cs == InGroup(g)
           S == Prios(cs)
           rank == IF n >= Ranks(cs) THEN Ranks(cs) - 1 ELSE n
           target == {c \in cs : Rank(c, cs) = rank}
<1>1. cs \in SUBSET Channels
  BY DEF InGroup, TypeOK
<1>2. GetRandomSatisfiedChannel(g, n) =
        IF \A c \in target : Weight[c] = 0 THEN target ELSE {c \in target : Weight[c] > 0}
  BY DEF GetRandomSatisfiedChannel
<1>3. S \in SUBSET Nat /\ IsFiniteSet(S) /\ Ranks(cs) \in Nat /\ Ranks(cs) = Cardinality(S)
      /\ (cs # {} => Ranks(cs) > 0)
  BY <1>1, PriosCounted DEF Ranks, Prios
<1>4. \A c \in Channels : Weight[c] \in Nat /\ Priority[c] \in Nat
  BY RelayAssumption
<1>5. GetRandomSatisfiedChannel(g, n) = {} => target = {}
  BY <1>1, <1>2, <1>4
<1>6. ASSUME cs # {} PROVE target # {}
  <2>1. rank \in Nat /\ rank < Cardinality(S)
    BY <1>3, <1>6
  <2>2. PICK p \in S : Cardinality(Above(S, p)) = rank
    BY <1>3, <2>1, EveryRank
  <2>3. PICK c \in cs : Priority[c] = p
    BY <2>2 DEF Prios
  <2>4. Rank(c, cs) = rank
    BY <1>1, <2>2, <2>3, RankIs
  <2> QED
    BY <2>4
<1>7. ASSUME NEW c \in GetRandomSatisfiedChannel(g, n), NEW d \in cs, Rank(d, cs) = n
      PROVE  Priority[d] = Priority[c]
  <2>1. c \in cs /\ Rank(c, cs) = rank
    BY <1>2
  <2>2. n < Ranks(cs)
    BY <1>1, <1>7, RankIs
  <2>3. Rank(c, cs) = n
    BY <1>3, <2>1, <2>2
  <2>4. Cardinality(Above(S, Priority[c])) = Cardinality(Above(S, Priority[d]))
    BY <1>1, <1>7, <2>1, <2>3, RankIs
  <2>5. Priority[c] \in S /\ Priority[d] \in S /\ Priority[c] \in Nat /\ Priority[d] \in Nat
    BY <1>1, <1>4, <2>1 DEF Prios
  <2>6. ~ Priority[c] < Priority[d] /\ ~ Priority[d] < Priority[c]
    <3>1. /\ Cardinality(Above(S, Priority[c])) \in Nat
          /\ Cardinality(Above(S, Priority[d])) \in Nat
      BY <1>3, AboveCounted
    <3> HIDE DEF S
    <3> QED
      BY <1>3, <2>4, <2>5, <3>1, HigherFewer
  <2> QED
    BY <2>5, <2>6
<1> QED
  BY <1>5, <1>6, <1>7

-----------------------------------------------------------------------------
(* Every priority of a group has its turn before the group is left.        *)

\* The channels of the a-th group among those on offer, the priorities called
\* in it, and whether those of the first n ranks are among them.
Here(s, a) == {c \in s : Group[c] = AutoGroups[a]}
Called(t, a) == {Priority[t[i]] : i \in {j \in 1 .. Len(t) : Group[t[j]] = AutoGroups[a]}}
Below(t, s, a, n) == \A c \in Here(s, a) : Rank(c, Here(s, a)) < n => Priority[c] \in Called(t, a)
Done(t, s, a) == Below(t, s, a, RetryTimes + 1)

\* The channel in use stands for the n-th rank.
StandsFor(ch, s, a, n) == \A c \in Here(s, a) : Rank(c, Here(s, a)) = n => Priority[c] = Priority[ch]

\* The groups before the one in use are done, and so are, between calls, the
\* groups before the index; in the current group the retry count is the number
\* of ranks done.  When the selection has moved the index on and set the count
\* back, the call under way is the last of the group before.
LeftDone ==
    channel # NoChannel => \A a, b \in Walk : a < b /\ From(b) => Done(tried, cached, a)
BehindDone ==
    pc \in {"distribute", "select"} =>
        \A a \in Walk : a < autoGroupIndex => Done(tried, cached, a)
CurrentDone ==
    pc = "select" => \A a \in Walk : a = autoGroupIndex => Below(tried, cached, a, retry)
Turn(a) == IF a = autoGroupIndex THEN retry ELSE RetryTimes
CallIsNext ==
    pc = "call" => \A a \in Walk : From(a) =>
        Below(tried, cached, a, Turn(a)) /\ StandsFor(channel, cached, a, Turn(a))

ExhaustInv ==
    /\ pc = "distribute" => channel = NoChannel
    /\ kind = "cross" /\ ~ disturbed => LeftDone /\ BehindDone /\ CurrentDone /\ CallIsNext

LEMMA RanksCount ==
  ASSUME NEW s \in SUBSET Channels, NEW a, NEW c \in Here(s, a)
  PROVE  Rank(c, Here(s, a)) \in Nat
<1>1. Here(s, a) \in SUBSET Channels
  BY DEF Here
<1> QED
  BY <1>1, RankIs

LEMMA BelowNone ==
  ASSUME NEW s \in SUBSET Channels, NEW a, NEW t
  PROVE  /\ Below(t, s, a, 0)
         /\ Here(s, a) = {} => \A n : Below(t, s, a, n)
<1>1. \A c \in Here(s, a) : Rank(c, Here(s, a)) \in Nat
  BY RanksCount
<1> QED
  BY <1>1 DEF Below

\* A call takes nothing away from what was done, and adds the rank it stands for.
LEMMA BelowGrows ==
  ASSUME NEW s \in SUBSET Channels, NEW a, NEW n, NEW t \in Seq(Channels),
         NEW c \in Channels, Below(t, s, a, n)
  PROVE  /\ Below(Append(t, c), s, a, n)
         /\ n \in Nat /\ Group[c] = AutoGroups[a] /\ StandsFor(c, s, a, n)
              => Below(Append(t, c), s, a, n + 1)
<1> DEFINE u == Append(t, c)
<1>1. /\ Len(t) \in Nat /\ Len(u) = Len(t) + 1 /\ u[Len(t) + 1] = c
      /\ \A i \in 1 .. Len(t) : u[i] = t[i]
  OBVIOUS
<1> HIDE DEF u
<1>2. Called(t, a) \subseteq Called(u, a)
  BY <1>1 DEF Called
<1>3. Group[c] = AutoGroups[a] => Priority[c] \in Called(u, a)
  BY <1>1 DEF Called
<1>4. Below(u, s, a, n)
  BY <1>2 DEF Below
<1>5. ASSUME n \in Nat, Group[c] = AutoGroups[a], StandsFor(c, s, a, n)
      PROVE  Below(u, s, a, n + 1)
  <2>1. \A d \in Here(s, a) : Rank(d, Here(s, a)) \in Nat
    BY RanksCount
  <2>2. \A d \in Here(s, a) : Rank(d, Here(s, a)) < n + 1 =>
          Rank(d, Here(s, a)) < n \/ Rank(d, Here(s, a)) = n
    BY <1>5, <2>1
  <2> QED
    BY <1>3, <1>4, <1>5, <2>2 DEF Below, StandsFor
<1> QED
  BY <1>4, <1>5 DEF u

\* The selection finds a group empty only when it is, and what it returns
\* stands for the rank of the retry count.
LEMMA OfferStands ==
  ASSUME TypeOK, NEW a \in Walk, NEW n \in Nat
  PROVE  /\ GetRandomSatisfiedChannel(AutoGroups[a], n) = {} => Here(cached, a) = {}
         /\ \A c \in GetRandomSatisfiedChannel(AutoGroups[a], n) : StandsFor(c, cached, a, n)
<1>1. Here(cached, a) = InGroup(AutoGroups[a])
  BY DEF Here, InGroup
<1> QED
  BY <1>1, OfferedByRank DEF StandsFor

LEMMA LeaveGroupExhausts ==
  ASSUME WalkInv, ExhaustInv, LeaveGroup, pc \in {"distribute", "select"},
         cached' = cached, disturbed' = disturbed
  PROVE  ExhaustInv'
<1>1. /\ autoGroupIndex' = autoGroupIndex + 1 /\ retry' = 0
      /\ kind' = kind /\ pc' = pc /\ channel' = channel /\ tried' = tried
  BY DEF LeaveGroup
<1>2. autoGroupIndex \in Walk /\ retry \in Nat /\ cached \in SUBSET Channels
  BY LastInWalk, WalkFacts DEF LeaveGroup, WalkInv, TypeOK, Walk
<1>3. Done(tried, cached, autoGroupIndex)
  <2>1. Here(cached, autoGroupIndex) = {}
    BY <1>2, OfferStands DEF LeaveGroup, WalkInv
  <2> QED
    BY <1>2, <2>1, BelowNone DEF Done
<1>4. ASSUME kind = "cross", ~ disturbed PROVE (LeftDone /\ BehindDone /\ CurrentDone /\ CallIsNext)'
  <2>1. LeftDone'
    BY <1>1, <1>4 DEF ExhaustInv, LeftDone, From
  <2>2. BehindDone'
    <3> SUFFICES ASSUME NEW a \in Walk, a < autoGroupIndex + 1 PROVE Done(tried, cached, a)
      BY <1>1 DEF BehindDone
    <3>1. a = autoGroupIndex \/ a < autoGroupIndex
      BY <1>2 DEF Walk
    <3> QED
      BY <1>3, <1>4, <3>1 DEF ExhaustInv, BehindDone
  <2>3. CurrentDone'
    BY <1>1, <1>2, BelowNone DEF CurrentDone
  <2>4. CallIsNext'
    BY <1>1 DEF CallIsNext
  <2> QED
    BY <2>1, <2>2, <2>3, <2>4
<1> QED
  BY <1>1, <1>4 DEF ExhaustInv

LEMMA ExhaustedExhausts ==
  ASSUME NEW outcome \in {"failed", "refused"}, Exhausted(outcome)
  PROVE  ExhaustInv'
<1>1. channel' = NoChannel /\ pc' = outcome
  BY DEF Exhausted
<1>2. pc' \notin {"distribute", "select", "call"}
  BY <1>1
<1> QED
  BY <1>1, <1>2 DEF ExhaustInv, LeftDone, BehindDone, CurrentDone, CallIsNext

\* A channel is taken at the retry count n of the current group.
LEMMA TakenExhausts ==
  ASSUME WalkInv, ExhaustInv, pc \in {"distribute", "select"},
         NEW n \in Nat, n = retry, autoGroupIndex \in Walk,
         channel' \in GetRandomSatisfiedChannel(AutoGroups[autoGroupIndex], n),
         pc' = "call", tried' = tried, kind' = kind, cached' = cached, disturbed' = disturbed,
         \/ autoGroupIndex' = autoGroupIndex /\ retry' = retry
         \/ autoGroupIndex' = autoGroupIndex + 1 /\ n = RetryTimes
  PROVE  ExhaustInv'
<1>1. Group[channel'] = AutoGroups[autoGroupIndex]
  BY OfferedFromGroup DEF WalkInv
<1>2. \A a \in Walk : Group[channel'] = AutoGroups[a] => a = autoGroupIndex
  BY <1>1, WalkFacts
<1>3. StandsFor(channel', cached, autoGroupIndex, n)
  BY OfferStands DEF WalkInv
<1>4. autoGroupIndex \in Nat /\ cached \in SUBSET Channels
  BY DEF WalkInv, TypeOK
<1>5. ASSUME kind = "cross", ~ disturbed PROVE (LeftDone /\ BehindDone /\ CurrentDone /\ CallIsNext)'
  <2>1. LeftDone'
    BY <1>2, <1>5 DEF ExhaustInv, BehindDone, LeftDone, From
  <2>2. Below(tried, cached, autoGroupIndex, n)
    <3>1. CASE pc = "select"
      BY <1>5, <3>1 DEF ExhaustInv, CurrentDone
    <3>2. CASE pc = "distribute"
      <4>1. n = 0
        BY <3>2 DEF WalkInv, Position
      <4> QED
        BY <1>4, <4>1, BelowNone
    <3> QED
      BY <3>1, <3>2
  <2>3. CallIsNext'
    <3> SUFFICES ASSUME NEW a \in Walk, Group[channel'] = AutoGroups[a]
                 PROVE  /\ Below(tried, cached, a, Turn(a)')
                        /\ StandsFor(channel', cached, a, Turn(a)')
      BY DEF CallIsNext, From
    <3>1. a = autoGroupIndex
      BY <1>2
    <3>2. Turn(a)' = n
      BY <1>4, <3>1 DEF Turn
    <3> QED
      BY <1>3, <2>2, <3>1, <3>2
  <2>4. BehindDone' /\ CurrentDone'
    BY DEF BehindDone, CurrentDone
  <2> QED
    BY <2>1, <2>3, <2>4
<1> QED
  BY <1>5 DEF ExhaustInv

LEMMA DistributeExhausts == ASSUME WalkInv, ExhaustInv, Distribute PROVE ExhaustInv'
<1>0. pc = "distribute" /\ cached' = cached /\ disturbed' = disturbed
  BY CacheKept DEF Distribute
<1>1. CASE LeaveGroup
  BY <1>0, <1>1, LeaveGroupExhausts
<1>2. CASE Exhausted("refused")
  BY <1>2, ExhaustedExhausts
<1>3. ASSUME autoGroupIndex <= Last,
             NEW c \in GetRandomSatisfiedChannel(AutoGroups[autoGroupIndex], 0),
             channel' = c, usingGroup' = Group[c], pc' = "call",
             autoGroupIndex' = IF Switches THEN autoGroupIndex + 1 ELSE autoGroupIndex,
             UNCHANGED <<kind, retry, resetNextTry, tried>>
      PROVE  ExhaustInv'
  <2>1. autoGroupIndex \in Walk /\ RetryTimes \in Nat
    BY <1>3, LastInWalk, WalkFacts, RelayAssumption DEF WalkInv, TypeOK, Walk
  <2>2. retry = 0
    BY <1>0 DEF WalkInv, Position
  <2>3. Switches => RetryTimes = 0
    BY <2>1, <2>2 DEF Switches
  <2> QED
    BY <1>0, <1>3, <2>1, <2>2, <2>3, TakenExhausts
<1> QED
  BY <1>1, <1>2, <1>3 DEF Distribute

LEMMA GetChannelExhausts == ASSUME WalkInv, ExhaustInv, getChannel PROVE ExhaustInv'
<1>0. pc = "select" /\ cached' = cached /\ disturbed' = disturbed
  BY CacheKept DEF getChannel
<1>1. CASE LeaveGroup
  BY <1>0, <1>1, LeaveGroupExhausts
<1>2. CASE Exhausted("failed")
  BY <1>2, ExhaustedExhausts
<1>3. CASE autoGroupIndex <= Last /\ Take
  <2>1. PICK c \in GetRandomSatisfiedChannel(AutoGroups[autoGroupIndex], retry) :
          /\ channel' = c
          /\ IF Switches
               THEN retry' = 0 /\ resetNextTry' = TRUE /\ autoGroupIndex' = autoGroupIndex + 1
               ELSE UNCHANGED <<retry, resetNextTry, autoGroupIndex>>
          /\ pc' = "call" /\ tried' = tried /\ kind' = kind
    BY <1>3 DEF Take
  <2>2. autoGroupIndex \in Walk
    BY <1>3, LastInWalk, WalkFacts DEF WalkInv, TypeOK, Walk
  <2>3. retry \in Nat /\ RetryTimes \in Nat /\ retry <= RetryTimes
    BY <1>0, RelayAssumption DEF WalkInv, TypeOK, Position
  <2>4. Switches => retry = RetryTimes
    BY <2>3 DEF Switches
  <2> QED
    BY <1>0, <2>1, <2>2, <2>3, <2>4, TakenExhausts
<1> QED
  BY <1>1, <1>2, <1>3 DEF getChannel

\* What a call leaves of the groups before, and what it adds to its own.
LEMMA CalledExhausts ==
  ASSUME WalkInv, ExhaustInv, pc = "call", kind = "cross", ~ disturbed
  PROVE  /\ \A a, b \in Walk : a < b /\ From(b) => Done(Append(tried, channel), cached, a)
         /\ \A a \in Walk : From(a) => Below(Append(tried, channel), cached, a, Turn(a) + 1)
<1>1. /\ channel \in Channels /\ channel # NoChannel /\ tried \in Seq(Channels)
      /\ cached \in SUBSET Channels /\ RetryTimes \in Nat /\ retry \in Nat
  BY RelayAssumption DEF WalkInv, TypeOK, Position
<1>2. LeftDone /\ CallIsNext
  BY DEF ExhaustInv
<1>3. ASSUME NEW a \in Walk, NEW b \in Walk, a < b, From(b)
      PROVE  Done(Append(tried, channel), cached, a)
  BY <1>1, <1>2, <1>3, BelowGrows DEF LeftDone, Done
<1>4. ASSUME NEW a \in Walk, From(a)
      PROVE  Below(Append(tried, channel), cached, a, Turn(a) + 1)
  <2>1. Turn(a) \in Nat
    BY <1>1 DEF Turn
  <2>2. Below(tried, cached, a, Turn(a)) /\ StandsFor(channel, cached, a, Turn(a))
    BY <1>2, <1>4 DEF CallIsNext
  <2> QED
    BY <1>1, <1>4, <2>1, <2>2, BelowGrows DEF From
<1> QED
  BY <1>3, <1>4

LEMMA AnswerExhausts == ASSUME WalkInv, ExhaustInv, Answer PROVE ExhaustInv'
<1>1. /\ pc = "call" /\ pc' = "answered" /\ tried' = Append(tried, channel)
      /\ channel' = channel /\ kind' = kind /\ cached' = cached /\ disturbed' = disturbed
  BY CacheKept DEF Answer
<1>2. kind = "cross" /\ ~ disturbed => LeftDone'
  BY <1>1, CalledExhausts DEF LeftDone, From
<1>3. (BehindDone /\ CurrentDone /\ CallIsNext)'
  BY <1>1 DEF BehindDone, CurrentDone, CallIsNext
<1> QED
  BY <1>1, <1>2, <1>3 DEF ExhaustInv

LEMMA FailExhausts ==
  ASSUME WalkInv, ExhaustInv, NEW error, NEW matches \in BOOLEAN, Fail(error, matches)
  PROVE  ExhaustInv'
<1>1. /\ pc = "call" /\ pc' \in {"select", "failed"} /\ tried' = Append(tried, channel)
      /\ channel' = channel /\ kind' = kind /\ cached' = cached /\ disturbed' = disturbed
      /\ autoGroupIndex' = autoGroupIndex
      /\ pc' = "select" => IncreaseRetry /\ retry' <= RetryTimes
  BY CacheKept DEF Fail
<1>2. /\ retry \in Nat /\ RetryTimes \in Nat /\ autoGroupIndex \in Nat
      /\ cached \in SUBSET Channels
  BY RelayAssumption DEF WalkInv, TypeOK
<1>3. CallIsNext'
  BY <1>1 DEF CallIsNext
<1>4. ASSUME kind = "cross", ~ disturbed PROVE (LeftDone /\ BehindDone /\ CurrentDone)'
  <2>1. /\ \A a, b \in Walk : a < b /\ From(b) => Done(tried', cached, a)
        /\ \A a \in Walk : From(a) => Below(tried', cached, a, Turn(a) + 1)
    BY <1>1, <1>4, CalledExhausts
  <2>2. LeftDone'
    BY <1>1, <2>1 DEF LeftDone, From
  <2>3. CASE autoGroupIndex \in Walk /\ From(autoGroupIndex) /\ ~ resetNextTry
    <3>1. BehindDone'
      BY <1>1, <2>1, <2>3 DEF BehindDone
    <3>2. CurrentDone'
      <4>1. Below(tried', cached, autoGroupIndex, retry + 1)
        BY <2>1, <2>3 DEF Turn
      <4> QED
        BY <1>1, <2>3, <4>1 DEF CurrentDone, IncreaseRetry
    <3> QED
      BY <2>2, <3>1, <3>2
  <2>4. CASE /\ autoGroupIndex - 1 \in Walk /\ From(autoGroupIndex - 1)
             /\ retry = 0 /\ (resetNextTry \/ RetryTimes = 0)
    <3>1. Done(tried', cached, autoGroupIndex - 1)
      <4>1. Turn(autoGroupIndex - 1) = RetryTimes
        BY <1>2 DEF Turn
      <4> QED
        BY <2>1, <2>4, <4>1 DEF Done
    <3>2. BehindDone'
      <4> SUFFICES ASSUME NEW a \in Walk, a < autoGroupIndex PROVE Done(tried', cached, a)
        BY <1>1 DEF BehindDone
      <4>1. a = autoGroupIndex - 1 \/ a < autoGroupIndex - 1
        BY <1>2 DEF Walk
      <4> QED
        BY <2>1, <2>4, <3>1, <4>1
    <3>3. CurrentDone'
      <4> SUFFICES ASSUME NEW a \in Walk, pc' = "select" PROVE Below(tried', cached, a, retry')
        BY <1>1 DEF CurrentDone
      <4>1. retry' = 0
        BY <1>1, <1>2, <2>4 DEF IncreaseRetry
      <4> QED
        BY <1>2, <4>1, BelowNone
    <3> QED
      BY <2>2, <3>2, <3>3
  <2> QED
    BY <1>1, <2>3, <2>4 DEF WalkInv, Position
<1> QED
  BY <1>1, <1>3, <1>4 DEF ExhaustInv

\* A step that is not the request's: either the channels on offer stay, or the
\* request is disturbed, or it has not come yet.
LEMMA OthersExhaust ==
  ASSUME WalkInv, ExhaustInv, UNCHANGED reqVars,
         \/ cached' = cached /\ disturbed' = disturbed
         \/ disturbed' = (disturbed \/ (Started /\ cached' # cached))
  PROVE  ExhaustInv'
<1>1. /\ kind' = kind /\ pc' = pc /\ retry' = retry /\ autoGroupIndex' = autoGroupIndex
      /\ channel' = channel /\ tried' = tried
  BY RequestKept
<1>2. CASE cached' = cached /\ (~ disturbed' => ~ disturbed)
  <2>1. \A a : Turn(a)' = Turn(a)
    BY <1>1 DEF Turn
  <2> QED
    BY <1>1, <1>2, <2>1 DEF ExhaustInv, LeftDone, BehindDone, CurrentDone, CallIsNext, From
<1>3. CASE ~ disturbed' => ~ Started
  <2>1. ASSUME ~ disturbed' PROVE (LeftDone /\ BehindDone /\ CurrentDone /\ CallIsNext)'
    <3>1. pc = "distribute" /\ ~ autoGroupIndex > 1 /\ autoGroupIndex \in Nat
      BY <1>3, <2>1 DEF Started, WalkInv, TypeOK
    <3>2. channel' = NoChannel /\ pc' = "distribute" /\ ~ \E a \in Walk : a < autoGroupIndex'
      BY <1>1, <3>1 DEF ExhaustInv, Walk
    <3> QED
      BY <3>2 DEF LeftDone, BehindDone, CurrentDone, CallIsNext
  <2> QED
    BY <1>1, <2>1 DEF ExhaustInv
<1>4. \/ cached' = cached /\ (disturbed' <=> disturbed)
      \/ disturbed' <=> (disturbed \/ (Started /\ cached' # cached))
  OBVIOUS
<1> QED
  BY <1>2, <1>3, <1>4

\* The walk over the priorities keeps its invariant at every step of the request
\* and of the goroutines that change the channels on offer.
THEOREM RelayExhaustInvariance == Spec => []ExhaustInv
<1>1. Init => ExhaustInv
  BY DEF Init, ExhaustInv, LeftDone, BehindDone, CurrentDone, CallIsNext, Walk
<1>2. ASSUME WalkInv, ExhaustInv, [Next]_vars PROVE ExhaustInv'
  <2>1. CASE Relay
    BY <1>2, <2>1, DistributeExhausts, GetChannelExhausts, AnswerExhausts, FailExhausts DEF Relay
  <2>2. CASE otherReport \/ updateCache \/ updateRow \/ readRows \/ swapRows \/ UNCHANGED vars
    <3>1. UNCHANGED reqVars
      BY <2>2 DEF otherReport, updateCache, updateRow, readRows, swapRows, vars
    <3>2. \/ cached' = cached /\ disturbed' = disturbed
          \/ disturbed' = (disturbed \/ (Started /\ cached' # cached))
      BY <2>2, CacheKept DEF otherReport, updateCache, updateRow, readRows, swapRows, vars
    <3> QED
      BY <1>2, <3>1, <3>2, OthersExhaust
  <2> QED
    BY <1>2, <2>1, <2>2 DEF Next
<1> QED
  BY <1>1, <1>2, RelayInvariance, PTL DEF Spec

\* With crossGroupRetry a request that uses a channel of a later group has
\* called each of the first RetryTimes + 1 priorities of every group before it,
\* as long as no channel came or went since it came.
THEOREM RelayExhaustsPriorities == Spec => []ExhaustsPriorities
<1>1. ASSUME WalkInv, ExhaustInv PROVE ExhaustsPriorities
  <2> SUFFICES ASSUME kind = "cross", ~ disturbed, channel # NoChannel,
                      NEW a \in Walk, NEW b \in Walk, a < b, From(b),
                      NEW c \in InGroup(AutoGroups[a]),
                      Rank(c, InGroup(AutoGroups[a])) <= RetryTimes
               PROVE  \E i \in TriedIn(AutoGroups[a]) : Priority[tried[i]] = Priority[c]
    BY DEF ExhaustsPriorities, Walk, From
  <2>1. InGroup(AutoGroups[a]) = Here(cached, a) /\ cached \in SUBSET Channels
    BY <1>1 DEF InGroup, Here, WalkInv, TypeOK
  <2>2. Rank(c, Here(cached, a)) \in Nat /\ RetryTimes \in Nat
    BY <2>1, RanksCount, RelayAssumption
  <2>3. Done(tried, cached, a)
    BY <1>1 DEF ExhaustInv, LeftDone
  <2>4. Priority[c] \in Called(tried, a)
    BY <2>1, <2>2, <2>3 DEF Done, Below
  <2> QED
    BY <2>4 DEF Called, TriedIn
<1> QED
  BY RelayInvariance, RelayExhaustInvariance, <1>1, PTL

===============================================================================
