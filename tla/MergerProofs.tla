---------------------------- MODULE MergerProofs ----------------------------
(***************************************************************************)
(* Proofs about the merge stage for every set of descriptors and paths,    *)
(* every window, every cap and any number of records.                      *)
(***************************************************************************)
EXTENDS Merger, FiniteSetTheorems, TLAPS

-----------------------------------------------------------------------------
(* What interpreting one record does                                       *)

(* Interpreting a pending record keeps the descriptor table and the event  *)
(* set well typed, and touches only the two diagnostic counters of s.      *)
LEMMA ProcessTypes ==
    ASSUME TypeOK, NEW r \in Record, NEW s \in Stats, Process(r, s)
    PROVE  /\ files' \in [Descriptors -> OpenFile \cup {NoFile}]
           /\ emitted' \subseteq Event
           /\ stats' \in Stats
           /\ stats'.accepted = s.accepted
           /\ stats'.released = s.released
           /\ stats'.late_events = s.late_events
           /\ stats'.forced_releases = s.forced_releases
<1>1. Single(r) \subseteq Event
  BY DEF Single, Event, Record, TypeOK
<1>2. \A d \in Descriptors : Total(files[d]) \subseteq Event
  BY DEF Total, Event, OpenFile, TypeOK
<1>3. CASE ProcessOpen(r, s)
  <2>1. r.desc \in Descriptors /\ r.path \in Paths /\ r.ktime \in Nat
    BY <1>3 DEF ProcessOpen, Record
  <2>2. [path |-> r.path, writes |-> {}, last |-> r.ktime] \in OpenFile
    BY <2>1 DEF OpenFile
  <2>3. files' \in [Descriptors -> OpenFile \cup {NoFile}]
    BY <1>3, <2>2 DEF ProcessOpen, TypeOK
  <2>4. emitted' \subseteq Event
    BY <1>1, <1>2, <1>3, <2>1 DEF ProcessOpen, TypeOK
  <2> QED BY <1>3, <2>3, <2>4 DEF ProcessOpen
<1>4. CASE ProcessWrite(r, s)
  <2>1. r.desc \in Descriptors /\ r.ktime \in Nat /\ files[r.desc] \in OpenFile
    BY <1>4 DEF ProcessWrite, Record, TypeOK
  <2> DEFINE f == [path |-> files[r.desc].path,
                   writes |-> files[r.desc].writes \cup {r},
                   last |-> r.ktime]
  <2>2. f \in OpenFile
    BY <2>1 DEF OpenFile
  <2>3. files' = [files EXCEPT ![r.desc] = f]
    BY <1>4 DEF ProcessWrite
  <2>4. files' \in [Descriptors -> OpenFile \cup {NoFile}]
    BY <2>2, <2>3 DEF TypeOK
  <2> QED BY <1>4, <2>4 DEF ProcessWrite, TypeOK
<1>5. CASE ProcessWriteUnknown(r, s)
  BY <1>1, <1>5 DEF ProcessWriteUnknown, TypeOK, Stats
<1>6. CASE ProcessClose(r, s)
  <2>1. r.desc \in Descriptors
    BY <1>6 DEF ProcessClose, Record
  <2> QED BY <1>2, <1>6, <2>1 DEF ProcessClose, TypeOK
<1>7. CASE ProcessCloseUnknown(r, s)
  BY <1>7 DEF ProcessCloseUnknown, TypeOK, Stats
<1>8. CASE ProcessPlain(r, s)
  BY <1>1, <1>8 DEF ProcessPlain, TypeOK
<1> QED BY <1>3, <1>4, <1>5, <1>6, <1>7, <1>8 DEF Process

(* The counters a release loop has updated are again a MergeStats.         *)
LEMMA ReleaseStatsTypes ==
    ASSUME TypeOK
    PROVE  /\ ReleasedStats \in Stats
           /\ ReleasedStats.accepted = stats.accepted
           /\ ReleasedStats.released = stats.released + 1
           /\ ReleasedStats.late_events = stats.late_events
           /\ ReleasedStats.forced_releases = stats.forced_releases
           /\ ForcedStats \in Stats
           /\ ForcedStats.accepted = stats.accepted
           /\ ForcedStats.released = stats.released + 1
           /\ ForcedStats.late_events = stats.late_events
           /\ ForcedStats.forced_releases = stats.forced_releases + 1
<1> USE DEF TypeOK, Stats
<1>1. ReleasedStats \in Stats
  BY DEF ReleasedStats
<1>2. /\ ReleasedStats.accepted = stats.accepted
      /\ ReleasedStats.released = stats.released + 1
      /\ ReleasedStats.late_events = stats.late_events
      /\ ReleasedStats.forced_releases = stats.forced_releases
  BY DEF ReleasedStats
<1>3. ForcedStats \in Stats
  BY <1>1 DEF ForcedStats
<1>4. /\ ForcedStats.accepted = stats.accepted
      /\ ForcedStats.released = stats.released + 1
      /\ ForcedStats.late_events = stats.late_events
      /\ ForcedStats.forced_releases = stats.forced_releases + 1
  BY <1>1, <1>2 DEF ForcedStats
<1> QED BY <1>1, <1>2, <1>3, <1>4

-----------------------------------------------------------------------------
(* Type correctness                                                        *)

(* A step that releases a record keeps the state well typed.               *)
LEMMA ReleaseTypes ==
    ASSUME TypeOK, NEW r \in pending, NEW s \in Stats, Release(r, s),
           last_released' \in Nat
    PROVE  TypeOK'
<1>1. r \in Record
  BY DEF TypeOK
<1>2. /\ files' \in [Descriptors -> OpenFile \cup {NoFile}]
      /\ emitted' \subseteq Event
      /\ stats' \in Stats
  BY <1>1, ProcessTypes DEF Release
<1> QED BY <1>2 DEF Release, TypeOK

(* Every variable keeps its type: in particular cutoff never goes below    *)
(* zero although the newest timestamp may be smaller than the window.      *)
THEOREM TypeCorrect == Spec => []TypeOK
<1>1. Init => TypeOK
  <2> SUFFICES ASSUME Init PROVE TypeOK
    OBVIOUS
  <2>1. stats \in Stats
    BY DEF Init, Stats
  <2>2. files \in [Descriptors -> OpenFile \cup {NoFile}]
    BY DEF Init
  <2> QED BY <2>1, <2>2 DEF Init, TypeOK
<1>2. TypeOK /\ [Next]_vars => TypeOK'
  <2> SUFFICES ASSUME TypeOK, [Next]_vars PROVE TypeOK'
    OBVIOUS
  <2>1. ASSUME NEW s \in Shape, NEW t \in 1..MaxTime, Push(s, t) PROVE TypeOK'
    <3> DEFINE r == [ktime |-> t, seq |-> sequence + 1, kind |-> s.kind,
                     desc |-> s.desc, path |-> s.path]
    <3>1. t \in Nat /\ sequence + 1 \in Nat
      BY BoundsAssumption DEF TypeOK
    <3>2. r \in Record
      BY <3>1 DEF Shape, Record
    <3>3. pending' \subseteq Record /\ pushed' \subseteq Record
      BY <2>1, <3>2 DEF Push, TypeOK
    <3>4. LateCount(t) \in Nat
      BY DEF LateCount
    <3>5. stats' \in Stats
      <4>1. AcceptedStats \in Stats
        BY DEF TypeOK, Stats, AcceptedStats
      <4> QED BY <2>1, <3>4, <4>1 DEF Push, Stats
    <3>6. newest' \in Nat /\ skewed' \in BOOLEAN /\ sequence' \in Nat
      BY <2>1, <3>1 DEF Push, TypeOK
    <3> QED BY <2>1, <3>3, <3>5, <3>6 DEF Push, TypeOK
  <2>2. CASE NoteLost
    BY <2>2 DEF NoteLost, TypeOK, Stats
  <2>3. CASE BeginDrain
    <3>1. Cutoff \in Nat
      BY WindowAssumption DEF Cutoff, TypeOK
    <3> QED BY <2>3, <3>1 DEF BeginDrain, TypeOK
  <2>4. ASSUME NEW r \in pending, ReleaseReady(r) PROVE TypeOK'
    <3>1. last_released' \in Nat
      BY <2>4 DEF ReleaseReady, RaiseReleased, TypeOK, Record
    <3> QED BY <2>4, <3>1, ReleaseTypes, ReleaseStatsTypes DEF ReleaseReady
  <2>5. CASE ReadyExhausted
    BY <2>5 DEF ReadyExhausted, TypeOK
  <2>6. ASSUME NEW r \in pending, ReleaseForced(r) PROVE TypeOK'
    <3>1. last_released' \in Nat
      BY <2>6 DEF ReleaseForced, RaiseReleased, TypeOK, Record
    <3> QED BY <2>6, <3>1, ReleaseTypes, ReleaseStatsTypes DEF ReleaseForced
  <2>7. CASE EndDrain
    BY <2>7 DEF EndDrain, TypeOK
  <2>8. CASE BeginFinish
    BY <2>8 DEF BeginFinish, TypeOK
  <2>9. ASSUME NEW r \in pending, ReleaseRest(r) PROVE TypeOK'
    <3>1. last_released' \in Nat
      BY <2>9 DEF ReleaseRest, TypeOK
    <3> QED BY <2>9, <3>1, ReleaseTypes, ReleaseStatsTypes DEF ReleaseRest
  <2>10. CASE EndFinish
    <3>1. \A d \in Descriptors : Total(files[d]) \subseteq Event
      BY DEF Total, Event, OpenFile, TypeOK
    <3>2. emitted' \subseteq Event
      BY <2>10, <3>1 DEF EndFinish, TypeOK
    <3> QED BY <2>10, <3>2 DEF EndFinish, TypeOK
  <2>11. CASE Done \/ UNCHANGED vars
    BY <2>11 DEF Done, vars, TypeOK
  <2> QED BY <2>1, <2>2, <2>3, <2>4, <2>5, <2>6, <2>7, <2>8, <2>9, <2>10,
             <2>11 DEF Next
<1> QED BY <1>1, <1>2, PTL DEF Spec

-----------------------------------------------------------------------------
(* The counters balance                                                    *)

\* What StatsBalance needs to be inductive: the window is finite, and a new
\* record is new because its sequence number is.
BalanceInv ==
    /\ IsFiniteSet(pending)
    /\ pending \subseteq pushed
    /\ \A r \in pushed : r.seq <= sequence
    /\ StatsBalance

(* Pushing adds one record to the window and one to accepted.              *)
LEMMA PushBalance ==
    ASSUME TypeOK, BalanceInv, NEW s \in Shape, NEW t \in 1..MaxTime,
           Push(s, t)
    PROVE  BalanceInv'
<1> DEFINE r == [ktime |-> t, seq |-> sequence + 1, kind |-> s.kind,
                 desc |-> s.desc, path |-> s.path]
<1>1. r \notin pushed
  <2>1. SUFFICES ASSUME r \in pushed PROVE FALSE
    OBVIOUS
  <2>2. r.seq <= sequence /\ r.seq = sequence + 1
    BY <2>1 DEF BalanceInv
  <2> QED BY <2>2 DEF TypeOK
<1>2. pending' = pending \cup {r} /\ pushed' = pushed \cup {r}
      /\ sequence' = sequence + 1
  BY DEF Push
<1>3. IsFiniteSet(pending') /\ Cardinality(pending') = Cardinality(pending) + 1
  BY <1>1, <1>2, FS_AddElement DEF BalanceInv
<1>4. \A x \in pushed' : x.seq <= sequence'
  <2>1. \A x \in pushed : x.seq \in Nat
    BY DEF TypeOK, Record
  <2> QED BY <1>2, <2>1 DEF BalanceInv, TypeOK
<1>5. stats'.accepted = stats.accepted + 1 /\ stats'.released = stats.released
  BY DEF Push, AcceptedStats, TypeOK, Stats
<1>6. Cardinality(pending) \in Nat
  BY FS_CardinalityType DEF BalanceInv
<1>7. StatsBalance'
  BY <1>3, <1>5, <1>6 DEF BalanceInv, StatsBalance, TypeOK, Stats
<1> QED BY <1>2, <1>3, <1>4, <1>7 DEF BalanceInv

(* Releasing takes one record out of the window and adds one to released.  *)
LEMMA ReleaseBalance ==
    ASSUME TypeOK, BalanceInv, NEW r \in pending, NEW s \in Stats,
           Release(r, s),
           s.accepted = stats.accepted, s.released = stats.released + 1
    PROVE  BalanceInv'
<1>1. pending' = pending \ {r} /\ pushed' = pushed /\ sequence' = sequence
  BY DEF Release
<1>2. IsFiniteSet(pending') /\ Cardinality(pending') = Cardinality(pending) - 1
  BY <1>1, FS_RemoveElement DEF BalanceInv
<1>3. stats'.accepted = stats.accepted /\ stats'.released = stats.released + 1
  BY ProcessTypes DEF Release, TypeOK
<1>4. Cardinality(pending) \in Nat
  BY FS_CardinalityType DEF BalanceInv
<1>5. StatsBalance'
  BY <1>2, <1>3, <1>4 DEF BalanceInv, StatsBalance, TypeOK, Stats
<1> QED BY <1>1, <1>2, <1>5 DEF BalanceInv

(* BalanceInv is inductive.                                                *)
LEMMA Balanced == Spec => []BalanceInv
<1>1. Init => BalanceInv
  <2> SUFFICES ASSUME Init PROVE BalanceInv
    OBVIOUS
  <2>1. IsFiniteSet({}) /\ Cardinality({}) = 0
    BY FS_EmptySet
  <2> QED BY <2>1 DEF Init, BalanceInv, StatsBalance
<1>2. TypeOK /\ BalanceInv /\ [Next]_vars => BalanceInv'
  <2> SUFFICES ASSUME TypeOK, BalanceInv, [Next]_vars PROVE BalanceInv'
    OBVIOUS
  <2>1. ASSUME NEW s \in Shape, NEW t \in 1..MaxTime, Push(s, t)
        PROVE BalanceInv'
    BY <2>1, PushBalance
  <2>2. ASSUME NEW r \in pending, ReleaseReady(r) PROVE BalanceInv'
    BY <2>2, ReleaseBalance, ReleaseStatsTypes DEF ReleaseReady
  <2>3. ASSUME NEW r \in pending, ReleaseForced(r) PROVE BalanceInv'
    BY <2>3, ReleaseBalance, ReleaseStatsTypes DEF ReleaseForced
  <2>4. ASSUME NEW r \in pending, ReleaseRest(r) PROVE BalanceInv'
    BY <2>4, ReleaseBalance, ReleaseStatsTypes DEF ReleaseRest
  <2>5. CASE NoteLost
    <3>1. stats'.accepted = stats.accepted /\ stats'.released = stats.released
      BY <2>5 DEF NoteLost, TypeOK, Stats
    <3> QED BY <2>5, <3>1 DEF NoteLost, BalanceInv, StatsBalance
  <2>6. CASE BeginDrain \/ ReadyExhausted \/ EndDrain \/ BeginFinish
              \/ EndFinish \/ Done \/ UNCHANGED vars
    BY <2>6 DEF BeginDrain, ReadyExhausted, EndDrain, BeginFinish, EndFinish,
                Done, vars, BalanceInv, StatsBalance
  <2> QED BY <2>1, <2>2, <2>3, <2>4, <2>5, <2>6 DEF Next
<1> QED BY <1>1, <1>2, TypeCorrect, PTL DEF Spec

(* Every accepted record has been released or is still pending.            *)
THEOREM StatsBalanced == Spec => []StatsBalance
<1>1. BalanceInv => StatsBalance
  BY DEF BalanceInv
<1> QED BY <1>1, Balanced, PTL

-----------------------------------------------------------------------------
(* The order of the stream                                                 *)

\* Why the stream of records is ordered: while a drain may still release, every
\* record already returned is at or below last_released and every pending one
\* is at or above it.  finish() does not raise last_released, but everything it
\* returns is in one batch.
OrderInv ==
    /\ \A e \in emitted : e.batch <= batch
    /\ stats.late_events = 0 =>
          /\ \A r \in pending : last_released <= r.ktime
          /\ \A e \in emitted :
                e.kind = "record"
                /\ (e.batch < batch \/ pc \in {"idle", "ready", "forced"})
                => e.ktime <= last_released
    /\ RecordsOrdered

(* Interpreting r returns, in the current batch, at most r and totals.     *)
LEMMA ProcessEmits ==
    ASSUME TypeOK, NEW r \in Record, NEW s \in Stats, Process(r, s)
    PROVE  /\ emitted \subseteq emitted'
           /\ \A e \in emitted' \ emitted :
                 e.batch = batch /\ (e.kind = "record" => e.ktime = r.ktime)
<1>1. \A e \in Single(r) : e.batch = batch /\ e.ktime = r.ktime
  BY DEF Single
<1>2. \A d \in Descriptors : \A e \in Total(files[d]) :
        e.batch = batch /\ e.kind = "total"
  BY DEF Total
<1>3. r.kind \in {"open", "close"} => r.desc \in Descriptors
  BY DEF Record
<1> QED BY <1>1, <1>2, <1>3 DEF Process, ProcessOpen, ProcessWrite,
           ProcessWriteUnknown, ProcessClose, ProcessCloseUnknown, ProcessPlain

(* A drain that releases its oldest record keeps the order.                *)
LEMMA DrainOrder ==
    ASSUME TypeOK, OrderInv, NEW r \in pending, NEW s \in Stats,
           Oldest(r), Release(r, s), RaiseReleased(r),
           pc \in {"ready", "forced"}, s.late_events = stats.late_events
    PROVE  OrderInv'
<1>1. r \in Record /\ r.ktime \in Nat /\ last_released \in Nat /\ batch \in Nat
  BY DEF TypeOK, Record
<1>2. /\ emitted \subseteq emitted'
      /\ \A e \in emitted' \ emitted :
            e.batch = batch /\ (e.kind = "record" => e.ktime = r.ktime)
      /\ stats'.late_events = stats.late_events
      /\ emitted' \subseteq Event
  BY <1>1, ProcessEmits, ProcessTypes DEF Release
<1>3. pc' = pc /\ batch' = batch /\ pending' = pending \ {r}
  BY DEF Release
<1>4. \A e \in emitted' : e.batch <= batch'
  BY <1>1, <1>2, <1>3 DEF OrderInv
<1>5. CASE stats.late_events # 0
  BY <1>2, <1>4, <1>5 DEF OrderInv, RecordsOrdered
<1>6. CASE stats.late_events = 0
  <2>1. last_released' = r.ktime /\ last_released <= r.ktime
    BY <1>1, <1>6 DEF RaiseReleased, OrderInv
  <2>2. \A x \in pending' : last_released' <= x.ktime
    <3> TAKE x \in pending'
    <3>1. x \in pending \ {r} /\ x.ktime \in Nat
      BY <1>3 DEF TypeOK, Record
    <3> QED BY <1>1, <2>1, <3>1 DEF Oldest, Before
  <2>3. \A e \in emitted' : e.kind = "record" => e.ktime <= last_released'
    <3> TAKE e \in emitted'
    <3>1. e.ktime \in Nat
      BY <1>2 DEF Event
    <3>2. CASE e \in emitted
      BY <1>1, <1>6, <2>1, <3>1, <3>2 DEF OrderInv
    <3>3. CASE e \notin emitted
      BY <1>1, <1>2, <2>1, <3>3
    <3> QED BY <3>2, <3>3
  <2>4. RecordsOrdered'
    <3> SUFFICES ASSUME NEW e \in emitted', NEW f \in emitted',
                        e.kind = "record", f.kind = "record",
                        e.batch < f.batch
                 PROVE  e.ktime <= f.ktime
      BY DEF RecordsOrdered
    <3>1. e.batch < batch
      BY <1>1, <1>2, <1>3, <1>4 DEF Event
    <3>2. e \in emitted
      BY <1>1, <1>2, <3>1
    <3>3. CASE f \in emitted
      BY <1>6, <3>2, <3>3 DEF OrderInv, RecordsOrdered
    <3>4. CASE f \notin emitted
      BY <1>1, <1>2, <1>6, <2>1, <2>3, <3>2, <3>4
    <3> QED BY <3>3, <3>4
  <2> QED BY <1>3, <1>4, <2>2, <2>3, <2>4 DEF OrderInv
<1> QED BY <1>5, <1>6

(* finish() keeps the order although it does not raise last_released.      *)
LEMMA FinishOrder ==
    ASSUME TypeOK, OrderInv, NEW r \in pending, ReleaseRest(r)
    PROVE  OrderInv'
<1>1. r \in Record /\ r.ktime \in Nat /\ last_released \in Nat /\ batch \in Nat
  BY DEF TypeOK, Record
<1>2. /\ emitted \subseteq emitted'
      /\ \A e \in emitted' \ emitted :
            e.batch = batch /\ (e.kind = "record" => e.ktime = r.ktime)
      /\ stats'.late_events = stats.late_events
      /\ emitted' \subseteq Event
  BY <1>1, ProcessEmits, ProcessTypes, ReleaseStatsTypes
     DEF ReleaseRest, Release
<1>3. /\ pc = "finish" /\ pc' = pc /\ batch' = batch
      /\ pending' = pending \ {r} /\ last_released' = last_released
  BY DEF ReleaseRest, Release
<1>4. \A e \in emitted' : e.batch <= batch'
  BY <1>1, <1>2, <1>3 DEF OrderInv
<1>5. CASE stats.late_events # 0
  BY <1>2, <1>4, <1>5 DEF OrderInv, RecordsOrdered
<1>6. CASE stats.late_events = 0
  <2>1. last_released <= r.ktime
    BY <1>6 DEF OrderInv
  <2>2. \A e \in emitted' : e.kind = "record" /\ e.batch < batch
                             => e.ktime <= last_released
    BY <1>1, <1>2, <1>6 DEF OrderInv
  <2>3. RecordsOrdered'
    <3> SUFFICES ASSUME NEW e \in emitted', NEW f \in emitted',
                        e.kind = "record", f.kind = "record",
                        e.batch < f.batch
                 PROVE  e.ktime <= f.ktime
      BY DEF RecordsOrdered
    <3>1. e.batch < batch /\ e.ktime \in Nat
      BY <1>1, <1>2, <1>3, <1>4 DEF Event
    <3>2. e \in emitted /\ e.ktime <= last_released
      BY <1>1, <1>2, <2>2, <3>1
    <3>3. CASE f \in emitted
      BY <1>6, <3>2, <3>3 DEF OrderInv, RecordsOrdered
    <3>4. CASE f \notin emitted
      BY <1>1, <1>2, <2>1, <3>1, <3>2, <3>4
    <3> QED BY <3>3, <3>4
  <2> QED BY <1>2, <1>3, <1>4, <1>6, <2>2, <2>3 DEF OrderInv
<1> QED BY <1>5, <1>6

(* Without late events, individually reported records never go backwards   *)
(* from one batch to a later one: the reorder window does what it is for.  *)
THEOREM RecordsStayOrdered == Spec => []RecordsOrdered
<1>1. Init => OrderInv
  BY DEF Init, OrderInv, RecordsOrdered
<1>2. TypeOK /\ OrderInv /\ [Next]_vars => OrderInv'
  <2> SUFFICES ASSUME TypeOK, OrderInv, [Next]_vars PROVE OrderInv'
    OBVIOUS
  <2>1. ASSUME NEW s \in Shape, NEW t \in 1..MaxTime, Push(s, t)
        PROVE OrderInv'
    <3>1. stats'.late_events = stats.late_events + LateCount(t)
      BY <2>1 DEF Push, AcceptedStats, TypeOK, Stats
    <3>2. stats'.late_events = 0 =>
            stats.late_events = 0 /\ last_released <= t
      BY <3>1 DEF LateCount, TypeOK, Stats
    <3>3. \A x \in pending' : x \in pending \/ x.ktime = t
      BY <2>1 DEF Push
    <3>4. pc' = pc /\ batch' = batch /\ emitted' = emitted
          /\ last_released' = last_released
      BY <2>1 DEF Push
    <3> QED BY <3>2, <3>3, <3>4 DEF OrderInv, RecordsOrdered
  <2>2. ASSUME NEW r \in pending, ReleaseReady(r) PROVE OrderInv'
    BY <2>2, DrainOrder, ReleaseStatsTypes DEF ReleaseReady
  <2>3. ASSUME NEW r \in pending, ReleaseForced(r) PROVE OrderInv'
    BY <2>3, DrainOrder, ReleaseStatsTypes DEF ReleaseForced
  <2>4. ASSUME NEW r \in pending, ReleaseRest(r) PROVE OrderInv'
    BY <2>4, FinishOrder
  <2>5. CASE NoteLost
    <3>1. stats'.late_events = stats.late_events
      BY <2>5 DEF NoteLost, TypeOK, Stats
    <3> QED BY <2>5, <3>1 DEF NoteLost, OrderInv, RecordsOrdered
  <2>6. CASE BeginDrain \/ ReadyExhausted
    BY <2>6 DEF BeginDrain, ReadyExhausted, OrderInv, RecordsOrdered
  <2>7. CASE EndDrain
    <3>1. pc = "forced" /\ batch' \in {batch, batch + 1}
      BY <2>7 DEF EndDrain
    <3>2. \A e \in emitted : e.batch <= batch'
      BY <3>1 DEF OrderInv, TypeOK, Event
    <3> QED BY <2>7, <3>1, <3>2 DEF EndDrain, OrderInv, RecordsOrdered
  <2>8. CASE BeginFinish
    BY <2>8 DEF BeginFinish, OrderInv, RecordsOrdered
  <2>9. CASE EndFinish
    <3>1. \A d \in Descriptors : \A e \in Total(files[d]) :
            e.batch = batch /\ e.kind = "total"
      BY DEF Total
    <3>2. \A e \in emitted' : e \in emitted \/ (e.batch = batch /\ e.kind = "total")
      BY <2>9, <3>1 DEF EndFinish
    <3>3. /\ stats' = stats /\ batch' = batch /\ pending' = pending
          /\ last_released' = last_released /\ pc' = "done" /\ batch \in Nat
      BY <2>9 DEF EndFinish, TypeOK
    <3>4. \A e \in emitted' : e.batch <= batch'
      BY <3>2, <3>3 DEF OrderInv
    <3>5. RecordsOrdered'
      BY <3>2, <3>3 DEF OrderInv, RecordsOrdered
    <3> QED BY <3>2, <3>3, <3>4, <3>5 DEF OrderInv
  <2>10. CASE Done \/ UNCHANGED vars
    BY <2>10 DEF Done, vars, OrderInv, RecordsOrdered
  <2> QED BY <2>1, <2>2, <2>3, <2>4, <2>5, <2>6, <2>7, <2>8, <2>9, <2>10
          DEF Next
<1>3. OrderInv => RecordsOrdered
  BY DEF OrderInv
<1> QED BY <1>1, <1>2, <1>3, TypeCorrect, PTL DEF Spec

-----------------------------------------------------------------------------
(* The reorder window is wide enough for the skew it is sized for          *)

\* As long as no record was skewed and none was forced out, last_released has
\* stayed a whole window behind the newest timestamp.
WindowInv ==
    /\ pc = "ready" => cutoff = Cutoff
    /\ ~skewed /\ stats.forced_releases = 0 =>
          stats.late_events = 0 /\ last_released <= Cutoff

(* If no record arrives more than Window behind the newest and the cap     *)
(* forces nothing out, no record is ever late.                             *)
THEOREM WindowIsWideEnough == Spec => []WindowSuffices
<1>1. Init => WindowInv
  BY WindowAssumption DEF Init, WindowInv, Cutoff
<1>2. TypeOK /\ WindowInv /\ [Next]_vars => WindowInv'
  <2> SUFFICES ASSUME TypeOK, WindowInv, [Next]_vars PROVE WindowInv'
    OBVIOUS
  <2>0. /\ newest \in Nat /\ last_released \in Nat /\ Window \in Nat
        /\ stats.late_events \in Nat /\ stats.forced_releases \in Nat
        /\ stats \in Stats
    BY WindowAssumption DEF TypeOK, Stats
  <2>1. ASSUME NEW s \in Shape, NEW t \in 1..MaxTime, Push(s, t)
        PROVE WindowInv'
    <3>1. /\ stats'.late_events = stats.late_events + LateCount(t)
          /\ stats'.forced_releases = stats.forced_releases
      <4>1. AcceptedStats \in Stats
            /\ AcceptedStats.late_events = stats.late_events
            /\ AcceptedStats.forced_releases = stats.forced_releases
        BY <2>0 DEF AcceptedStats, Stats
      <4> QED BY <2>1, <4>1 DEF Push, Stats
    <3>2. /\ newest' = IF t > newest THEN t ELSE newest
          /\ skewed' = (skewed \/ newest - t > Window)
          /\ pc = "idle" /\ pc' = pc /\ last_released' = last_released
      BY <2>1 DEF Push
    <3>3. t \in Nat
      BY BoundsAssumption
    <3>4. Cutoff <= Cutoff'
      BY <2>0, <3>2, <3>3 DEF Cutoff
    <3>5. ASSUME ~skewed', stats'.forced_releases = 0
          PROVE  stats'.late_events = 0 /\ last_released' <= Cutoff'
      <4>1. stats.late_events = 0 /\ last_released <= Cutoff
        BY <3>1, <3>2, <3>5 DEF WindowInv
      <4>2. newest - t <= Window
        <5>1. ~(newest - t > Window)
          BY <3>2, <3>5, Zenon
        <5> QED BY <2>0, <3>3, <5>1
      <4>3. last_released <= t
        BY <2>0, <3>3, <4>1, <4>2 DEF Cutoff
      <4>4. LateCount(t) = 0
        BY <2>0, <3>3, <4>3 DEF LateCount
      <4>5. Cutoff \in Nat /\ Cutoff' \in Nat
        BY <2>0, <3>2, <3>3 DEF Cutoff
      <4> QED BY <2>0, <3>1, <3>2, <3>4, <4>1, <4>4, <4>5
    <3> QED BY <3>2, <3>5 DEF WindowInv
  <2>2. ASSUME NEW r \in pending, ReleaseReady(r) PROVE WindowInv'
    <3>1. r \in Record /\ r.ktime \in Nat
      BY DEF TypeOK, Record
    <3>2. /\ stats'.late_events = stats.late_events
          /\ stats'.forced_releases = stats.forced_releases
      BY <2>2, <3>1, ProcessTypes, ReleaseStatsTypes DEF ReleaseReady, Release
    <3>3. /\ pc = "ready" /\ pc' = pc /\ newest' = newest /\ cutoff' = cutoff
          /\ skewed' = skewed /\ r.ktime <= cutoff
          /\ last_released' \in {r.ktime, last_released}
      BY <2>2 DEF ReleaseReady, RaiseReleased, Release
    <3> QED BY <2>0, <3>2, <3>3 DEF WindowInv, Cutoff
  <2>3. ASSUME NEW r \in pending, ReleaseForced(r) PROVE WindowInv'
    <3>1. r \in Record
      BY DEF TypeOK
    <3>2. stats'.forced_releases = stats.forced_releases + 1
      BY <2>3, <3>1, ProcessTypes, ReleaseStatsTypes DEF ReleaseForced, Release
    <3>3. pc' = "forced"
      BY <2>3 DEF ReleaseForced, Release
    <3> QED BY <2>0, <3>2, <3>3 DEF WindowInv
  <2>4. ASSUME NEW r \in pending, ReleaseRest(r) PROVE WindowInv'
    <3>1. r \in Record
      BY DEF TypeOK
    <3>2. /\ stats'.late_events = stats.late_events
          /\ stats'.forced_releases = stats.forced_releases
      BY <2>4, <3>1, ProcessTypes, ReleaseStatsTypes DEF ReleaseRest, Release
    <3> QED BY <2>4, <3>2 DEF ReleaseRest, Release, WindowInv, Cutoff
  <2>5. CASE NoteLost
    <3>1. /\ stats'.late_events = stats.late_events
          /\ stats'.forced_releases = stats.forced_releases
      BY <2>0, <2>5 DEF NoteLost, Stats
    <3> QED BY <2>5, <3>1 DEF NoteLost, WindowInv, Cutoff
  <2>6. CASE BeginDrain
    BY <2>6 DEF BeginDrain, WindowInv, Cutoff
  <2>7. CASE ReadyExhausted \/ EndDrain \/ BeginFinish \/ EndFinish
    BY <2>7 DEF ReadyExhausted, EndDrain, BeginFinish, EndFinish, WindowInv,
                Cutoff
  <2>8. CASE Done \/ UNCHANGED vars
    BY <2>8 DEF Done, vars, WindowInv, Cutoff
  <2> QED BY <2>1, <2>2, <2>3, <2>4, <2>5, <2>6, <2>7, <2>8 DEF Next
<1>3. WindowInv => WindowSuffices
  BY DEF WindowInv, WindowSuffices
<1> QED BY <1>1, <1>2, <1>3, TypeCorrect, PTL DEF Spec

-----------------------------------------------------------------------------
(* No record is lost and none is reported twice                            *)

\* The three places a record can be are disjoint, and cover what left the
\* window.
ConserveInv == pending \subseteq pushed /\ CountedOnce /\ NothingLost

(* Interpreting a record moves it, or the writes its descriptor holds, to  *)
(* exactly one other place.                                                *)
LEMMA ReleaseConserves ==
    ASSUME TypeOK, ConserveInv, NEW r \in pending, NEW s \in Stats, Release(r, s)
    PROVE  ConserveInv'
<1>1. /\ pending' = pending \ {r} /\ pushed' = pushed
      /\ r \in pushed /\ r \in Record
  BY DEF Release, TypeOK, ConserveInv
<1>2. /\ \A e \in emitted : r \notin e.from
      /\ \A d \in Descriptors : r \notin Held(d)
  BY DEF ConserveInv, CountedOnce
<1>3. \A d \in Descriptors : \A e \in Total(files[d]) : e.from = Held(d)
  BY DEF Total, Held
<1>4. \A d \in Descriptors : Held(d) # {} =>
        \E e \in Total(files[d]) : e.from = Held(d)
  BY DEF Total, Held
<1>5. \A e \in Single(r) : e.from = {r}
  BY DEF Single
<1>6. \E e \in Single(r) : e.from = {r}
  BY DEF Single
<1>7. \A d \in Descriptors : \A e, f \in Total(files[d]) : e = f
  BY DEF Total
<1>8. \A e, f \in Single(r) : e = f
  BY DEF Single
<1>9. \A d \in Descriptors : \A e \in Total(files[d]), f \in emitted :
        e.from \cap f.from = {}
  BY <1>3 DEF ConserveInv, CountedOnce, Reported
<1>10. Process(r, s)
  BY DEF Release
<1>11. CASE ProcessOpen(r, s)
  <2>1. r.desc \in Descriptors
    BY <1>1, <1>11 DEF ProcessOpen, Record
  <2>2. NoFile # [path |-> r.path, writes |-> {}, last |-> r.ktime]
    <3>1. [path |-> r.path, writes |-> {}, last |-> r.ktime] \in OpenFile
      BY <1>1, <1>11 DEF ProcessOpen, Record, OpenFile
    <3> QED BY <3>1, NoFileAssumption
  <2>3. \A d \in Descriptors : Held(d)' = IF d = r.desc THEN {} ELSE Held(d)
    BY <1>11, <2>1, <2>2 DEF ProcessOpen, Held, TypeOK
  <2>4. emitted' = emitted \cup Total(files[r.desc]) \cup Single(r)
    BY <1>11 DEF ProcessOpen
  <2>5. \A e, f \in emitted' : e # f => e.from \cap f.from = {}
    BY <1>2, <1>3, <1>5, <1>7, <1>8, <1>9, <2>1, <2>4
       DEF ConserveInv, CountedOnce
  <2>6. \A e \in emitted' : e.from \subseteq pushed' \ pending'
    BY <1>1, <1>3, <1>5, <2>1, <2>4 DEF ConserveInv, CountedOnce
  <2>7. ASSUME NEW d \in Descriptors, NEW x \in Held(d)'
        PROVE  x \in pushed' \ pending' /\ x.desc = d /\ ~Reported(x)'
    <3>1. d # r.desc /\ x \in Held(d)
      BY <2>3, <2>7
    <3>2. x \in pushed \ pending /\ x.desc = d /\ ~Reported(x) /\ x # r
      BY <1>2, <3>1 DEF ConserveInv, CountedOnce
    <3>3. \A e \in Total(files[r.desc]) : x \notin e.from
      BY <1>3, <2>1, <3>1, <3>2 DEF ConserveInv, CountedOnce
    <3> QED BY <1>1, <1>5, <2>4, <3>2, <3>3 DEF Reported
  <2>8. CountedOnce'
    BY <2>5, <2>6, <2>7 DEF CountedOnce
  <2>9. ASSUME NEW x \in pushed' \ pending', x.kind # "close"
        PROVE  Reported(x)' \/ \E d \in Descriptors : x \in Held(d)'
    <3>1. CASE x = r
      BY <1>6, <2>4, <3>1 DEF Reported
    <3>2. CASE Reported(x)
      BY <2>4, <3>2 DEF Reported
    <3>3. ASSUME NEW d \in Descriptors, x \in Held(d)
          PROVE  Reported(x)' \/ x \in Held(d)'
      BY <1>4, <2>3, <2>4, <3>3 DEF Reported
    <3> QED BY <1>1, <2>9, <3>1, <3>2, <3>3 DEF ConserveInv, NothingLost
  <2> QED BY <1>1, <2>8, <2>9 DEF ConserveInv, NothingLost
<1>12. CASE ProcessWrite(r, s)
  <2>1. r.desc \in Descriptors /\ files[r.desc] \in OpenFile
    BY <1>1, <1>12 DEF ProcessWrite, Record, TypeOK
  <2> DEFINE g == [path |-> files[r.desc].path,
                   writes |-> files[r.desc].writes \cup {r}, last |-> r.ktime]
  <2>2. g \in OpenFile
    BY <1>1, <1>12, <2>1 DEF ProcessWrite, Record, OpenFile
  <2>3. g # NoFile
    BY <2>2, NoFileAssumption
  <2>4. files' = [files EXCEPT ![r.desc] = g]
    BY <1>12 DEF ProcessWrite
  <2>5. \A d \in Descriptors :
          Held(d)' = IF d = r.desc THEN Held(d) \cup {r} ELSE Held(d)
    <3>1. /\ files'[r.desc] = g
          /\ \A d \in Descriptors \ {r.desc} : files'[d] = files[d]
      BY <2>1, <2>4 DEF TypeOK
    <3>2. files[r.desc] # NoFile
      BY <1>12 DEF ProcessWrite
    <3>3. Held(r.desc)' = files[r.desc].writes \cup {r}
      BY <2>3, <3>1 DEF Held
    <3> QED BY <3>1, <3>2, <3>3 DEF Held
  <2>6. emitted' = emitted
    BY <1>12 DEF ProcessWrite
  <2>7. CountedOnce'
    BY <1>1, <1>2, <2>1, <2>5, <2>6 DEF ConserveInv, CountedOnce, Reported
  <2>8. NothingLost'
    BY <1>1, <2>1, <2>5, <2>6 DEF ConserveInv, NothingLost, Reported
  <2> QED BY <1>1, <2>7, <2>8 DEF ConserveInv
<1>13. CASE ProcessWriteUnknown(r, s) \/ ProcessPlain(r, s)
  <2>1. emitted' = emitted \cup Single(r) /\ files' = files
    BY <1>13 DEF ProcessWriteUnknown, ProcessPlain
  <2>2. \A d \in Descriptors : Held(d)' = Held(d)
    BY <2>1 DEF Held
  <2>3. CountedOnce'
    BY <1>1, <1>2, <1>5, <1>8, <2>1, <2>2 DEF ConserveInv, CountedOnce, Reported
  <2>4. NothingLost'
    BY <1>1, <1>6, <2>1, <2>2 DEF ConserveInv, NothingLost, Reported
  <2> QED BY <1>1, <2>3, <2>4 DEF ConserveInv
<1>14. CASE ProcessClose(r, s)
  <2>1. r.desc \in Descriptors /\ r.kind = "close"
    BY <1>1, <1>14 DEF ProcessClose, Record
  <2>2. \A d \in Descriptors : Held(d)' = IF d = r.desc THEN {} ELSE Held(d)
    BY <1>14, <2>1 DEF ProcessClose, Held, TypeOK
  <2>3. emitted' = emitted \cup Total(files[r.desc])
    BY <1>14 DEF ProcessClose
  <2>4. \A e, f \in emitted' : e # f => e.from \cap f.from = {}
    BY <1>7, <1>9, <2>1, <2>3 DEF ConserveInv, CountedOnce
  <2>5. \A e \in emitted' : e.from \subseteq pushed' \ pending'
    BY <1>1, <1>3, <2>1, <2>3 DEF ConserveInv, CountedOnce
  <2>6. ASSUME NEW d \in Descriptors, NEW x \in Held(d)'
        PROVE  x \in pushed' \ pending' /\ x.desc = d /\ ~Reported(x)'
    <3>1. d # r.desc /\ x \in Held(d)
      BY <2>2, <2>6
    <3>2. x \in pushed \ pending /\ x.desc = d /\ ~Reported(x)
      BY <3>1 DEF ConserveInv, CountedOnce
    <3>3. \A e \in Total(files[r.desc]) : x \notin e.from
      BY <1>3, <2>1, <3>1, <3>2 DEF ConserveInv, CountedOnce
    <3> QED BY <1>1, <2>3, <3>2, <3>3 DEF Reported
  <2>7. CountedOnce'
    BY <2>4, <2>5, <2>6 DEF CountedOnce
  <2>8. ASSUME NEW x \in pushed' \ pending', x.kind # "close"
        PROVE  Reported(x)' \/ \E d \in Descriptors : x \in Held(d)'
    <3>1. x # r
      BY <2>1, <2>8
    <3>2. CASE Reported(x)
      BY <2>3, <3>2 DEF Reported
    <3>3. ASSUME NEW d \in Descriptors, x \in Held(d)
          PROVE  Reported(x)' \/ x \in Held(d)'
      BY <1>4, <2>2, <2>3, <3>3 DEF Reported
    <3> QED BY <1>1, <2>8, <3>1, <3>2, <3>3 DEF ConserveInv, NothingLost
  <2> QED BY <1>1, <2>7, <2>8 DEF ConserveInv, NothingLost
<1>15. CASE ProcessCloseUnknown(r, s)
  <2>1. emitted' = emitted /\ files' = files /\ r.kind = "close"
    BY <1>15 DEF ProcessCloseUnknown
  <2>2. \A d \in Descriptors : Held(d)' = Held(d)
    BY <2>1 DEF Held
  <2>3. CountedOnce'
    BY <1>1, <1>2, <2>1, <2>2 DEF ConserveInv, CountedOnce, Reported
  <2>4. NothingLost'
    BY <1>1, <2>1, <2>2 DEF ConserveInv, NothingLost, Reported
  <2> QED BY <1>1, <2>3, <2>4 DEF ConserveInv
<1> QED BY <1>10, <1>11, <1>12, <1>13, <1>14, <1>15 DEF Process

(* What the conservation theorems share: ConserveInv is inductive.         *)
LEMMA Conserved == Spec => []ConserveInv
<1>1. Init => ConserveInv
  BY DEF Init, ConserveInv, CountedOnce, NothingLost, Held
<1>2. TypeOK /\ BalanceInv /\ ConserveInv /\ [Next]_vars => ConserveInv'
  <2> SUFFICES ASSUME TypeOK, BalanceInv, ConserveInv, [Next]_vars
               PROVE  ConserveInv'
    OBVIOUS
  <2>1. ASSUME NEW s \in Shape, NEW t \in 1..MaxTime, Push(s, t)
        PROVE ConserveInv'
    <3> DEFINE r == [ktime |-> t, seq |-> sequence + 1, kind |-> s.kind,
                     desc |-> s.desc, path |-> s.path]
    <3>1. pending' = pending \cup {r} /\ pushed' = pushed \cup {r}
          /\ emitted' = emitted /\ files' = files
      BY <2>1 DEF Push
    <3>2. r \notin pushed
      <4>1. SUFFICES ASSUME r \in pushed PROVE FALSE
        OBVIOUS
      <4>2. r.seq <= sequence /\ r.seq = sequence + 1
        BY <4>1 DEF BalanceInv
      <4> QED BY <4>2 DEF TypeOK
    <3>3. \A d \in Descriptors : Held(d)' = Held(d)
      BY <3>1 DEF Held
    <3> QED BY <3>1, <3>2, <3>3 DEF ConserveInv, CountedOnce, NothingLost, Reported
  <2>2. ASSUME NEW r \in pending, ReleaseReady(r) PROVE ConserveInv'
    BY <2>2, ReleaseConserves, ReleaseStatsTypes DEF ReleaseReady
  <2>3. ASSUME NEW r \in pending, ReleaseForced(r) PROVE ConserveInv'
    BY <2>3, ReleaseConserves, ReleaseStatsTypes DEF ReleaseForced
  <2>4. ASSUME NEW r \in pending, ReleaseRest(r) PROVE ConserveInv'
    BY <2>4, ReleaseConserves, ReleaseStatsTypes DEF ReleaseRest
  <2>5. CASE EndFinish
    <3>1. /\ pending' = pending /\ pushed' = pushed
          /\ emitted' = emitted \cup UNION {Total(files[d]) : d \in Descriptors}
          /\ files' = [d \in Descriptors |-> NoFile]
      BY <2>5 DEF EndFinish
    <3>2. \A d \in Descriptors : Held(d)' = {}
      BY <3>1 DEF Held
    <3>3. \A d \in Descriptors : \A e \in Total(files[d]) : e.from = Held(d)
      BY DEF Total, Held
    <3>4. \A d \in Descriptors : Held(d) # {} =>
            \E e \in Total(files[d]) : e.from = Held(d)
      BY DEF Total, Held
    <3>5. \A d \in Descriptors : \A e, f \in Total(files[d]) : e = f
      BY DEF Total
    <3>6. \A c, d \in Descriptors : c # d => Held(c) \cap Held(d) = {}
      BY DEF ConserveInv, CountedOnce
    <3>7. \A d \in Descriptors : \A f \in emitted : Held(d) \cap f.from = {}
      BY DEF ConserveInv, CountedOnce, Reported
    <3>8. \A e \in emitted' :
            e \in emitted \/ \E d \in Descriptors : e \in Total(files[d])
      BY <3>1
    <3>9. \A e, f \in emitted' : e # f => e.from \cap f.from = {}
      <4> SUFFICES ASSUME NEW e \in emitted', NEW f \in emitted', e # f
                   PROVE  e.from \cap f.from = {}
        OBVIOUS
      <4>1. CASE e \in emitted /\ f \in emitted
        BY <4>1 DEF ConserveInv, CountedOnce
      <4>2. CASE e \in emitted /\ f \notin emitted
        BY <3>3, <3>7, <3>8, <4>2
      <4>3. CASE e \notin emitted /\ f \in emitted
        BY <3>3, <3>7, <3>8, <4>3
      <4>4. CASE e \notin emitted /\ f \notin emitted
        BY <3>3, <3>5, <3>6, <3>8, <4>4
      <4> QED BY <4>1, <4>2, <4>3, <4>4
    <3>10. \A e \in emitted' : e.from \subseteq pushed' \ pending'
      BY <3>1, <3>3, <3>8 DEF ConserveInv, CountedOnce
    <3>11. CountedOnce'
      BY <3>2, <3>9, <3>10 DEF CountedOnce
    <3>12. NothingLost'
      <4> SUFFICES ASSUME NEW x \in pushed \ pending, x.kind # "close"
                   PROVE  Reported(x)'
        BY <3>1 DEF NothingLost
      <4>1. CASE Reported(x)
        BY <3>1, <4>1 DEF Reported
      <4>2. ASSUME NEW d \in Descriptors, x \in Held(d) PROVE Reported(x)'
        BY <3>1, <3>4, <4>2 DEF Reported
      <4> QED BY <4>1, <4>2 DEF ConserveInv, NothingLost
    <3> QED BY <3>1, <3>11, <3>12 DEF ConserveInv
  <2>6. CASE NoteLost \/ BeginDrain \/ ReadyExhausted \/ EndDrain
              \/ BeginFinish \/ Done \/ UNCHANGED vars
    BY <2>6 DEF NoteLost, BeginDrain, ReadyExhausted, EndDrain, BeginFinish,
                Done, vars, ConserveInv, CountedOnce, NothingLost, Reported, Held
  <2> QED BY <2>1, <2>2, <2>3, <2>4, <2>5, <2>6 DEF Next
<1> QED BY <1>1, <1>2, TypeCorrect, Balanced, PTL DEF Spec

(* A record that left the window was reported or is held by its descriptor:*)
(* no path through reopen, close, forced release or finish loses one.      *)
THEOREM NoRecordLost == Spec => []NothingLost
<1>1. ConserveInv => NothingLost
  BY DEF ConserveInv
<1> QED BY <1>1, Conserved, PTL

(* No record is reported twice, and none while it still waits.             *)
THEOREM NoRecordTwice == Spec => []CountedOnce
<1>1. ConserveInv => CountedOnce
  BY DEF ConserveInv
<1> QED BY <1>1, Conserved, PTL

-----------------------------------------------------------------------------
(* What finish reports                                                     *)

\* What finish() leaves behind: an empty window, and no descriptor holding
\* writes that were not emitted.
FinishInv ==
    pc = "done" => pending = {} /\ \A d \in Descriptors : Held(d) = {}

(* FinishInv holds: the last step empties everything.                      *)
LEMMA Finished == Spec => []FinishInv
<1>1. Init => FinishInv
  BY DEF Init, FinishInv
<1>2. FinishInv /\ [Next]_vars => FinishInv'
  <2> SUFFICES ASSUME FinishInv, [Next]_vars PROVE FinishInv'
    OBVIOUS
  <2>1. CASE EndFinish
    BY <2>1 DEF EndFinish, FinishInv, Held
  <2>2. ASSUME NEW r \in pending, \/ ReleaseReady(r)
                                  \/ ReleaseForced(r)
                                  \/ ReleaseRest(r)
        PROVE  FinishInv'
    BY <2>2 DEF ReleaseReady, ReleaseForced, ReleaseRest, Release, FinishInv
  <2>3. ASSUME NEW s \in Shape, NEW t \in 1..MaxTime, Push(s, t)
        PROVE  FinishInv'
    BY <2>3 DEF Push, FinishInv
  <2>4. CASE NoteLost \/ BeginDrain \/ ReadyExhausted \/ EndDrain
               \/ BeginFinish
    BY <2>4 DEF NoteLost, BeginDrain, ReadyExhausted, EndDrain, BeginFinish,
                FinishInv
  <2>5. CASE Done \/ UNCHANGED vars
    BY <2>5 DEF Done, vars, FinishInv, Held
  <2> QED BY <2>1, <2>2, <2>3, <2>4, <2>5 DEF Next
<1> QED BY <1>1, <1>2, PTL DEF Spec

(* After finish every record but a close has been reported, those of files *)
(* that were never closed included: nothing waits in the window and no     *)
(* descriptor holds a total back.                                          *)
THEOREM FinishReports == Spec => []FinishReportsAll
<1>1. FinishInv /\ ConserveInv => FinishReportsAll
  BY DEF FinishInv, ConserveInv, NothingLost, FinishReportsAll
<1> QED BY <1>1, Finished, Conserved, PTL

-----------------------------------------------------------------------------
(* Attribution                                                             *)

\* The records interpreted so far, and among them: the open a write belongs
\* to, the writes of an open, and whether an open or close of the same
\* descriptor has ended it.
Gone == pushed \ pending

Boundary(x, d) == x.kind \in {"open", "close"} /\ x.desc = d

Opens(o, w) ==
    /\ o \in Gone
    /\ o.kind = "open"
    /\ o.desc = w.desc
    /\ Before(o, w)
    /\ ~\E x \in Gone : Boundary(x, w.desc) /\ Before(o, x) /\ Before(x, w)

Written(o) == {w \in Gone : w.kind = "write" /\ Opens(o, w)}

Ended(o) == \E x \in Gone : Boundary(x, o.desc) /\ Before(o, x)

\* Records leave the window in key order.
KeyOrder ==
    /\ \A r \in Gone, p \in pending : Before(r, p)
    /\ pc \notin {"finish", "done"} => \A r \in Gone : r.ktime <= last_released

\* An open file is exactly the last open of its descriptor, with its writes.
TableTrue ==
    /\ \A d \in Descriptors :
          files[d] # NoFile =>
             \E o \in Gone : /\ o.kind = "open" /\ o.desc = d /\ ~Ended(o)
                             /\ files[d].path = o.path
                             /\ files[d].writes = Written(o)
    /\ pc # "done" =>
          \A o \in Gone :
             o.kind = "open" /\ files[o.desc] = NoFile => Ended(o)

\* Every total is of an open that has ended, or of a finished recording.
TotalsEarned ==
    \A e \in emitted : e.kind = "total" =>
       \E o \in Gone : /\ o.kind = "open" /\ (pc = "done" \/ Ended(o))
                       /\ e.path = o.path
                       /\ e.from = Written(o) /\ Written(o) # {}

\* Every such open that was written has its total.
TotalsGiven ==
    \A o \in Gone :
       o.kind = "open" /\ (pc = "done" \/ Ended(o)) /\ Written(o) # {} =>
          \E e \in emitted :
             e.kind = "total" /\ e.path = o.path /\ e.from = Written(o)

\* A write is reported by itself exactly when no open owns it.
StraysAlone ==
    \A w \in Gone : w.kind = "write" =>
       ((\A o \in Gone : ~Opens(o, w))
          <=> \E e \in emitted : e.kind = "record" /\ w \in e.from)

SeqUnique == \A r, s \in pushed : r.seq = s.seq => r = s

\* What AttributionMatchesSorted needs to be inductive.
AttributionInv ==
    /\ SeqUnique
    /\ stats.late_events = 0 =>
          KeyOrder /\ TableTrue /\ TotalsEarned /\ TotalsGiven /\ StraysAlone

(* The keys are totally ordered, because no two records share a sequence   *)
(* number.                                                                 *)
LEMMA KeysTotal ==
    ASSUME TypeOK, SeqUnique, NEW a \in pushed, NEW b \in pushed
    PROVE  /\ ~(Before(a, b) /\ Before(b, a))
           /\ a # b => Before(a, b) \/ Before(b, a)
<1>1. a.ktime \in Nat /\ b.ktime \in Nat /\ a.seq \in Nat /\ b.seq \in Nat
  BY DEF TypeOK, Record
<1> QED BY <1>1 DEF Before, SeqUnique

(* Two opens of one descriptor that nothing has ended are the same open.   *)
LEMMA LastOpenUnique ==
    ASSUME TypeOK, SeqUnique, NEW a \in Gone, NEW b \in Gone,
           a.kind = "open", b.kind = "open", a.desc = b.desc,
           ~Ended(a), ~Ended(b)
    PROVE  a = b
BY KeysTotal DEF Gone, Ended, Boundary

(* Releasing the oldest record r appends it to the interpreted records: it *)
(* changes no earlier attribution, it is written against the open that has *)
(* not ended, and it ends opens if it is itself an open or a close.        *)
LEMMA ReleaseAppends ==
    ASSUME TypeOK, ConserveInv, SeqUnique, KeyOrder,
           NEW r \in pending, pending' = pending \ {r}, pushed' = pushed
    PROVE  /\ r \in Record /\ r \notin Gone /\ Gone' = Gone \cup {r}
           /\ \A o \in Gone', w \in Gone : Opens(o, w)' <=> Opens(o, w)
           /\ \A o \in Gone' :
                 Opens(o, r)' <=>
                    o \in Gone /\ o.kind = "open" /\ o.desc = r.desc /\ ~Ended(o)
           /\ Written(r)' = {} /\ ~Ended(r)'
           /\ \A o \in Gone :
                 /\ Ended(o)' <=> Ended(o) \/ Boundary(r, o.desc)
                 /\ r.kind # "write" \/ r.desc # o.desc \/ Ended(o)
                       => Written(o)' = Written(o)
                 /\ o.kind = "open" /\ r.kind = "write" /\ r.desc = o.desc
                       /\ ~Ended(o)
                       => Written(o)' = Written(o) \cup {r}
<1>1. r \in Record /\ r \in pushed /\ r \notin Gone /\ Gone' = Gone \cup {r}
  BY DEF TypeOK, ConserveInv, Gone
<1>2. \A x \in Gone : Before(x, r) /\ ~Before(r, x)
  BY <1>1, KeysTotal DEF KeyOrder, Gone
<1>3. ~Before(r, r)
  BY <1>1 DEF Before, Record
<1>4. \A o \in Gone', w \in Gone : Opens(o, w)' <=> Opens(o, w)
  BY <1>1, <1>2, <1>3 DEF Opens
<1>5. \A o \in Gone' :
        Opens(o, r)' <=>
           o \in Gone /\ o.kind = "open" /\ o.desc = r.desc /\ ~Ended(o)
  BY <1>1, <1>2, <1>3 DEF Opens, Ended
<1>6. Written(r)' = {} /\ ~Ended(r)'
  BY <1>1, <1>2, <1>3 DEF Written, Ended, Opens
<1>7. ASSUME NEW o \in Gone
      PROVE  /\ Ended(o)' <=> Ended(o) \/ Boundary(r, o.desc)
             /\ r.kind # "write" \/ r.desc # o.desc \/ Ended(o)
                   => Written(o)' = Written(o)
             /\ o.kind = "open" /\ r.kind = "write" /\ r.desc = o.desc
                   /\ ~Ended(o)
                   => Written(o)' = Written(o) \cup {r}
  <2>1. Ended(o)' <=> Ended(o) \/ Boundary(r, o.desc)
    BY <1>1, <1>2, <1>7 DEF Ended, Boundary
  <2>2. Written(o)' = Written(o) \cup {w \in {r} : w.kind = "write" /\ Opens(o, w)'}
    BY <1>1, <1>4, <1>7 DEF Written
  <2>3. Opens(o, r)' <=> o.kind = "open" /\ o.desc = r.desc /\ ~Ended(o)
    BY <1>1, <1>5, <1>7
  <2> QED BY <2>1, <2>2, <2>3
<1> QED BY <1>1, <1>4, <1>5, <1>6, <1>7

(* flush_file reports a written descriptor's path and all its writes, and  *)
(* nothing for one that is not open or was never written.                  *)
LEMMA TotalReports ==
    ASSUME NEW d \in Descriptors
    PROVE  /\ files[d] = NoFile => Total(files[d]) = {}
           /\ \A e \in Total(files[d]) :
                 /\ e.kind = "total" /\ e.path = files[d].path
                 /\ e.from = files[d].writes /\ e.from # {}
           /\ files[d] # NoFile /\ files[d].writes # {} =>
                 \E e \in Total(files[d]) : TRUE
<1> DEFINE t == [batch |-> batch, kind |-> "total", ktime |-> files[d].last,
                 path |-> files[d].path, from |-> files[d].writes]
<1>1. CASE files[d] = NoFile \/ files[d].writes = {}
  BY <1>1 DEF Total
<1>2. CASE files[d] # NoFile /\ files[d].writes # {}
  <2>1. Total(files[d]) = {t}
    BY <1>2 DEF Total
  <2> QED BY <1>2, <2>1
<1> QED BY <1>1, <1>2

(* An open or a close of a descriptor: flushing the total of what it       *)
(* pointed at gives the open that ends here its total, and no other.       *)
LEMMA BoundaryAttributes ==
    ASSUME TypeOK, ConserveInv, SeqUnique, KeyOrder, TableTrue, TotalsEarned,
           TotalsGiven, StraysAlone,
           NEW r \in pending, pending' = pending \ {r}, pushed' = pushed,
           pc # "done", pc' = pc,
           r.kind \in {"open", "close"}, r.desc \in Descriptors,
           \A e \in emitted' : \/ e \in emitted \cup Total(files[r.desc])
                               \/ e.kind = "record" /\ e.from = {r},
           emitted \cup Total(files[r.desc]) \subseteq emitted'
    PROVE  TotalsEarned' /\ TotalsGiven' /\ StraysAlone'
<1>1. /\ files[r.desc] = NoFile => Total(files[r.desc]) = {}
      /\ \A e \in Total(files[r.desc]) :
            /\ e.kind = "total" /\ e.path = files[r.desc].path
            /\ e.from = files[r.desc].writes /\ e.from # {}
      /\ files[r.desc] # NoFile /\ files[r.desc].writes # {} =>
            \E e \in Total(files[r.desc]) : TRUE
  BY TotalReports
<1> USE ReleaseAppends
<1>2. ASSUME NEW o \in Gone
      PROVE  /\ Written(o)' = Written(o)
             /\ Ended(o)' <=> Ended(o) \/ r.desc = o.desc
  BY <1>2 DEF Boundary
<1>3. TotalsEarned'
  <2> SUFFICES ASSUME NEW e \in emitted', e.kind = "total"
               PROVE  \E o \in Gone' :
                         /\ o.kind = "open" /\ Ended(o)'
                         /\ e.path = o.path
                         /\ e.from = Written(o)' /\ Written(o)' # {}
    BY DEF TotalsEarned
  <2>1. CASE e \in emitted
    BY <1>2, <2>1 DEF TotalsEarned
  <2>2. CASE e \in Total(files[r.desc])
    <3>1. files[r.desc] # NoFile
      BY <1>1, <2>2
    <3>2. PICK o \in Gone : /\ o.kind = "open" /\ o.desc = r.desc /\ ~Ended(o)
                            /\ files[r.desc].path = o.path
                            /\ files[r.desc].writes = Written(o)
      BY <3>1 DEF TableTrue
    <3> QED BY <1>1, <1>2, <2>2, <3>1, <3>2
  <2> QED BY <2>1, <2>2
<1>4. TotalsGiven'
  <2> SUFFICES ASSUME NEW o \in Gone', o.kind = "open", Ended(o)',
                      Written(o)' # {}
               PROVE  \E e \in emitted' :
                         e.kind = "total" /\ e.path = o.path /\ e.from = Written(o)'
    BY DEF TotalsGiven
  <2>1. o \in Gone
    OBVIOUS
  <2>2. CASE Ended(o)
    BY <1>2, <2>1, <2>2 DEF TotalsGiven
  <2>3. CASE ~Ended(o)
    <3>1. o.desc = r.desc
      BY <1>2, <2>1, <2>3
    <3>2. files[r.desc] # NoFile
      BY <2>1, <2>3, <3>1 DEF TableTrue
    <3>3. PICK p \in Gone : /\ p.kind = "open" /\ p.desc = r.desc /\ ~Ended(p)
                            /\ files[r.desc].path = p.path
                            /\ files[r.desc].writes = Written(p)
      BY <3>2 DEF TableTrue
    <3>4. p = o
      BY <2>1, <2>3, <3>1, <3>3, LastOpenUnique
    <3>5. files[r.desc].writes # {}
      BY <1>2, <2>1, <3>3, <3>4
    <3> QED BY <1>1, <1>2, <2>1, <3>2, <3>3, <3>4, <3>5
  <2> QED BY <2>2, <2>3
<1>5. StraysAlone'
  <2> SUFFICES ASSUME NEW w \in Gone', w.kind = "write"
               PROVE  (\A o \in Gone' : ~Opens(o, w)')
                         <=> \E e \in emitted' : e.kind = "record" /\ w \in e.from
    BY DEF StraysAlone
  <2>1. w \in Gone /\ w # r
    OBVIOUS
  <2>2. (\E e \in emitted' : e.kind = "record" /\ w \in e.from)
          <=> (\E e \in emitted : e.kind = "record" /\ w \in e.from)
    BY <1>1, <2>1
  <2>3. (\A o \in Gone' : ~Opens(o, w)') <=> (\A o \in Gone : ~Opens(o, w))
    BY <2>1 DEF Opens
  <2> QED BY <2>1, <2>2, <2>3 DEF StraysAlone
<1> QED BY <1>3, <1>4, <1>5

(* Interpreting the oldest record keeps every attribution that of the      *)
(* records sorted by time.                                                 *)
LEMMA ReleaseAttributes ==
    ASSUME TypeOK, ConserveInv, SeqUnique, KeyOrder, TableTrue, TotalsEarned,
           TotalsGiven, StraysAlone,
           NEW r \in pending, NEW s \in Stats, Release(r, s), pc # "done"
    PROVE  TableTrue' /\ TotalsEarned' /\ TotalsGiven' /\ StraysAlone'
<1>1. /\ pending' = pending \ {r} /\ pushed' = pushed /\ pc' = pc
      /\ r \in Record /\ Process(r, s)
  BY DEF Release, TypeOK
<1> USE <1>1
<1>a. /\ r \in Record /\ r \notin Gone /\ Gone' = Gone \cup {r}
      /\ \A o \in Gone', w \in Gone : Opens(o, w)' <=> Opens(o, w)
      /\ \A o \in Gone' :
            Opens(o, r)' <=>
               o \in Gone /\ o.kind = "open" /\ o.desc = r.desc /\ ~Ended(o)
      /\ Written(r)' = {} /\ ~Ended(r)'
      /\ \A o \in Gone :
            /\ Ended(o)' <=> Ended(o) \/ Boundary(r, o.desc)
            /\ r.kind # "write" \/ r.desc # o.desc \/ Ended(o)
                  => Written(o)' = Written(o)
            /\ o.kind = "open" /\ r.kind = "write" /\ r.desc = o.desc
                  /\ ~Ended(o)
                  => Written(o)' = Written(o) \cup {r}
  BY ReleaseAppends
<1>b. \A e \in Single(r) : e.kind = "record" /\ e.from = {r}
  BY DEF Single
<1>c. \A o \in Gone : o.kind = "open" => o.desc \in Descriptors
  BY DEF Gone, TypeOK, Record
<1>2. CASE ProcessOpen(r, s)
  <2> DEFINE f == [path |-> r.path, writes |-> {}, last |-> r.ktime]
  <2>1. r.kind = "open" /\ r.desc \in Descriptors
    BY <1>2 DEF ProcessOpen, Record
  <2>2. f # NoFile
    <3>1. f \in OpenFile
      BY <2>1 DEF Record, OpenFile
    <3> QED BY <3>1, NoFileAssumption
  <2>3. /\ files'[r.desc] = f
        /\ \A d \in Descriptors \ {r.desc} : files'[d] = files[d]
    BY <1>2, <2>1 DEF ProcessOpen, TypeOK
  <2>4. emitted' = emitted \cup Total(files[r.desc]) \cup Single(r)
    BY <1>2 DEF ProcessOpen
  <2>5. TableTrue'
    <3>1. ASSUME NEW d \in Descriptors, files'[d] # NoFile
          PROVE  \E o \in Gone' : /\ o.kind = "open" /\ o.desc = d /\ ~Ended(o)'
                                  /\ files'[d].path = o.path
                                  /\ files'[d].writes = Written(o)'
      <4>1. CASE d = r.desc
        <5>1. /\ r \in Gone' /\ r.kind = "open" /\ r.desc = d /\ ~Ended(r)'
              /\ files'[d].path = r.path /\ files'[d].writes = Written(r)'
          BY <1>a, <2>1, <2>3, <4>1
        <5> QED BY <5>1
      <4>2. CASE d # r.desc
        <5>1. PICK o \in Gone : /\ o.kind = "open" /\ o.desc = d /\ ~Ended(o)
                                /\ files[d].path = o.path
                                /\ files[d].writes = Written(o)
          BY <2>3, <3>1, <4>2 DEF TableTrue
        <5> QED BY <1>a, <2>3, <4>2, <5>1 DEF Boundary
      <4> QED BY <4>1, <4>2
    <3>2. ASSUME NEW o \in Gone', o.kind = "open", files'[o.desc] = NoFile
          PROVE  Ended(o)'
      BY <1>a, <1>c, <2>1, <2>2, <2>3, <3>2 DEF TableTrue
    <3> QED BY <3>1, <3>2 DEF TableTrue
  <2> QED BY <1>b, <2>1, <2>4, <2>5, BoundaryAttributes
<1>3. CASE ProcessWrite(r, s)
  <2>1. r.kind = "write" /\ r.desc \in Descriptors /\ files[r.desc] # NoFile
    BY <1>3 DEF ProcessWrite, Record
  <2>2. files[r.desc] \in OpenFile
    BY <2>1 DEF TypeOK
  <2> DEFINE f == [path |-> files[r.desc].path,
                   writes |-> files[r.desc].writes \cup {r}, last |-> r.ktime]
  <2>3. f # NoFile
    <3>1. f \in OpenFile
      BY <2>1, <2>2 DEF Record, OpenFile
    <3> QED BY <3>1, NoFileAssumption
  <2>4. /\ files'[r.desc] = f
        /\ \A d \in Descriptors \ {r.desc} : files'[d] = files[d]
    <3>1. files' = [files EXCEPT ![r.desc] = f]
      BY <1>3 DEF ProcessWrite
    <3> QED BY <2>1, <3>1 DEF TypeOK
  <2>5. emitted' = emitted
    BY <1>3 DEF ProcessWrite
  <2>6. \A o \in Gone : Ended(o)' <=> Ended(o)
    BY <1>a, <2>1 DEF Boundary
  <2>7. PICK p \in Gone : /\ p.kind = "open" /\ p.desc = r.desc /\ ~Ended(p)
                          /\ files[r.desc].path = p.path
                          /\ files[r.desc].writes = Written(p)
    BY <2>1 DEF TableTrue
  <2>8. TableTrue'
    <3>1. ASSUME NEW d \in Descriptors, files'[d] # NoFile
          PROVE  \E o \in Gone' : /\ o.kind = "open" /\ o.desc = d /\ ~Ended(o)'
                                  /\ files'[d].path = o.path
                                  /\ files'[d].writes = Written(o)'
      <4>1. CASE d = r.desc
        <5>1. Written(p)' = Written(p) \cup {r}
          BY <1>a, <2>1, <2>7
        <5>2. files'[d].path = p.path /\ files'[d].writes = Written(p)'
          BY <2>4, <2>7, <4>1, <5>1
        <5>3. p \in Gone' /\ p.kind = "open" /\ p.desc = d /\ ~Ended(p)'
          BY <1>a, <2>6, <2>7, <4>1
        <5> QED BY <5>2, <5>3
      <4>2. CASE d # r.desc
        <5>1. PICK o \in Gone : /\ o.kind = "open" /\ o.desc = d /\ ~Ended(o)
                                /\ files[d].path = o.path
                                /\ files[d].writes = Written(o)
          BY <2>4, <3>1, <4>2 DEF TableTrue
        <5> QED BY <1>a, <2>4, <4>2, <5>1 DEF Boundary
      <4> QED BY <4>1, <4>2
    <3>2. ASSUME NEW o \in Gone', o.kind = "open", files'[o.desc] = NoFile
          PROVE  Ended(o)'
      <4>1. o \in Gone
        BY <1>a, <2>1, <3>2
      <4> QED BY <1>c, <2>3, <2>4, <2>6, <3>2, <4>1 DEF TableTrue
    <3> QED BY <3>1, <3>2 DEF TableTrue
  <2>9. TotalsEarned'
    BY <1>a, <2>5, <2>6 DEF TotalsEarned
  <2>10. TotalsGiven'
    BY <1>a, <2>1, <2>5, <2>6 DEF TotalsGiven
  <2>11. StraysAlone'
    <3> SUFFICES ASSUME NEW w \in Gone', w.kind = "write"
                 PROVE  (\A o \in Gone' : ~Opens(o, w)')
                           <=> \E e \in emitted : e.kind = "record" /\ w \in e.from
      BY <2>5 DEF StraysAlone
    <3>1. CASE w \in Gone
      <4>1. (\A o \in Gone' : ~Opens(o, w)') <=> (\A o \in Gone : ~Opens(o, w))
        BY <1>a, <3>1 DEF Opens
      <4> QED BY <3>1, <4>1 DEF StraysAlone
    <3>2. CASE w = r
      <4>1. Opens(p, w)'
        BY <1>a, <2>7, <3>2
      <4>2. \A e \in emitted : w \notin e.from
        BY <3>2 DEF ConserveInv, CountedOnce
      <4> QED BY <1>a, <4>1, <4>2
    <3> QED BY <1>a, <3>1, <3>2
  <2> QED BY <2>8, <2>9, <2>10, <2>11
<1>4. CASE ProcessWriteUnknown(r, s) \/ ProcessPlain(r, s)
  <2>1. files' = files /\ emitted' = emitted \cup Single(r)
    BY <1>4 DEF ProcessWriteUnknown, ProcessPlain
  <2>2. /\ r.kind \in {"write", "plain"}
        /\ \A o \in Gone : o.kind = "open" /\ o.desc = r.desc =>
              r.kind = "write" /\ Ended(o)
    BY <1>4, <1>c, NoDescAssumption
       DEF ProcessWriteUnknown, ProcessPlain, TableTrue, Record
  <2>3. \A o \in Gone : /\ Ended(o)' <=> Ended(o)
                        /\ o.kind = "open" => Written(o)' = Written(o)
    BY <1>a, <2>2 DEF Boundary
  <2>4. TableTrue'
    <3>1. \A o \in Gone' : o.kind = "open" => o \in Gone
      BY <1>a, <2>2
    <3> QED BY <1>a, <2>1, <2>3, <3>1 DEF TableTrue
  <2>5. TotalsEarned'
    BY <1>a, <1>b, <2>1, <2>3 DEF TotalsEarned
  <2>6. TotalsGiven'
    BY <1>a, <2>1, <2>2, <2>3 DEF TotalsGiven
  <2>7. StraysAlone'
    <3> SUFFICES ASSUME NEW w \in Gone', w.kind = "write"
                 PROVE  (\A o \in Gone' : ~Opens(o, w)')
                           <=> \E e \in emitted' : e.kind = "record" /\ w \in e.from
      BY DEF StraysAlone
    <3>1. CASE w \in Gone
      <4>1. (\A o \in Gone' : ~Opens(o, w)') <=> (\A o \in Gone : ~Opens(o, w))
        BY <1>a, <3>1 DEF Opens
      <4> QED BY <1>a, <1>b, <2>1, <3>1, <4>1 DEF StraysAlone
    <3>2. CASE w = r
      <4>1. \A o \in Gone' : ~Opens(o, w)'
        BY <1>a, <2>2, <3>2
      <4>2. \E e \in Single(r) : e.kind = "record" /\ r \in e.from
        BY DEF Single
      <4> QED BY <2>1, <3>2, <4>1, <4>2
    <3> QED BY <1>a, <3>1, <3>2
  <2> QED BY <2>4, <2>5, <2>6, <2>7
<1>5. CASE ProcessClose(r, s) \/ ProcessCloseUnknown(r, s)
  <2>1. r.kind = "close" /\ r.desc \in Descriptors
    BY <1>5 DEF ProcessClose, ProcessCloseUnknown, Record
  <2>2. emitted' = emitted \cup Total(files[r.desc])
    BY <1>5 DEF ProcessClose, ProcessCloseUnknown, Total
  <2>3. \A d \in Descriptors :
          files'[d] = IF d = r.desc THEN NoFile ELSE files[d]
    BY <1>5, <2>1 DEF ProcessClose, ProcessCloseUnknown, TypeOK
  <2>4. TableTrue'
    <3>1. ASSUME NEW d \in Descriptors, files'[d] # NoFile
          PROVE  \E o \in Gone' : /\ o.kind = "open" /\ o.desc = d /\ ~Ended(o)'
                                  /\ files'[d].path = o.path
                                  /\ files'[d].writes = Written(o)'
      BY <1>a, <2>1, <2>3, <3>1 DEF TableTrue, Boundary
    <3>2. ASSUME NEW o \in Gone', o.kind = "open", files'[o.desc] = NoFile
          PROVE  Ended(o)'
      <4>1. o \in Gone
        BY <1>a, <2>1, <3>2
      <4> QED BY <1>a, <1>c, <2>1, <2>3, <3>2, <4>1 DEF TableTrue, Boundary
    <3> QED BY <3>1, <3>2 DEF TableTrue
  <2> QED BY <2>1, <2>2, <2>4, BoundaryAttributes
<1> QED BY <1>2, <1>3, <1>4, <1>5 DEF Process

(* A step of finish() or drain_ready() that releases its oldest record     *)
(* keeps AttributionInv.                                                   *)
LEMMA ReleaseAttribution ==
    ASSUME TypeOK, ConserveInv, AttributionInv,
           NEW r \in pending, NEW s \in Stats, Oldest(r), Release(r, s),
           s.late_events = stats.late_events,
           \/ pc = "finish"
           \/ pc \in {"ready", "forced"} /\ RaiseReleased(r)
    PROVE  AttributionInv'
<1>1. /\ pushed' = pushed /\ pending' = pending \ {r} /\ pc' = pc
      /\ r \in Record /\ r \in pushed
  BY DEF Release, TypeOK, ConserveInv
<1>2. stats'.late_events = stats.late_events
  BY <1>1, ProcessTypes DEF Release
<1>3. SeqUnique'
  BY <1>1 DEF AttributionInv, SeqUnique
<1>4. ASSUME stats.late_events = 0
      PROVE  KeyOrder' /\ TableTrue' /\ TotalsEarned' /\ TotalsGiven' /\ StraysAlone'
  <2>1. SeqUnique /\ KeyOrder /\ TableTrue /\ TotalsEarned /\ TotalsGiven /\ StraysAlone
    BY <1>4 DEF AttributionInv
  <2>2. TableTrue' /\ TotalsEarned' /\ TotalsGiven' /\ StraysAlone'
    BY <2>1, ReleaseAttributes
  <2>3. Gone' = Gone \cup {r}
    BY <1>1, <2>1, ReleaseAppends
  <2>4. \A x \in Gone', p \in pending' : Before(x, p)
    BY <1>1, <2>1, <2>3 DEF KeyOrder, Oldest
  <2>5. ASSUME pc \in {"ready", "forced"}, NEW x \in Gone'
        PROVE  x.ktime <= last_released'
    <3>1. last_released \in Nat /\ r.ktime \in Nat
      BY <1>1 DEF TypeOK, Record
    <3>2. /\ last_released' \in Nat
          /\ r.ktime <= last_released' /\ last_released <= last_released'
      BY <2>5, <3>1 DEF RaiseReleased
    <3>3. CASE x = r
      BY <3>2, <3>3
    <3>4. CASE x \in Gone
      <4>1. x.ktime \in Nat /\ x.ktime <= last_released
        BY <2>1, <2>5, <3>4 DEF KeyOrder, Gone, TypeOK, Record
      <4> QED BY <3>1, <3>2, <4>1
    <3> QED BY <2>3, <3>3, <3>4
  <2> QED BY <1>1, <2>2, <2>4, <2>5 DEF KeyOrder
<1> QED BY <1>2, <1>3, <1>4 DEF AttributionInv

(* Flushing every descriptor when nothing is pending gives the opens that  *)
(* nothing ended their totals.                                             *)
LEMMA FinishAttribution ==
    ASSUME TypeOK, ConserveInv, AttributionInv, EndFinish
    PROVE  AttributionInv'
<1>1. /\ pushed' = pushed /\ pending' = pending /\ pending = {} /\ pc' = "done"
      /\ pc = "finish" /\ stats' = stats
      /\ emitted' = emitted \cup UNION {Total(files[d]) : d \in Descriptors}
      /\ \A d \in Descriptors : files'[d] = NoFile
  BY DEF EndFinish
<1>2. /\ Gone' = Gone
      /\ \A o, w : Opens(o, w)' <=> Opens(o, w)
      /\ \A o : Written(o)' = Written(o) /\ (Ended(o)' <=> Ended(o))
  BY <1>1 DEF Gone, Opens, Written, Ended
<1>3. ASSUME NEW d \in Descriptors
      PROVE  /\ files[d] = NoFile => Total(files[d]) = {}
             /\ \A e \in Total(files[d]) :
                   /\ e.kind = "total" /\ e.path = files[d].path
                   /\ e.from = files[d].writes /\ e.from # {}
             /\ files[d] # NoFile /\ files[d].writes # {} =>
                   \E e \in Total(files[d]) : TRUE
  BY TotalReports
<1>4. \A e \in emitted' :
        e \in emitted \/ \E d \in Descriptors : e \in Total(files[d])
  BY <1>1
<1>5. ASSUME stats.late_events = 0
      PROVE  KeyOrder' /\ TableTrue' /\ TotalsEarned' /\ TotalsGiven' /\ StraysAlone'
  <2>1. KeyOrder /\ TableTrue /\ TotalsEarned /\ TotalsGiven /\ StraysAlone /\ SeqUnique
    BY <1>5 DEF AttributionInv
  <2>2. KeyOrder'
    BY <1>1 DEF KeyOrder
  <2>3. TableTrue'
    BY <1>1 DEF TableTrue
  <2>4. TotalsEarned'
    <3> SUFFICES ASSUME NEW e \in emitted', e.kind = "total"
                 PROVE  \E o \in Gone : /\ o.kind = "open"
                                        /\ e.path = o.path
                                        /\ e.from = Written(o) /\ Written(o) # {}
      BY <1>1, <1>2 DEF TotalsEarned
    <3>1. CASE e \in emitted
      BY <2>1, <3>1 DEF TotalsEarned
    <3>2. ASSUME NEW d \in Descriptors, e \in Total(files[d])
          PROVE  \E o \in Gone : /\ o.kind = "open"
                                 /\ e.path = o.path
                                 /\ e.from = Written(o) /\ Written(o) # {}
      <4>1. files[d] # NoFile
        BY <1>3, <3>2
      <4>2. PICK o \in Gone : /\ o.kind = "open" /\ o.desc = d /\ ~Ended(o)
                              /\ files[d].path = o.path
                              /\ files[d].writes = Written(o)
        BY <2>1, <4>1 DEF TableTrue
      <4> QED BY <1>3, <3>2, <4>2
    <3> QED BY <1>4, <3>1, <3>2
  <2>5. TotalsGiven'
    <3> SUFFICES ASSUME NEW o \in Gone, o.kind = "open", Written(o) # {}
                 PROVE  \E e \in emitted' :
                           e.kind = "total" /\ e.path = o.path /\ e.from = Written(o)
      BY <1>2 DEF TotalsGiven
    <3>1. CASE Ended(o)
      BY <1>1, <2>1, <3>1 DEF TotalsGiven
    <3>2. CASE ~Ended(o)
      <4>1. o.desc \in Descriptors
        BY DEF Gone, TypeOK, Record
      <4>2. files[o.desc] # NoFile
        BY <1>1, <2>1, <3>2 DEF TableTrue
      <4>3. PICK p \in Gone : /\ p.kind = "open" /\ p.desc = o.desc /\ ~Ended(p)
                              /\ files[o.desc].path = p.path
                              /\ files[o.desc].writes = Written(p)
        BY <2>1, <4>1, <4>2 DEF TableTrue
      <4>4. p = o
        BY <2>1, <3>2, <4>3, LastOpenUnique
      <4>5. PICK e \in Total(files[o.desc]) : TRUE
        BY <1>3, <4>1, <4>2, <4>3, <4>4
      <4>6. e \in emitted'
        BY <1>1, <4>1
      <4> QED BY <1>3, <4>1, <4>3, <4>4, <4>5, <4>6
    <3> QED BY <3>1, <3>2
  <2>6. StraysAlone'
    <3>1. \A e \in emitted' : e.kind = "record" => e \in emitted
      BY <1>3, <1>4
    <3> QED BY <1>1, <1>2, <2>1, <3>1 DEF StraysAlone
  <2> QED BY <2>2, <2>3, <2>4, <2>5, <2>6
<1> QED BY <1>1, <1>5 DEF AttributionInv, SeqUnique

(* A record accepted on time goes after everything already interpreted, and*)
(* until it is released it changes no attribution.                         *)
LEMMA PushAttribution ==
    ASSUME TypeOK, BalanceInv, ConserveInv, AttributionInv,
           NEW s \in Shape, NEW t \in 1..MaxTime, Push(s, t)
    PROVE  AttributionInv'
<1> DEFINE r == [ktime |-> t, seq |-> sequence + 1, kind |-> s.kind,
                 desc |-> s.desc, path |-> s.path]
<1>1. /\ pending' = pending \cup {r} /\ pushed' = pushed \cup {r}
      /\ emitted' = emitted /\ files' = files /\ pc = "idle" /\ pc' = pc
      /\ last_released' = last_released
  BY DEF Push
<1>2. t \in Nat /\ sequence \in Nat /\ last_released \in Nat
  BY BoundsAssumption DEF TypeOK
<1>3. \A x \in pushed : x.seq \in Nat /\ x.ktime \in Nat /\ x.seq <= sequence
  BY DEF BalanceInv, TypeOK, Record
<1>4. r \notin pushed
  BY <1>2, <1>3
<1>5. SeqUnique'
  <2>1. \A x \in pushed : x.seq # r.seq
    BY <1>2, <1>3
  <2> QED BY <1>1, <2>1 DEF AttributionInv, SeqUnique
<1>6. /\ Gone' = Gone
      /\ \A o, w : Opens(o, w)' <=> Opens(o, w)
      /\ \A o : Written(o)' = Written(o) /\ (Ended(o)' <=> Ended(o))
  <2>1. Gone' = Gone
    BY <1>1, <1>4 DEF Gone
  <2> QED BY <2>1 DEF Opens, Written, Ended
<1>7. ASSUME stats'.late_events = 0
      PROVE  KeyOrder' /\ TableTrue' /\ TotalsEarned' /\ TotalsGiven' /\ StraysAlone'
  <2>1. stats.late_events = 0 /\ LateCount(t) = 0
    <3>1. stats'.late_events = stats.late_events + LateCount(t)
      BY DEF Push, AcceptedStats, TypeOK, Stats
    <3>2. stats.late_events \in Nat /\ LateCount(t) \in Nat
      BY DEF TypeOK, Stats, LateCount
    <3> QED BY <1>7, <3>1, <3>2
  <2>2. KeyOrder /\ TableTrue /\ TotalsEarned /\ TotalsGiven /\ StraysAlone
    BY <2>1 DEF AttributionInv
  <2>3. last_released <= t
    BY <1>2, <2>1 DEF LateCount
  <2>4. \A x \in Gone : Before(x, r)
    <3> TAKE x \in Gone
    <3>1. x \in pushed /\ x.ktime <= last_released
      BY <1>1, <2>2 DEF KeyOrder, Gone
    <3>2. x.ktime <= t /\ x.seq < sequence + 1
      BY <1>2, <1>3, <2>3, <3>1
    <3> QED BY <1>2, <1>3, <3>1, <3>2 DEF Before
  <2>5. KeyOrder'
    BY <1>1, <1>6, <2>2, <2>4 DEF KeyOrder
  <2>6. TableTrue'
    BY <1>1, <1>6, <2>2 DEF TableTrue
  <2>7. TotalsEarned' /\ TotalsGiven' /\ StraysAlone'
    BY <1>1, <1>6, <2>2 DEF TotalsEarned, TotalsGiven, StraysAlone
  <2> QED BY <2>5, <2>6, <2>7
<1> QED BY <1>5, <1>7 DEF AttributionInv

(* AttributionInv is inductive.                                            *)
LEMMA Attributed == Spec => []AttributionInv
<1>1. Init => AttributionInv
  BY DEF Init, AttributionInv, SeqUnique, KeyOrder, TableTrue, TotalsEarned,
         TotalsGiven, StraysAlone, Gone
<1>2. TypeOK /\ BalanceInv /\ ConserveInv /\ AttributionInv /\ [Next]_vars
        => AttributionInv'
  <2> SUFFICES ASSUME TypeOK, BalanceInv, ConserveInv, AttributionInv,
                      [Next]_vars
               PROVE  AttributionInv'
    OBVIOUS
  <2>1. ASSUME NEW s \in Shape, NEW t \in 1..MaxTime, Push(s, t)
        PROVE AttributionInv'
    BY <2>1, PushAttribution
  <2>2. ASSUME NEW r \in pending, ReleaseReady(r) PROVE AttributionInv'
    BY <2>2, ReleaseAttribution, ReleaseStatsTypes DEF ReleaseReady
  <2>3. ASSUME NEW r \in pending, ReleaseForced(r) PROVE AttributionInv'
    BY <2>3, ReleaseAttribution, ReleaseStatsTypes DEF ReleaseForced
  <2>4. ASSUME NEW r \in pending, ReleaseRest(r) PROVE AttributionInv'
    BY <2>4, ReleaseAttribution, ReleaseStatsTypes DEF ReleaseRest
  <2>5. CASE EndFinish
    BY <2>5, FinishAttribution
  <2>6. CASE NoteLost \/ BeginDrain \/ ReadyExhausted \/ EndDrain
              \/ BeginFinish \/ Done \/ UNCHANGED vars
    <3>1. /\ pushed' = pushed /\ pending' = pending /\ files' = files
          /\ emitted' = emitted /\ last_released' = last_released
          /\ pc' = "done" <=> pc = "done"
          /\ pc' \notin {"finish", "done"} => pc \notin {"finish", "done"}
      BY <2>6 DEF NoteLost, BeginDrain, ReadyExhausted, EndDrain, BeginFinish,
                  Done, vars
    <3>2. stats'.late_events = stats.late_events
      BY <2>6 DEF NoteLost, BeginDrain, ReadyExhausted, EndDrain, BeginFinish,
                  Done, vars, TypeOK, Stats
    <3>3. /\ Gone' = Gone
          /\ \A o, w : Opens(o, w)' <=> Opens(o, w)
          /\ \A o : Written(o)' = Written(o) /\ (Ended(o)' <=> Ended(o))
      BY <3>1 DEF Gone, Opens, Written, Ended
    <3>4. SeqUnique' <=> SeqUnique
      BY <3>1 DEF SeqUnique
    <3>5. KeyOrder => KeyOrder'
      BY <3>1, <3>3 DEF KeyOrder
    <3>6. /\ TableTrue => TableTrue'
          /\ TotalsEarned => TotalsEarned'
          /\ TotalsGiven => TotalsGiven'
          /\ StraysAlone => StraysAlone'
      BY <3>1, <3>3 DEF TableTrue, TotalsEarned, TotalsGiven, StraysAlone
    <3> QED BY <3>2, <3>4, <3>5, <3>6 DEF AttributionInv
  <2> QED BY <2>1, <2>2, <2>3, <2>4, <2>5, <2>6 DEF Next
<1> QED BY <1>1, <1>2, TypeCorrect, Balanced, Conserved, PTL DEF Spec

(* Releasing through a window gives every write to the open it would have  *)
(* if the whole recording were sorted first: with no late record the totals*)
(* are one per open that was written, whole, and only writes no open owns  *)
(* are reported by themselves.                                             *)
THEOREM AttributionSorted == Spec => []AttributionMatchesSorted
<1>1. FinishInv /\ AttributionInv => AttributionMatchesSorted
  <2> SUFFICES ASSUME FinishInv, AttributionInv, pc = "done",
                      stats.late_events = 0
               PROVE  /\ {<<e.path, e.from>> :
                             e \in {f \in emitted : f.kind = "total"}}
                           = {<<o.path, WritesOf(o)>> :
                                 o \in {p \in pushed :
                                          p.kind = "open" /\ WritesOf(p) # {}}}
                      /\ \A w \in pushed :
                            w.kind = "write" =>
                               (OpenerOf(w) = {}
                                  <=> \E e \in emitted :
                                         e.kind = "record" /\ w \in e.from)
    BY DEF AttributionMatchesSorted
  <2>1. Gone = pushed
    BY DEF FinishInv, Gone
  <2>2. \A o, w : o \in OpenerOf(w) <=> Opens(o, w)
    BY <2>1 DEF OpenerOf, Opens, Boundary
  <2>3. \A o : WritesOf(o) = Written(o)
    BY <2>1, <2>2 DEF WritesOf, Written
  <2>4. TotalsEarned /\ TotalsGiven /\ StraysAlone
    BY DEF AttributionInv
  <2>5. {<<e.path, e.from>> : e \in {f \in emitted : f.kind = "total"}}
           = {<<o.path, WritesOf(o)>> :
                 o \in {p \in pushed : p.kind = "open" /\ WritesOf(p) # {}}}
    BY <2>1, <2>3, <2>4 DEF TotalsEarned, TotalsGiven
  <2>6. ASSUME NEW w \in pushed, w.kind = "write"
        PROVE  OpenerOf(w) = {}
                 <=> \E e \in emitted : e.kind = "record" /\ w \in e.from
    <3>1. OpenerOf(w) = {} <=> \A o \in Gone : ~Opens(o, w)
      BY <2>2 DEF Opens
    <3> QED BY <2>1, <2>4, <2>6, <3>1 DEF StraysAlone
  <2> QED BY <2>5, <2>6
<1> QED BY <1>1, Attributed, Finished, PTL

=============================================================================
