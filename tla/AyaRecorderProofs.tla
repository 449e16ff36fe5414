------------------------- MODULE AyaRecorderProofs -------------------------
(***************************************************************************)
(* What an eBPF recording guarantees for any number of processes, CPUs,    *)
(* records and any ring size: a complete verdict accounts for every event, *)
(* and a reported loss never stays out of it.                              *)
(***************************************************************************)
EXTENDS AyaRecorder, SequenceTheorems, TLAPS

\* Every variable the proofs speak of holds a value of its type.
Types ==
    /\ ring \in [Cpus -> Seq(Nat)]
    /\ reports \in [Cpus -> Nat]
    /\ drain \in [Cpus -> {"unopened", "check", "read", "stopped", "failed"}]
    /\ channel \in Seq(Nat \cup {Lost})
    /\ held \subseteq Nat
    /\ <<lost_records, timed_out, cap_reached, attach_failed>>
          \in BOOLEAN \X BOOLEAN \X BOOLEAN \X BOOLEAN
    /\ verdict \in {"none", "partial", "complete"}
    /\ clock \in Nat

\* No event of the tree disappears between the kernel and the session, unless
\* the cap cut it off and the flag says so.
AccountInv ==
    ~cap_reached =>
        Events \ foreign \subseteq unseen \cup dropped \cup InRings \cup InChannel
                                      \cup held \cup written

\* Once the drain threads were joined nothing more arrives, so an empty channel
\* stays empty; a complete verdict is only reached from there.
VerdictInv ==
    /\ pc \in {"rest", "decide"} \/ verdict = "complete" => \A c \in Cpus : Ended(c)
    /\ pc = "decide" \/ verdict = "complete" => channel = <<>> /\ held = {}
    /\ pc # "done" => verdict = "none"
    /\ verdict = "complete" => ~cap_reached /\ ~lost_records

(* What the channel holds when a record is taken off it.                   *)
LEMMA RangeOfHeadTail ==
    ASSUME NEW S, NEW s \in Seq(S), s # <<>>
    PROVE  /\ Head(s) \in S /\ Tail(s) \in Seq(S)
           /\ Range(s) = {Head(s)} \cup Range(Tail(s))
<1>1. /\ Head(s) \in S /\ Tail(s) \in Seq(S)
      /\ s = <<Head(s)>> \o Tail(s)
      /\ <<Head(s)>> \in Seq(S)
  BY HeadTailProperties, SeqEqual
<1>2. Range(s) = Range(<<Head(s)>>) \cup Range(Tail(s))
  BY <1>1, RangeConcatenation
<1>3. Range(<<Head(s)>>) = {Head(s)}
  BY DEF Range
<1> QED BY <1>1, <1>2, <1>3

(* What a ring holds when a record is added to it.                         *)
LEMMA RangeOfAppend ==
    ASSUME NEW S, NEW s \in Seq(S), NEW x \in S
    PROVE  Range(Append(s, x)) = Range(s) \cup {x}
<1>1. Append(s, x) = s \o <<x>> /\ <<x>> \in Seq(S)
  BY AppendIsConcat
<1>2. Range(<<x>>) = {x}
  BY DEF Range
<1>3. Range(s \o <<x>>) = Range(s) \cup Range(<<x>>)
  BY <1>1, RangeConcatenation
<1> QED BY <1>1, <1>2, <1>3

(* What three sequences hold one after the other.                          *)
LEMMA RangeOfThree ==
    ASSUME NEW S, NEW s \in Seq(S), NEW t \in Seq(S), NEW u \in Seq(S)
    PROVE  Range((s \o t) \o u) = Range(s) \cup Range(t) \cup Range(u)
<1>1. PICK v : v = s \o t
  OBVIOUS
<1>2. v \in Seq(S) /\ Range(v) = Range(s) \cup Range(t)
  BY <1>1, RangeConcatenation
<1>3. Range(v \o u) = Range(v) \cup Range(u)
  BY <1>2, RangeConcatenation
<1> QED BY <1>1, <1>2, <1>3

(* An empty channel or ring holds nothing.                                 *)
LEMMA RangeOfEmpty == Range(<<>>) = {}
BY DEF Range

(* An event of the tree is filtered out, dropped or put in a ring; all the *)
(* recorder holds stays where it is.                                       *)
LEMMA KernelStep ==
    ASSUME Types, AccountInv, VerdictInv, Kernel
    PROVE  Types' /\ AccountInv' /\ VerdictInv'
<1>1. UNCHANGED <<drain, channel, stop, main>>
  BY DEF Kernel, Fork, Exit, Recycle, Syscall
<1>2. VerdictInv'
  BY <1>1 DEF VerdictInv, Ended, main, flags
<1>3. CASE UNCHANGED <<ring, reports, clock, unseen, dropped, foreign>>
  BY <1>1, <1>2, <1>3 DEF Types, AccountInv, Events, InRings, InChannel, main, flags
<1>4. ASSUME NEW p \in Pids, NEW c \in Cpus, Syscall(p, c)
      PROVE  Types' /\ AccountInv' /\ VerdictInv'
  <2>1. /\ clock \in Nat /\ clock' = clock + 1 /\ clock' \in Nat
        /\ ring[c] \in Seq(Nat) /\ reports[c] \in Nat
        /\ proc[p] \in {"alive", "foreign"}
    BY <1>4 DEF Syscall, Types
  <2>2. Events' = Events \cup {clock'}
    BY <2>1 DEF Events
  <2>3. /\ unseen \subseteq unseen' /\ foreign \subseteq foreign'
        /\ dropped \subseteq dropped'
    BY <1>4 DEF Syscall, Output
  <2>4. \/ UNCHANGED <<ring, reports>> /\ clock' \in unseen' \cup foreign' \cup dropped'
        \/ /\ ring' = [ring EXCEPT ![c] = Append(@, clock')]
           /\ reports' \in [Cpus -> Nat]
    <3>1. CASE p \in tracked
      <4> DEFINE reporting == IF owed[c] THEN 1 ELSE 0
      <4>1. reports[c] + reporting \in Nat
        BY <2>1
      <4>2. CASE Len(ring[c]) + reports[c] + reporting < RingSize
        <5>1. /\ ring' = [ring EXCEPT ![c] = Append(@, clock')]
              /\ reports' = [reports EXCEPT ![c] = reports[c] + reporting]
          BY <1>4, <3>1, <4>2 DEF Syscall, Output
        <5> QED BY <4>1, <5>1 DEF Types
      <4>3. CASE ~(Len(ring[c]) + reports[c] + reporting < RingSize)
        BY <1>4, <3>1, <4>3 DEF Syscall, Output
      <4> QED BY <4>2, <4>3
    <3>2. CASE p \notin tracked
      BY <1>4, <2>1, <3>2 DEF Syscall
    <3> QED BY <3>1, <3>2
  <2>5. CASE UNCHANGED <<ring, reports>> /\ clock' \in unseen' \cup foreign' \cup dropped'
    <3>1. Types'
      BY <1>1, <2>1, <2>5 DEF Types, main, flags
    <3>2. AccountInv'
      BY <1>1, <2>2, <2>3, <2>5 DEF AccountInv, InRings, InChannel, main, flags
    <3> QED BY <1>2, <3>1, <3>2
  <2>6. CASE /\ ring' = [ring EXCEPT ![c] = Append(@, clock')]
             /\ reports' \in [Cpus -> Nat]
    <3>1. ring' \in [Cpus -> Seq(Nat)]
      BY <2>1, <2>6 DEF Types
    <3>2. Types'
      BY <1>1, <2>1, <2>6, <3>1 DEF Types, main, flags
    <3>3. \A x \in Cpus :
            Range(ring'[x]) = IF x = c THEN Range(ring[x]) \cup {clock'}
                              ELSE Range(ring[x])
      <4>1. Range(Append(ring[c], clock')) = Range(ring[c]) \cup {clock'}
        BY <2>1, RangeOfAppend
      <4>2. \A x \in Cpus :
              ring'[x] = IF x = c THEN Append(ring[c], clock') ELSE ring[x]
        BY <2>6 DEF Types
      <4> QED BY <4>1, <4>2
    <3>4. InRings' = InRings \cup {clock'}
      BY <3>3 DEF InRings
    <3>5. AccountInv'
      BY <1>1, <2>2, <2>3, <3>4 DEF AccountInv, InChannel, main, flags
    <3> QED BY <1>2, <3>2, <3>5
  <2> QED BY <2>4, <2>5, <2>6
<1> QED BY <1>3, <1>4 DEF Kernel, Fork, Exit, Recycle

(* A drain thread moves a whole ring to the channel, in front of it the    *)
(* loss it was told of, and does nothing once it has ended.                *)
LEMMA DrainStep ==
    ASSUME Types, AccountInv, VerdictInv, NEW c \in Cpus, Drain(c)
    PROVE  Types' /\ AccountInv' /\ VerdictInv'
<1>1. UNCHANGED <<clock, unseen, dropped, foreign, stop, main>> /\ ~Ended(c)
  BY DEF Drain, DrainChecks, DrainReads, DrainFails, kernel, Ended
<1>2. /\ pc \notin {"rest", "decide"} /\ verdict # "complete"
      /\ drain' \in [Cpus -> {"unopened", "check", "read", "stopped", "failed"}]
  BY <1>1 DEF VerdictInv, Types, Drain, DrainChecks, DrainReads, DrainFails
<1>3. VerdictInv'
  BY <1>1, <1>2 DEF VerdictInv, main, flags
<1>4. CASE UNCHANGED <<kernel, channel>>
  BY <1>1, <1>2, <1>3, <1>4
     DEF Types, AccountInv, Events, InRings, InChannel, kernel, main, flags
<1>5. CASE DrainReads(c)
  <2> DEFINE loss == IF reports[c] > 0 THEN <<Lost>> ELSE <<>>
             S == Nat \cup {Lost}
  <2>1. /\ channel \in Seq(S) /\ loss \in Seq(S) /\ ring[c] \in Seq(S)
        /\ ring[c] \in Seq(Nat) /\ channel \o loss \in Seq(S)
        /\ channel' = (channel \o loss) \o ring[c]
    <3>1. channel \in Seq(S) /\ loss \in Seq(S) /\ ring[c] \in Seq(Nat)
      <4>1. <<Lost>> \in Seq(S) /\ <<>> \in Seq(S)
        OBVIOUS
      <4>2. loss \in Seq(S)
        BY <4>1
      <4> QED BY <4>2 DEF Types
    <3>2. ring[c] \in Seq(S)
      BY <3>1
    <3>3. channel' = (channel \o loss) \o ring[c]
      BY <1>5 DEF DrainReads
    <3> QED BY <3>1, <3>2, <3>3
  <2>2. Range(channel') = Range(channel) \cup Range(loss) \cup Range(ring[c])
    <3> HIDE DEF loss, S
    <3> QED BY <2>1, RangeOfThree
  <2>3. Range(ring[c]) \subseteq Nat
    BY <2>1, RangeOfSeq
  <2>4. InChannel \cup Range(ring[c]) \subseteq InChannel'
    BY <2>2, <2>3, LostAssumption DEF InChannel
  <2>5. ring' = [ring EXCEPT ![c] = <<>>]
    BY <1>5 DEF DrainReads
  <2>6. InRings \subseteq InRings' \cup Range(ring[c])
    BY <2>5 DEF InRings, Types
  <2>7. AccountInv'
    BY <1>1, <2>4, <2>6 DEF AccountInv, Events, main, flags
  <2>8. Types'
    <3>1. ring' \in [Cpus -> Seq(Nat)] /\ reports' \in [Cpus -> Nat]
      BY <1>5 DEF DrainReads, Types
    <3>2. channel' \in Seq(S)
      BY <2>1
    <3> QED BY <1>1, <1>2, <3>1, <3>2 DEF Types, main, flags
  <2> QED BY <1>3, <2>7, <2>8
<1> QED BY <1>4, <1>5 DEF Drain, DrainChecks, DrainFails

(* Each step of record() keeps what it holds, writes it, or sets the flag  *)
(* that says it gave some of it up.                                        *)
LEMMA MainStep ==
    ASSUME Types, AccountInv, VerdictInv, Main
    PROVE  Types' /\ AccountInv' /\ VerdictInv'
<1> USE DEF flags
<1>1. ASSUME UNCHANGED <<ring, clock, unseen, dropped, foreign>>,
             InChannel \cup held \cup written
                \subseteq InChannel' \cup held' \cup written',
             cap_reached => cap_reached'
      PROVE  AccountInv'
  BY <1>1 DEF AccountInv, Events, InRings
<1>2. ASSUME UNCHANGED <<ring, reports, clock, unseen, dropped, foreign, channel,
                         held, written, lost_records, cap_reached>>,
             drain' \in [Cpus -> {"unopened", "check", "read", "stopped", "failed"}],
             timed_out' \in BOOLEAN, attach_failed' \in BOOLEAN,
             pc # "done",
             \/ verdict' = verdict /\ pc' \notin {"rest", "decide", "done"}
             \/ verdict' = "partial" /\ pc' = "done"
      PROVE  Types' /\ AccountInv' /\ VerdictInv'
  <2>1. Types'
    BY <1>2 DEF Types
  <2>2. AccountInv'
    BY <1>1, <1>2 DEF InChannel
  <2>3. VerdictInv'
    BY <1>2 DEF Types, VerdictInv
  <2> QED BY <2>1, <2>2, <2>3
<1>3. CASE \/ Loads \/ OpensBuffers \/ LogFails \/ SpawnFails \/ JoinsUnspawned
           \/ Spawns \/ SeedsRoot \/ LoopWriteFails \/ CommandExited \/ WaitFails
           \/ LoopTimesOut \/ GraceEnds \/ FinishWriteFails
  <2>1. pc # "done"
    BY <1>3 DEF Loads, OpensBuffers, LogFails, SpawnFails,
       JoinsUnspawned, Spawns, SeedsRoot, LoopWriteFails, CommandExited, WaitFails,
       LoopTimesOut, GraceEnds, FinishWriteFails
  <2>2. CASE OpensBuffers
    BY <1>2, <2>1, <2>2 DEF OpensBuffers, SessionDropped, kernel, Types
  <2>3. CASE Loads
    BY <1>2, <2>1, <2>3 DEF Loads, SessionDropped, kernel, Types
  <2>4. CASE LogFails \/ JoinsUnspawned \/ LoopWriteFails \/ WaitFails
             \/ FinishWriteFails
    BY <1>2, <2>1, <2>4 DEF LogFails, JoinsUnspawned, LoopWriteFails, WaitFails,
       FinishWriteFails, SessionDropped, kernel, Types
  <2>5. CASE SpawnFails \/ Spawns \/ SeedsRoot \/ CommandExited
             \/ LoopTimesOut \/ GraceEnds
    BY <1>2, <2>1, <2>5 DEF SpawnFails, Spawns, SeedsRoot, CommandExited,
       LoopTimesOut, GraceEnds, kernel, Types
  <2> QED BY <1>3, <2>2, <2>3, <2>4, <2>5
<1>4. ASSUME channel # <<>>
      PROVE  /\ Head(channel) \in Nat \cup {Lost}
             /\ Tail(channel) \in Seq(Nat \cup {Lost})
             /\ Range(channel) = {Head(channel)} \cup Range(Tail(channel))
  BY <1>4, RangeOfHeadTail DEF Types
<1>5. CASE LoopReceives
  <2> DEFINE fed == held \cup ({Head(channel)} \ {Lost})
  <2>1. /\ UNCHANGED <<kernel, drain, stop, pc, timed_out, attach_failed, verdict>>
        /\ pc = "loop" /\ channel # <<>> /\ channel' = Tail(channel)
        /\ lost_records' = (lost_records \/ Head(channel) = Lost)
    BY <1>5 DEF LoopReceives
  <2>2. PICK ready \in SUBSET fed : Write(ready) /\ held' = fed \ ready
    BY <1>5 DEF LoopReceives
  <2>3. PICK kept \in SUBSET ready :
          /\ written' = written \cup kept
          /\ cap_reached' = (cap_reached \/ kept # ready)
    BY <2>2 DEF Write
  <2>4. fed \subseteq Nat
    BY <1>4, <2>1 DEF Types
  <2>5. Types'
    <3>1. cap_reached' \in BOOLEAN /\ lost_records' \in BOOLEAN
      BY <2>1, <2>3
    <3>2. held' \subseteq Nat
      BY <2>2, <2>4
    <3> QED BY <1>4, <2>1, <3>1, <3>2 DEF Types, kernel
  <2>6. CASE ~cap_reached'
    <3>1. kept = ready /\ ~cap_reached
      BY <2>3, <2>6
    <3>2. InChannel \cup held \cup written
             \subseteq InChannel' \cup held' \cup written'
      BY <1>4, <2>1, <2>2, <2>3, <3>1 DEF InChannel
    <3>3. AccountInv'
      BY <1>1, <2>1, <3>1, <3>2 DEF kernel
    <3> QED BY <2>1, <2>5, <3>3 DEF VerdictInv
  <2>7. CASE cap_reached'
    BY <2>1, <2>5, <2>7 DEF AccountInv, VerdictInv
  <2> QED BY <2>6, <2>7
<1>6. CASE GraceReceives \/ RestReceives
  <2>1. /\ UNCHANGED <<kernel, drain, stop, pc, written, flags, verdict>>
        /\ pc \in {"grace", "rest"} /\ Feed
    BY <1>6 DEF GraceReceives, RestReceives
  <2>2. /\ channel # <<>> /\ channel' = Tail(channel)
        /\ \/ Head(channel) = Lost /\ lost_records' = TRUE /\ held' = held
           \/ /\ Head(channel) # Lost /\ held' = held \cup {Head(channel)}
              /\ lost_records' = lost_records
    BY <2>1 DEF Feed
  <2>3. Types'
    BY <1>4, <2>1, <2>2 DEF Types, kernel
  <2>4. InChannel \cup held \subseteq InChannel' \cup held'
    BY <1>4, <2>2 DEF InChannel
  <2>5. AccountInv'
    BY <1>1, <2>1, <2>4 DEF kernel
  <2> QED BY <2>1, <2>3, <2>5 DEF VerdictInv, Ended
<1>7. CASE Joins
  <2>1. /\ UNCHANGED <<kernel, drain, channel, stop, held, written, lost_records,
                       flags, verdict>>
        /\ pc = "join" /\ pc' = "rest" /\ \A c \in Cpus : Ended(c)
    BY <1>7 DEF Joins
  <2>2. Types' /\ AccountInv'
    BY <1>1, <2>1 DEF Types, InChannel, kernel
  <2> QED BY <2>1, <2>2 DEF VerdictInv, Ended
<1>8. CASE Finishes
  <2>1. /\ UNCHANGED <<kernel, drain, channel, stop, lost_records, timed_out,
                       attach_failed, verdict>>
        /\ pc = "rest" /\ pc' = "decide" /\ channel = <<>> /\ held' = {}
    BY <1>8 DEF Finishes
  <2>2. PICK kept \in SUBSET held :
          /\ written' = written \cup kept
          /\ cap_reached' = (cap_reached \/ kept # held)
    BY <1>8 DEF Finishes, Write
  <2>3. Types'
    <3>1. cap_reached' \in BOOLEAN
      BY <2>2
    <3> QED BY <2>1, <3>1 DEF Types, kernel
  <2>4. AccountInv'
    <3>1. CASE cap_reached'
      BY <3>1 DEF AccountInv
    <3>2. CASE ~cap_reached'
      <4>1. kept = held /\ ~cap_reached
        BY <2>2, <3>2
      <4> QED BY <1>1, <2>1, <2>2, <4>1 DEF kernel, InChannel
    <3> QED BY <3>1, <3>2
  <2> QED BY <2>1, <2>3, <2>4 DEF VerdictInv, Ended
<1>9. CASE Decides
  <2>1. /\ UNCHANGED <<kernel, drain, channel, stop, held, written, lost_records, flags>>
        /\ pc = "decide" /\ pc' = "done"
        /\ verdict' = IF Reasons THEN "partial" ELSE "complete"
    BY <1>9 DEF Decides
  <2>2. Types' /\ AccountInv'
    BY <1>1, <2>1 DEF Types, InChannel, kernel
  <2>3. verdict' = "complete" => ~cap_reached /\ ~lost_records
    BY <2>1 DEF Reasons
  <2> QED BY <2>1, <2>2, <2>3 DEF VerdictInv, Ended
<1> QED BY <1>3, <1>5, <1>6, <1>7, <1>8, <1>9 DEF Main

(* The three are inductive together.                                       *)
LEMMA Accounted == Spec => [](Types /\ AccountInv /\ VerdictInv)
<1>1. Init => Types /\ AccountInv /\ VerdictInv
  <2> SUFFICES ASSUME Init PROVE Types /\ AccountInv /\ VerdictInv
    OBVIOUS
  <2>1. Events = {}
    BY DEF Init, Events
  <2>2. Types
    <3>1. channel \in Seq(Nat \cup {Lost}) /\ ring \in [Cpus -> Seq(Nat)]
      BY DEF Init
    <3> QED BY <3>1 DEF Init, Types
  <2> QED BY <2>1, <2>2 DEF Init, AccountInv, VerdictInv
<1>2. Types /\ AccountInv /\ VerdictInv /\ [Next]_vars
        => Types' /\ AccountInv' /\ VerdictInv'
  <2> SUFFICES ASSUME Types, AccountInv, VerdictInv, [Next]_vars
               PROVE  Types' /\ AccountInv' /\ VerdictInv'
    OBVIOUS
  <2>1. CASE Done \/ UNCHANGED vars
    BY <2>1 DEF Done, vars, kernel, main, flags, Types, AccountInv, VerdictInv,
       Events, InRings, InChannel, Ended
  <2> QED BY <2>1, KernelStep, DrainStep, MainStep DEF Next
<1> QED BY <1>1, <1>2, PTL DEF Spec

(* A recording declared complete accounts for every event of the tree that *)
(* a drain thread ever read: the merger and the channel are empty and the  *)
(* cap cut nothing off (record() joins the threads before it decides).     *)
THEOREM CompleteAccounts == Spec => []CompleteAccountsForAll
<1>1. Types /\ AccountInv /\ VerdictInv => CompleteAccountsForAll
  <2> SUFFICES ASSUME AccountInv, VerdictInv, verdict = "complete"
               PROVE  /\ Events \ foreign
                            \subseteq written \cup unseen \cup dropped \cup InRings
                      /\ InChannel \cup held = {}
    BY DEF CompleteAccountsForAll
  <2>1. channel = <<>> /\ held = {} /\ ~cap_reached
    BY DEF VerdictInv
  <2>2. InChannel = {}
    BY <2>1, RangeOfEmpty DEF InChannel
  <2> QED BY <2>1, <2>2 DEF AccountInv
<1> QED BY <1>1, Accounted, PTL

(* A loss that was forwarded forces PARTIAL: no report is still in the     *)
(* channel of a recording declared complete, and none was fed.             *)
THEOREM ReportedLossForcesPartial == Spec => []ReportedLossIsPartial
<1>1. Types /\ AccountInv /\ VerdictInv => ReportedLossIsPartial
  BY RangeOfEmpty DEF VerdictInv, ReportedLossIsPartial
<1> QED BY <1>1, Accounted, PTL

=============================================================================
