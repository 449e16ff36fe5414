------------------------ MODULE StraceRecorderProofs ------------------------
(***************************************************************************)
(* What a strace recording guarantees for any number of processes, any cap *)
(* and any time limit: a complete verdict means the whole tree is in it,   *)
(* and an enforced time limit leaves nothing of the group running.         *)
(***************************************************************************)
EXTENDS StraceRecorder, TLAPS

\* Every variable holds a value of its type.
Types ==
    /\ proc \in [Pids -> {"unused", "alive", "dead"}]
    /\ group \subseteq Pids
    /\ strace \in {"none", "alive", "exited", "died", "failed", "killed"}
    /\ trace \in [Pids -> SUBSET Nat]
    /\ filed \subseteq Pids
    /\ pc \in {"spawn", "poll", "grace", "reap", "collect", "read", "done"}
    /\ unread \subseteq filed
    /\ <<timed_out, cap_reached, parse_gap, unreadable>>
          \in BOOLEAN \X BOOLEAN \X BOOLEAN \X BOOLEAN
    /\ verdict \in {"none", "partial", "complete"}
    /\ clock \in Nat

\* What the tracer knows of the tree: while it traces every running process has
\* a file, it exits by itself only after the last of them, and it has seen every
\* event of a tree it traced to the end.
TracerInv ==
    /\ strace \in {"none", "exited"} => Alive = {}
    /\ strace = "none" => filed = {}
    /\ strace = "alive" => Alive \subseteq filed
    /\ strace \in {"none", "alive", "exited"} => missed = {}
    /\ \A n : n \in 1 .. clock <=> n \in missed \/ \E p \in Pids : n \in trace[p]
    /\ \A p \in Pids : trace[p] # {} => p \in filed
    /\ \A p \in group : proc[p] # "unused"
    /\ strace = "killed" => timed_out /\ group \cap Alive = {}

\* What record() relies on: it reads the files once the tracer is gone, and what
\* it wrote is what the files it has read hold, unless it noted otherwise.
RecordInv ==
    /\ pc = "spawn" => strace = "none"
    /\ pc \in {"poll", "grace", "reap"} => strace # "none"
    /\ pc \in {"spawn", "poll"} => ~timed_out
    /\ pc = "grace" => timed_out
    /\ pc \in {"poll", "grace"} => strace # "killed"
    /\ pc \in {"collect", "read"} \/ (pc = "done" /\ timed_out)
          => strace \notin {"none", "alive"}
    /\ pc \notin {"read", "done"} => written = {}
    /\ pc = "read" /\ ~cap_reached /\ ~unreadable =>
          \A n : n \in written <=> \E p \in filed \ unread : n \in trace[p]
    /\ pc # "done" => verdict = "none"
    /\ verdict = "complete" =>
          /\ strace \notin {"none", "alive", "died"} /\ ~timed_out
          /\ \A n : n \in written <=> \E p \in filed : n \in trace[p]

(* A step of the recorded tree keeps both: what forks has a file while it  *)
(* is traced, and nobody is alive once the tracer has exited by itself.    *)
LEMMA TreeStep ==
    ASSUME Types, TracerInv, RecordInv, Tree
    PROVE  Types' /\ TracerInv' /\ RecordInv'
<1>1. UNCHANGED <<strace, main>>
  BY DEF Tree, Fork, Setsid, Syscall, Exit
<1>2. strace \notin {"none", "exited"}
  BY DEF Tree, Fork, Setsid, Syscall, Exit, TracerInv, Alive
<1> USE DEF main, flags
<1>3. ASSUME NEW p \in Pids, NEW q \in Pids, Fork(p, q)
      PROVE  Types' /\ TracerInv' /\ RecordInv'
  <2>1. UNCHANGED <<trace, clock, missed>> /\ filed \subseteq filed'
    BY <1>3 DEF Fork
  <2>2. Types'
    BY <1>1, <1>3 DEF Fork, Types
  <2>3. Alive' = Alive \cup {q} /\ p \in Alive /\ q \notin Alive
    BY <1>3 DEF Fork, Alive, Types
  <2>4. strace = "alive" => Alive' \subseteq filed'
    BY <1>3, <2>3 DEF Fork, TracerInv
  <2>5. \A x \in group' : proc'[x] # "unused"
    BY <1>3 DEF Fork, TracerInv, Types
  <2>6. strace = "killed" => group' \cap Alive' = {}
    BY <1>3, <2>3 DEF Fork, TracerInv, Types
  <2>7. TracerInv'
    BY <1>1, <1>2, <2>1, <2>4, <2>5, <2>6 DEF TracerInv
  <2>8. strace # "alive" => filed' = filed
    BY <1>3 DEF Fork
  <2>9. verdict = "complete" \/ pc = "read" => strace # "alive"
    BY DEF RecordInv
  <2> QED BY <1>1, <2>1, <2>2, <2>7, <2>8, <2>9 DEF RecordInv
<1>4. ASSUME NEW p \in Pids, Setsid(p)
      PROVE  Types' /\ TracerInv' /\ RecordInv'
  BY <1>1, <1>4 DEF Setsid, Types, TracerInv, RecordInv, Alive
<1>5. ASSUME NEW p \in Pids, Syscall(p)
      PROVE  Types' /\ TracerInv' /\ RecordInv'
  <2>1. /\ UNCHANGED <<proc, group, filed>>
        /\ clock' = clock + 1 /\ clock \in Nat /\ p \in Alive
    BY <1>5 DEF Syscall, Types, Alive
  <2>2. 1 .. clock' = (1 .. clock) \cup {clock'}
    BY <2>1
  <2>3. Types'
    BY <1>1, <1>5, <2>1 DEF Syscall, Types
  <2>4. CASE strace = "alive"
    <3>1. /\ missed' = missed
          /\ trace' = [trace EXCEPT ![p] = @ \cup {clock'}]
      BY <1>5, <2>4 DEF Syscall
    <3>2. \A x \in Pids :
            trace'[x] = IF x = p THEN trace[x] \cup {clock'} ELSE trace[x]
      BY <3>1 DEF Types
    <3>3. p \in filed /\ missed = {}
      BY <2>1, <2>4 DEF TracerInv
    <3>4. \A n : n \in 1 .. clock' <=> n \in missed' \/ \E x \in Pids : n \in trace'[x]
      BY <2>2, <3>1, <3>2 DEF TracerInv
    <3>5. \A x \in Pids : trace'[x] # {} => x \in filed'
      BY <2>1, <3>2, <3>3 DEF TracerInv
    <3>6. TracerInv'
      BY <1>1, <2>1, <2>4, <3>1, <3>3, <3>4, <3>5 DEF TracerInv, Alive
    <3>7. verdict # "complete" /\ pc # "read"
      BY <2>4 DEF RecordInv
    <3> QED BY <1>1, <2>3, <3>6, <3>7 DEF RecordInv
  <2>5. CASE strace # "alive"
    <3>1. trace' = trace /\ missed' = missed \cup {clock'}
      BY <1>5, <2>5 DEF Syscall
    <3>2. TracerInv'
      BY <1>1, <1>2, <2>1, <2>2, <2>5, <3>1 DEF TracerInv, Alive
    <3> QED BY <1>1, <2>1, <2>3, <3>1, <3>2 DEF RecordInv
  <2> QED BY <2>4, <2>5
<1>6. ASSUME NEW p \in Pids, Exit(p)
      PROVE  Types' /\ TracerInv' /\ RecordInv'
  <2>1. UNCHANGED <<group, trace, filed, clock, missed>> /\ Types'
    BY <1>1, <1>6 DEF Exit, Types
  <2>2. Alive' = Alive \ {p} /\ \A x \in Pids : proc'[x] = "unused" => proc[x] = "unused"
    BY <1>6 DEF Exit, Alive, Types
  <2>3. TracerInv'
    BY <1>1, <2>1, <2>2 DEF TracerInv, Types
  <2> QED BY <1>1, <2>1, <2>3 DEF RecordInv
<1> QED BY <1>3, <1>4, <1>5, <1>6 DEF Tree

(* The end of strace keeps both: alone it ends only once nobody is alive,  *)
(* and however it ends record() is not reading yet.                        *)
LEMMA TracerStep ==
    ASSUME Types, TracerInv, RecordInv, StraceExits \/ StraceDies
    PROVE  Types' /\ TracerInv' /\ RecordInv'
<1>1. /\ UNCHANGED <<main, proc, group, trace, filed, clock, missed>>
      /\ strace = "alive" /\ strace' \in {"exited", "died", "failed"}
      /\ strace' = "exited" => Alive = {}
  BY DEF StraceExits, StraceDies, tree
<1> USE DEF main, flags
<1>2. pc \notin {"read", "collect"} /\ verdict # "complete"
      /\ ~(pc = "done" /\ timed_out)
  BY <1>1 DEF RecordInv
<1> QED BY <1>1, <1>2 DEF Types, TracerInv, RecordInv, Alive

(* Each step of record() keeps both.                                       *)
LEMMA MainStep ==
    ASSUME Types, TracerInv, RecordInv, Main
    PROVE  Types' /\ TracerInv' /\ RecordInv'
<1> USE DEF tree, flags
<1>1. ASSUME UNCHANGED <<tree, strace>>, timed_out => timed_out'
      PROVE  TracerInv'
  BY <1>1 DEF TracerInv, Alive
<1>2. CASE SpawnFails \/ PollFails \/ WriteFails
  <2>1. /\ UNCHANGED <<tree, strace, unread, written, flags>>
        /\ pc' = "done" /\ verdict' = "partial"
        /\ pc \in {"spawn", "poll", "read"}
    BY <1>2 DEF SpawnFails, PollFails, WriteFails, SessionPartial
  <2> QED BY <1>1, <2>1 DEF Types, RecordInv
<1>3. CASE Spawns
  <2>1. /\ UNCHANGED <<trace, clock, missed, unread, written, flags, verdict>>
        /\ pc = "spawn" /\ pc' = "poll" /\ strace = "none" /\ strace' = "alive"
    BY <1>3 DEF Spawns, RecordInv
  <2>2. \/ /\ proc' = [proc EXCEPT ![Root] = "alive"]
           /\ group' = {Root} /\ filed' = {Root}
        \/ UNCHANGED <<proc, group, filed>>
    BY <1>3 DEF Spawns
  <2>3. Alive = {} /\ filed = {}
    BY <2>1 DEF TracerInv
  <2>4. Types'
    BY <2>1, <2>2, <2>3, RootAssumption DEF Types
  <2>5. Alive' \subseteq filed' /\ \A p \in group' : proc'[p] # "unused"
    BY <2>2, <2>3, RootAssumption DEF Types, Alive, TracerInv
  <2>6. TracerInv'
    BY <2>1, <2>3, <2>5 DEF TracerInv
  <2> QED BY <2>1, <2>4, <2>6 DEF RecordInv
<1>4. CASE PollExited \/ GraceEnds \/ Reaps
  <2>1. /\ UNCHANGED <<tree, strace, unread, written, flags, verdict>>
        /\ pc \in {"poll", "grace", "reap"} /\ pc' = "collect"
        /\ strace \notin {"none", "alive"}
    BY <1>4 DEF PollExited, GraceEnds, Reaps, RecordInv
  <2> QED BY <1>1, <2>1 DEF Types, RecordInv
<1>5. CASE TimesOut
  <2>1. /\ UNCHANGED <<group, trace, filed, clock, missed, unread, written,
                       cap_reached, parse_gap, unreadable, verdict>>
        /\ pc = "poll" /\ pc' = "grace" /\ timed_out'
        /\ timed_out' \in BOOLEAN
        /\ strace' = strace \/ (strace = "alive" /\ strace' = "died")
    BY <1>5 DEF TimesOut
  <2>2. PICK ended \in SUBSET Alive :
          proc' = [p \in Pids |-> IF p \in ended THEN "dead" ELSE proc[p]]
    BY <1>5 DEF TimesOut
  <2>3. Alive' = Alive \ ended /\ \A p \in Pids : proc'[p] = "unused" => proc[p] = "unused"
    BY <2>2 DEF Alive
  <2>4. Types'
    BY <2>1, <2>2 DEF Types
  <2>5. TracerInv'
    BY <2>1, <2>3 DEF TracerInv, Types
  <2> QED BY <2>1, <2>4, <2>5 DEF RecordInv
<1>6. CASE KillsGroup
  <2>1. /\ UNCHANGED <<group, trace, filed, clock, missed, unread, written,
                       flags, verdict>>
        /\ pc = "grace" /\ pc' = "reap"
    BY <1>6 DEF KillsGroup
  <2>2. CASE KillRuns
    <3>1. /\ proc' = [p \in Pids |-> IF p \in group \cap Alive THEN "dead" ELSE proc[p]]
          /\ strace' = IF strace = "alive" THEN "killed" ELSE strace
      BY <1>6, <2>2 DEF KillsGroup
    <3>2. /\ Alive' = Alive \ group
          /\ \A p \in Pids : proc'[p] = "unused" => proc[p] = "unused"
      BY <3>1 DEF Alive
    <3>3. Types'
      BY <2>1, <3>1 DEF Types
    <3>4. timed_out
      BY <2>1 DEF RecordInv
    <3>5. TracerInv'
      BY <2>1, <3>1, <3>2, <3>4 DEF TracerInv, Types
    <3> QED BY <2>1, <3>1, <3>3, <3>5 DEF RecordInv
  <2>3. CASE ~KillRuns
    BY <1>6, <2>1, <2>3 DEF KillsGroup, Types, TracerInv, RecordInv, Alive
  <2> QED BY <2>2, <2>3
<1>7. CASE Collects
  <2>1. /\ UNCHANGED <<tree, strace, written, flags>> /\ pc = "collect"
        /\ \/ pc' = "done" /\ verdict' = "partial" /\ unread' = unread
           \/ pc' = "read" /\ verdict' = verdict /\ unread' = filed
    BY <1>7 DEF Collects, SessionPartial
  <2> QED BY <1>1, <2>1 DEF Types, RecordInv
<1>8. ASSUME NEW p \in Pids, Reads(p)
      PROVE  Types' /\ TracerInv' /\ RecordInv'
  <2>1. /\ UNCHANGED <<tree, strace, pc, timed_out, unreadable, verdict>>
        /\ pc = "read" /\ p \in unread /\ unread' = unread \ {p}
        /\ parse_gap' \in BOOLEAN
    BY <1>8 DEF Reads, Types
  <2>2. PICK kept \in SUBSET trace[p] :
          /\ written' = written \cup kept
          /\ cap_reached' = (cap_reached \/ kept # trace[p])
    BY <1>8 DEF Reads
  <2>3. Types'
    <3>1. cap_reached' \in BOOLEAN
      BY <2>2
    <3> QED BY <2>1, <3>1 DEF Types
  <2>4. ASSUME ~cap_reached', ~unreadable
        PROVE  \A n : n \in written' <=> \E x \in filed \ unread' : n \in trace[x]
    <3>1. ~cap_reached /\ kept = trace[p] /\ p \in filed
      BY <2>1, <2>2, <2>4 DEF Types
    <3>2. \A n : n \in written <=> \E x \in filed \ unread : n \in trace[x]
      BY <2>1, <2>4, <3>1 DEF RecordInv
    <3> QED BY <2>1, <2>2, <3>1, <3>2
  <2> QED BY <1>1, <2>1, <2>3, <2>4 DEF RecordInv
<1>9. ASSUME NEW p \in Pids, ReadFails(p)
      PROVE  Types' /\ TracerInv' /\ RecordInv'
  BY <1>1, <1>9 DEF ReadFails, Types, RecordInv
<1>10. CASE Decides
  <2>1. /\ UNCHANGED <<tree, strace, unread, written, flags>>
        /\ pc = "read" /\ pc' = "done" /\ unread = {}
        /\ verdict' = IF Reasons THEN "partial" ELSE "complete"
    BY <1>10 DEF Decides
  <2>2. Types' /\ TracerInv'
    BY <1>1, <2>1 DEF Types
  <2>3. CASE Reasons
    BY <2>1, <2>2, <2>3 DEF RecordInv
  <2>4. CASE ~Reasons
    <3>1. /\ ~timed_out /\ ~cap_reached /\ ~unreadable /\ strace # "died"
      BY <2>4 DEF Reasons
    <3>2. \A n : n \in written <=> \E p \in filed : n \in trace[p]
      BY <2>1, <3>1 DEF RecordInv
    <3> QED BY <2>1, <2>2, <2>4, <3>1, <3>2 DEF RecordInv
  <2> QED BY <2>3, <2>4
<1> QED BY <1>2, <1>3, <1>4, <1>5, <1>6, <1>7, <1>8, <1>9, <1>10 DEF Main

(* The three are inductive together.                                       *)
LEMMA Recorded == Spec => [](Types /\ TracerInv /\ RecordInv)
<1>1. Init => Types /\ TracerInv /\ RecordInv
  <2> SUFFICES ASSUME Init PROVE Types /\ TracerInv /\ RecordInv
    OBVIOUS
  <2>1. Alive = {} /\ 1 .. clock = {}
    BY DEF Init, Alive
  <2> QED BY <2>1 DEF Init, Types, TracerInv, RecordInv
<1>2. Types /\ TracerInv /\ RecordInv /\ [Next]_vars
        => Types' /\ TracerInv' /\ RecordInv'
  <2> SUFFICES ASSUME Types, TracerInv, RecordInv, [Next]_vars
               PROVE  Types' /\ TracerInv' /\ RecordInv'
    OBVIOUS
  <2>1. CASE Done \/ UNCHANGED vars
    BY <2>1 DEF Done, vars, tree, main, flags, Types, TracerInv, RecordInv, Alive
  <2> QED BY <2>1, TreeStep, TracerStep, MainStep DEF Next
<1> QED BY <1>1, <1>2, PTL DEF Spec

(* Every variable of the strace recording keeps its type.                  *)
THEOREM TypeCorrect == Spec => []Types
BY Recorded, PTL

(* A recording declared complete holds every event of every process of the *)
(* tree, and nothing of the tree still runs, except under a strace that    *)
(* failed with a status of its own: no cap, time limit, unreadable file or *)
(* killed tracer stays hidden in the verdict of record().                  *)
THEOREM CompleteMeansWhole == Spec => []CompleteIsWholeTree
<1>1. Types /\ TracerInv /\ RecordInv => CompleteIsWholeTree
  <2> SUFFICES ASSUME Types, TracerInv, RecordInv,
                      verdict = "complete", strace # "failed"
               PROVE  Alive = {} /\ written = 1 .. clock
    BY DEF CompleteIsWholeTree
  <2>1. strace = "exited"
    BY DEF Types, TracerInv, RecordInv
  <2>2. Alive = {} /\ missed = {}
    BY <2>1 DEF TracerInv
  <2>3. \A n : n \in 1 .. clock <=> \E p \in Pids : n \in trace[p]
    BY <2>2 DEF TracerInv
  <2>4. \A n : n \in written <=> \E p \in filed : n \in trace[p]
    BY DEF RecordInv
  <2>5. \A n : (\E p \in Pids : n \in trace[p]) <=> (\E p \in filed : n \in trace[p])
    BY DEF Types, TracerInv
  <2>6. \A n : n \in written <=> n \in 1 .. clock
    BY <2>3, <2>4, <2>5
  <2> QED BY <2>2, <2>6
<1> QED BY <1>1, Recorded, PTL

(* kill_process_group leaves no process of strace's group running, however *)
(* they treat SIGTERM, unless strace itself ended early.                   *)
THEOREM TimeoutKillsGroup == Spec => []TimeoutEndsGroup
<1>1. Types /\ TracerInv /\ RecordInv => TimeoutEndsGroup
  BY DEF Types, TracerInv, RecordInv, TimeoutEndsGroup
<1> QED BY <1>1, Recorded, PTL

=============================================================================
