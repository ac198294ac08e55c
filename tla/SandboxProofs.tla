---------------------------- MODULE SandboxProofs ----------------------------
(***************************************************************************)
(* Theorems about Sandbox, for any number of scripts and workers.          *)
(***************************************************************************)
EXTENDS Sandbox, FiniteSetTheorems, TLAPS

LEMMA InitTyped == Init => Typed
  BY SandboxAssumption DEF Init, Typed, Maybe

LEMMA NextTyped == Typed /\ [Next]_vars => Typed'
<1> SUFFICES ASSUME Typed, [Next]_vars PROVE Typed'
  OBVIOUS
<1> USE SandboxAssumption DEF Typed, Maybe, InExec, thread, history, Goto, Tell
<1>1. ASSUME NEW s \in Scripts, Desk(s) PROVE Typed'
  <2>1. CASE Reject(s)
    BY <2>1 DEF Reject
  <2>2. CASE Submit(s)
    BY <2>2 DEF Submit
  <2>3. CASE Collect(s)
    BY <2>3 DEF Collect
  <2>4. CASE Timeout(s)
    BY <2>4 DEF Timeout, Cancelled
  <2>5. CASE Build(s)
    BY <2>5 DEF Build
  <2>6. QED
    BY <1>1, <2>1, <2>2, <2>3, <2>4, <2>5 DEF Desk
<1>2. ASSUME NEW s \in Scripts, Worker(s) PROVE Typed'
  <2>1. CASE Start(s)
    BY <2>1 DEF Start
  <2>2. CASE LoadHook(s)
    BY <2>2 DEF LoadHook
  <2>3. CASE InstallHook(s)
    BY <2>3 DEF InstallHook
  <2>4. CASE CallHook(s)
    BY <2>4 DEF CallHook, Running
  <2>5. CASE RestoreHook(s)
    BY <2>5 DEF RestoreHook, Restored
  <2>6. CASE Return(s)
    BY <2>6 DEF Return, Outcome
  <2>7. QED
    BY <1>2, <2>1, <2>2, <2>3, <2>4, <2>5, <2>6 DEF Worker
<1>3. ASSUME NEW s \in Scripts, Script(s) PROVE Typed'
  <2>1. CASE Register(s)
    BY <2>1 DEF Register
  <2>2. CASE Finish(s)
    BY <2>2 DEF Finish
  <2>3. CASE Raise(s)
    BY <2>3 DEF Raise
  <2>4. QED
    BY <1>3, <2>1, <2>2, <2>3 DEF Script
<1>4. CASE UNCHANGED vars
  BY <1>4 DEF vars
<1>5. QED
  BY <1>1, <1>2, <1>3, <1>4 DEF Next

-----------------------------------------------------------------------------
(* The loop: who waits, and for what. *)

\* What is queued is awaited, and what is awaited is queued, running or done.
Awaited ==
    /\ QueuedIsAwaited
    /\ \A s \in Scripts : loop = s => pc[s] \in InExec \union {"queued", "done"}
    /\ \A s \in Scripts : answer[s] = "building" => pc[s] = "done"

LEMMA InitAwaited == Init => Awaited
  BY SandboxAssumption DEF Init, Awaited, QueuedIsAwaited

LEMMA NextAwaited == Typed /\ Awaited /\ [Next]_vars => Awaited'
<1> SUFFICES ASSUME Typed, Awaited, [Next]_vars PROVE Awaited'
  OBVIOUS
<1> USE SandboxAssumption DEF Typed, Awaited, QueuedIsAwaited, InExec, thread, history, Goto, Tell
<1>1. ASSUME NEW s \in Scripts, Desk(s) PROVE Awaited'
  <2>1. CASE Reject(s)
    BY <2>1 DEF Reject
  <2>2. CASE Submit(s)
    BY <2>2 DEF Submit
  <2>3. CASE Collect(s)
    BY <2>3 DEF Collect
  <2>4. CASE Timeout(s)
    BY <2>4 DEF Timeout, Cancelled
  <2>5. CASE Build(s)
    BY <2>5 DEF Build
  <2>6. QED
    BY <1>1, <2>1, <2>2, <2>3, <2>4, <2>5 DEF Desk
<1>2. ASSUME NEW s \in Scripts, Worker(s) PROVE Awaited'
  <2>1. CASE Start(s)
    BY <2>1 DEF Start, FreeWorker
  <2>2. CASE LoadHook(s)
    BY <2>2 DEF LoadHook
  <2>3. CASE InstallHook(s)
    BY <2>3 DEF InstallHook
  <2>4. CASE CallHook(s)
    BY <2>4 DEF CallHook, Running
  <2>5. CASE RestoreHook(s)
    BY <2>5 DEF RestoreHook, Restored
  <2>6. CASE Return(s)
    BY <2>6 DEF Return, Outcome
  <2>7. QED
    BY <1>2, <2>1, <2>2, <2>3, <2>4, <2>5, <2>6 DEF Worker
<1>3. ASSUME NEW s \in Scripts, Script(s) PROVE Awaited'
  <2>1. CASE Register(s)
    BY <2>1 DEF Register
  <2>2. CASE Finish(s)
    BY <2>2 DEF Finish
  <2>3. CASE Raise(s)
    BY <2>3 DEF Raise
  <2>4. QED
    BY <1>3, <2>1, <2>2, <2>3 DEF Script
<1>4. CASE UNCHANGED vars
  BY <1>4 DEF vars
<1>5. QED
  BY <1>1, <1>2, <1>3, <1>4 DEF Next

\* The pool never holds a submission nobody waits for (sandbox.py 131-133).
THEOREM SandboxQueueAwaited == Spec => []QueuedIsAwaited
<1>1. Awaited => QueuedIsAwaited
  BY DEF Awaited
<1>2. QED
  BY <1>1, InitTyped, NextTyped, InitAwaited, NextAwaited, PTL DEF Spec

-----------------------------------------------------------------------------
(* The hook, as long as every script keeps its limit. *)

Installed == {"run", "call", "restore", "raised"}

HookInv ==
    ~overran =>
        /\ \A s \in Scripts : pc[s] \in InExec => loop = s
        /\ \A s \in Scripts : pc[s] \in Installed => hook = s
        /\ (\A s \in Scripts : pc[s] \notin Installed) => hook = Nobody
        /\ \A s \in Scripts : pc[s] \in Installed \union {"install"} => saved[s] = Nobody

LEMMA InitHook == Init => HookInv
  BY SandboxAssumption DEF Init, HookInv, InExec, Installed

LEMMA NextHook == Typed /\ Awaited /\ HookInv /\ [Next]_vars => HookInv'
<1> SUFFICES ASSUME Typed, Awaited, HookInv, [Next]_vars PROVE HookInv'
  OBVIOUS
<1> USE SandboxAssumption DEF Typed, Maybe, Awaited, QueuedIsAwaited, HookInv, Installed, InExec, thread, history, Goto, Tell
<1>1. ASSUME NEW s \in Scripts, Desk(s) PROVE HookInv'
  <2>1. CASE Reject(s)
    BY <2>1 DEF Reject
  <2>2. CASE Submit(s)
    BY <2>2 DEF Submit
  <2>3. CASE Collect(s)
    BY <2>3 DEF Collect
  <2>4. CASE Timeout(s)
    BY <2>4 DEF Timeout, Cancelled
  <2>5. CASE Build(s)
    BY <2>5 DEF Build
  <2>6. QED
    BY <1>1, <2>1, <2>2, <2>3, <2>4, <2>5 DEF Desk
<1>2. ASSUME NEW s \in Scripts, Worker(s) PROVE HookInv'
  <2>1. CASE Start(s)
    BY <2>1 DEF Start, FreeWorker
  <2>2. CASE LoadHook(s)
    BY <2>2 DEF LoadHook
  <2>3. CASE InstallHook(s)
    BY <2>3 DEF InstallHook
  <2>4. CASE CallHook(s)
    BY <2>4 DEF CallHook, Running
  <2>5. CASE RestoreHook(s)
    BY <2>5 DEF RestoreHook, Restored
  <2>6. CASE Return(s)
    BY <2>6 DEF Return, Outcome
  <2>7. QED
    BY <1>2, <2>1, <2>2, <2>3, <2>4, <2>5, <2>6 DEF Worker
<1>3. ASSUME NEW s \in Scripts, Script(s) PROVE HookInv'
  <2>1. CASE Register(s)
    BY <2>1 DEF Register
  <2>2. CASE Finish(s)
    BY <2>2 DEF Finish
  <2>3. CASE Raise(s)
    BY <2>3 DEF Raise
  <2>4. QED
    BY <1>3, <2>1, <2>2, <2>3 DEF Script
<1>4. CASE UNCHANGED vars
  BY <1>4 DEF vars
<1>5. QED
  BY <1>1, <1>2, <1>3, <1>4 DEF Next

\* While every script keeps its limit, the hook is set only during a run
\* (sandbox.py 142-151).
THEOREM SandboxHookRestored == Spec => []HookRestored
<1>1. Typed /\ HookInv => HookRestored
  BY SandboxAssumption DEF Typed, Maybe, HookInv, HookRestored, Running, Installed, InExec
<1>2. QED
  BY <1>1, InitTyped, NextTyped, InitAwaited, NextAwaited, InitHook, NextHook, PTL DEF Spec

-----------------------------------------------------------------------------
(* A script that runs alone. *)

\* It is the only one, its hook stays its own, and its list holds its class as
\* soon as it has registered one.
AloneInv ==
    /\ \A s \in Scripts : pc[s] \notin InExec => last[s] = Nobody
    /\ \A s \in Scripts : loop = s /\ pc[s] = "queued" => owed = FALSE
    /\ \A s \in Scripts : loop = s /\ ~beside =>
        /\ pc[s] \in InExec \union {"done"} => \A r \in Scripts : pc[r] \in InExec => r = s
        /\ pc[s] \in {"load", "install"} => owed = FALSE /\ last[s] = Nobody
        /\ pc[s] \in {"run", "call"} => hook = s
        /\ pc[s] \in {"run", "restore", "return"} => last[s] = IF owed THEN s ELSE Nobody
        /\ pc[s] = "call" => owed = TRUE /\ last[s] \in {s, Nobody}
        /\ pc[s] \in {"raised", "fail"} => owed = FALSE
        /\ pc[s] = "done" => result = IF owed THEN s ELSE Nobody

LEMMA InitAlone == Init => AloneInv
  BY SandboxAssumption DEF Init, AloneInv

LEMMA NextAlone == Typed /\ Awaited /\ AloneInv /\ [Next]_vars => AloneInv'
<1> SUFFICES ASSUME Typed, Awaited, AloneInv, [Next]_vars PROVE AloneInv'
  OBVIOUS
<1> USE SandboxAssumption DEF Typed, Maybe, Awaited, QueuedIsAwaited, AloneInv, InExec, thread, history, Goto, Tell
<1>1. ASSUME NEW s \in Scripts, Desk(s) PROVE AloneInv'
  <2>1. CASE Reject(s)
    BY <2>1 DEF Reject
  <2>2. CASE Submit(s)
    BY <2>2 DEF Submit
  <2>3. CASE Collect(s)
    BY <2>3 DEF Collect
  <2>4. CASE Timeout(s)
    BY <2>4 DEF Timeout, Cancelled
  <2>5. CASE Build(s)
    BY <2>5 DEF Build
  <2>6. QED
    BY <1>1, <2>1, <2>2, <2>3, <2>4, <2>5 DEF Desk
<1>2. ASSUME NEW s \in Scripts, Worker(s) PROVE AloneInv'
  <2>1. CASE Start(s)
    <3>1. /\ loop = s /\ loop' = s /\ pc[s] = "queued"
          /\ pc' = [pc EXCEPT ![s] = "load"]
          /\ owed' = owed /\ last' = last
      BY <2>1 DEF Start
    <3>2. ~beside' => \A r \in Scripts : pc[r] \notin InExec
      BY <2>1, <3>1 DEF Start, Overdue, Running
    <3>3. QED
      BY <3>1, <3>2
  <2>2. CASE LoadHook(s)
    BY <2>2 DEF LoadHook
  <2>3. CASE InstallHook(s)
    BY <2>3 DEF InstallHook
  <2>4. CASE CallHook(s)
    <3>1. \A r \in Scripts : pc[r] \notin InExec => pc'[r] \notin InExec \/ r = s
      BY <2>4 DEF CallHook
    <3>2. \A r \in Scripts : pc'[r] \notin InExec => last'[r] = Nobody
      BY <2>4 DEF CallHook, Running
    <3>3. CASE loop = s /\ ~beside
      <4>1. hook = s /\ owed /\ s \in Running /\ s # Nobody
        BY <2>4, <3>3 DEF CallHook, Running
      <4>2. pc' = [pc EXCEPT ![s] = "run"] /\ last' = [last EXCEPT ![s] = s]
        BY <2>4, <4>1 DEF CallHook
      <4>3. QED
        BY <2>4, <3>2, <3>3, <4>1, <4>2 DEF CallHook
    <3>4. CASE ~(loop = s /\ ~beside)
      <4>1. \A r \in Scripts : loop = r /\ ~beside => r # s /\ pc[r] = "queued"
        BY <2>4, <3>4 DEF CallHook
      <4>2. \A r \in Scripts : r # s => pc'[r] = pc[r]
        BY <2>4 DEF CallHook
      <4>3. owed' = owed /\ beside' = beside /\ loop' = loop
        BY <2>4 DEF CallHook
      <4>4. pc'[s] # "queued"
        BY <2>4 DEF CallHook
      <4>5. QED
        BY <3>2, <4>1, <4>2, <4>3, <4>4
    <3>5. QED
      BY <3>3, <3>4
  <2>5. CASE RestoreHook(s)
    BY <2>5 DEF RestoreHook, Restored
  <2>6. CASE Return(s)
    BY <2>6 DEF Return, Outcome
  <2>7. QED
    BY <1>2, <2>1, <2>2, <2>3, <2>4, <2>5, <2>6 DEF Worker
<1>3. ASSUME NEW s \in Scripts, Script(s) PROVE AloneInv'
  <2>1. CASE Register(s)
    <3>1. /\ loop' = loop /\ beside' = beside /\ last' = last /\ hook' = hook
          /\ result' = result
          /\ \A r \in Scripts : r # s => pc'[r] = pc[r]
          /\ pc[s] = "run" /\ pc'[s] \in {"run", "call"}
      BY <2>1 DEF Register
    <3>2. CASE loop = s /\ ~beside
      <4>1. hook = s /\ s # Nobody
        BY <3>1, <3>2
      <4>2. pc'[s] = "call" /\ owed' = TRUE
        BY <2>1, <3>2, <4>1 DEF Register
      <4>3. last[s] \in {s, Nobody}
        BY <3>1, <3>2
      <4>4. QED
        BY <3>1, <3>2, <4>1, <4>2, <4>3
    <3>3. CASE ~(loop = s /\ ~beside)
      <4>1. \A r \in Scripts : loop = r /\ ~beside => r # s /\ pc[r] = "queued"
        BY <3>1, <3>3
      <4>2. loop # s => owed' = owed
        BY <2>1 DEF Register
      <4>3. \A r \in Scripts : loop = r /\ pc[r] = "queued" => loop # s
        BY <3>1
      <4>4. QED
        BY <3>1, <4>1, <4>2, <4>3
    <3>4. QED
      BY <3>2, <3>3
  <2>2. CASE Finish(s)
    BY <2>2 DEF Finish
  <2>3. CASE Raise(s)
    BY <2>3 DEF Raise
  <2>4. QED
    BY <1>3, <2>1, <2>2, <2>3 DEF Script
<1>4. CASE UNCHANGED vars
  BY <1>4 DEF vars
<1>5. QED
  BY <1>1, <1>2, <1>3, <1>4 DEF Next

\* A script that ran beside none past its limit returns the class it registered,
\* and none when it registered none or raised (sandbox.py 139-156).
THEOREM SandboxAloneIsFaithful == Spec => []AloneIsFaithful
<1>1. AloneInv => AloneIsFaithful
  BY DEF AloneInv, AloneIsFaithful
<1>2. QED
  BY <1>1, InitTyped, NextTyped, InitAwaited, NextAwaited, InitAlone, NextAlone, PTL DEF Spec

-----------------------------------------------------------------------------
(* The pool. *)

\* Only a start adds to the threads that run, and it adds one.
LEMMA OnlyStartAdds ==
    ASSUME Typed, [Next]_vars
    PROVE  \/ Running' \subseteq Running
           \/ \E s \in Scripts : Start(s) /\ Running' = Running \union {s}
<1> USE DEF Typed, InExec, Running, thread, history, Goto, Tell
<1>1. ASSUME NEW s \in Scripts, Desk(s) PROVE Running' \subseteq Running
  <2>1. CASE Reject(s)
    BY <2>1 DEF Reject
  <2>2. CASE Submit(s)
    BY <2>2 DEF Submit
  <2>3. CASE Collect(s)
    BY <2>3 DEF Collect
  <2>4. CASE Timeout(s)
    BY <2>4 DEF Timeout, Cancelled
  <2>5. CASE Build(s)
    BY <2>5 DEF Build
  <2>6. QED
    BY <1>1, <2>1, <2>2, <2>3, <2>4, <2>5 DEF Desk
<1>2. ASSUME NEW s \in Scripts, Worker(s)
      PROVE  Running' \subseteq Running \/ (Start(s) /\ Running' = Running \union {s})
  <2>1. CASE Start(s)
    BY <2>1 DEF Start
  <2>2. CASE LoadHook(s)
    BY <2>2 DEF LoadHook
  <2>3. CASE InstallHook(s)
    BY <2>3 DEF InstallHook
  <2>4. CASE CallHook(s)
    BY <2>4 DEF CallHook
  <2>5. CASE RestoreHook(s)
    BY <2>5 DEF RestoreHook
  <2>6. CASE Return(s)
    BY <2>6 DEF Return
  <2>7. QED
    BY <1>2, <2>1, <2>2, <2>3, <2>4, <2>5, <2>6 DEF Worker
<1>3. ASSUME NEW s \in Scripts, Script(s) PROVE Running' \subseteq Running
  <2>1. CASE Register(s)
    BY <2>1 DEF Register
  <2>2. CASE Finish(s)
    BY <2>2 DEF Finish
  <2>3. CASE Raise(s)
    BY <2>3 DEF Raise
  <2>4. QED
    BY <1>3, <2>1, <2>2, <2>3 DEF Script
<1>4. CASE UNCHANGED vars
  BY <1>4 DEF vars
<1>5. QED
  BY <1>1, <1>2, <1>3, <1>4 DEF Next

Pool == IsFiniteSet(Running) /\ Cardinality(Running) <= Workers

LEMMA InitPool == Init => Pool
<1> SUFFICES ASSUME Init PROVE Pool
  OBVIOUS
<1>1. Running = {}
  BY DEF Init, Running, InExec
<1>2. QED
  BY <1>1, FS_EmptySet, SandboxAssumption DEF Pool

LEMMA NextPool == Typed /\ Pool /\ [Next]_vars => Pool'
<1> SUFFICES ASSUME Typed, Pool, [Next]_vars PROVE Pool'
  OBVIOUS
<1> USE SandboxAssumption DEF Pool
<1>1. Cardinality(Running) \in Nat
  BY FS_CardinalityType
<1>2. CASE Running' \subseteq Running
  <2>1. IsFiniteSet(Running') /\ Cardinality(Running') <= Cardinality(Running)
    BY <1>2, FS_Subset
  <2>2. Cardinality(Running') \in Nat
    BY <2>1, FS_CardinalityType
  <2>3. QED
    BY <1>1, <2>1, <2>2
<1>3. ASSUME NEW s \in Scripts, Start(s), Running' = Running \union {s} PROVE Pool'
  <2>1. Cardinality(Running) < Workers
    BY <1>3 DEF Start, FreeWorker
  <2>2. /\ IsFiniteSet(Running \union {s})
        /\ Cardinality(Running \union {s}) \in {Cardinality(Running), Cardinality(Running) + 1}
    BY FS_AddElement
  <2>3. Running' = Running \union {s}
    BY <1>3
  <2>4. QED
    BY <1>1, <2>1, <2>2, <2>3
<1>4. QED
  BY <1>2, <1>3, OnlyStartAdds

\* Every variable holds a value of its type, and no more scripts run than there
\* are workers (sandbox.py 25).
THEOREM SandboxTypes == Spec => []TypeOK
<1>1. Typed /\ Pool => TypeOK
  BY DEF TypeOK, Pool
<1>2. QED
  BY <1>1, InitTyped, NextTyped, InitPool, NextPool, PTL DEF Spec

\* A result in time was computed on a worker that was free.
RoomInv ==
    \A s \in Scripts : loop = s /\ pc[s] = "done" => Cardinality(Overdue) < Workers

\* So is one that is being computed.
LEMMA RunningHasRoom ==
    ASSUME Pool, NEW s \in Scripts, loop = s, pc[s] \in InExec
    PROVE  Cardinality(Overdue) < Workers
<1>1. s \in Running /\ Overdue = Running \ {s}
  BY DEF Running, Overdue
<1>2. Cardinality(Overdue) = Cardinality(Running) - 1
  BY <1>1, FS_RemoveElement DEF Pool
<1>3. Cardinality(Running) \in Nat
  BY FS_CardinalityType DEF Pool
<1>4. QED
  BY <1>2, <1>3, SandboxAssumption DEF Pool

\* The script awaited becomes done only by returning; once it is, it stays the
\* one awaited until it is answered.
LEMMA HowDone ==
    ASSUME Typed, Awaited, [Next]_vars, NEW s \in Scripts, loop' = s, pc'[s] = "done"
    PROVE  loop = s /\ (pc[s] = "done" \/ pc[s] \in InExec)
<1> USE SandboxAssumption DEF Typed, InExec, thread, history, Goto, Tell
<1>1. ASSUME NEW r \in Scripts, Desk(r)
      PROVE  loop = s /\ pc[s] = "done"
  <2>1. CASE Reject(r)
    BY <2>1 DEF Reject
  <2>2. CASE Submit(r)
    BY <2>2 DEF Submit
  <2>3. CASE Collect(r)
    BY <2>3 DEF Collect
  <2>4. CASE Timeout(r)
    BY <2>4 DEF Timeout
  <2>5. CASE Build(r)
    BY <2>5 DEF Build
  <2>6. QED
    BY <1>1, <2>1, <2>2, <2>3, <2>4, <2>5 DEF Desk
<1>2. ASSUME NEW r \in Scripts, Worker(r)
      PROVE  loop = s /\ (pc[s] = "done" \/ pc[s] \in InExec)
  <2>1. CASE Start(r)
    BY <2>1 DEF Start
  <2>2. CASE LoadHook(r)
    BY <2>2 DEF LoadHook
  <2>3. CASE InstallHook(r)
    BY <2>3 DEF InstallHook
  <2>4. CASE CallHook(r)
    BY <2>4 DEF CallHook
  <2>5. CASE RestoreHook(r)
    BY <2>5 DEF RestoreHook
  <2>6. CASE Return(r)
    BY <2>6 DEF Return
  <2>7. QED
    BY <1>2, <2>1, <2>2, <2>3, <2>4, <2>5, <2>6 DEF Worker
<1>3. ASSUME NEW r \in Scripts, Script(r)
      PROVE  loop = s /\ pc[s] = "done"
  <2>1. CASE Register(r)
    BY <2>1 DEF Register
  <2>2. CASE Finish(r)
    BY <2>2 DEF Finish
  <2>3. CASE Raise(r)
    BY <2>3 DEF Raise
  <2>4. QED
    BY <1>3, <2>1, <2>2, <2>3 DEF Script
<1>4. CASE UNCHANGED vars
  BY <1>4 DEF vars
<1>5. QED
  BY <1>1, <1>2, <1>3, <1>4 DEF Next

LEMMA InitRoom == Init => RoomInv
  BY SandboxAssumption DEF Init, RoomInv

LEMMA NextRoom == Typed /\ Awaited /\ Pool /\ RoomInv /\ [Next]_vars => RoomInv'
<1> SUFFICES ASSUME Typed, Awaited, Pool, RoomInv, [Next]_vars,
                    NEW s \in Scripts, loop' = s, pc'[s] = "done"
             PROVE  Cardinality(Overdue') < Workers
  BY DEF RoomInv
<1>1. loop = s /\ (pc[s] = "done" \/ pc[s] \in InExec)
  BY HowDone
<1>2. Cardinality(Overdue) < Workers
  BY <1>1, RunningHasRoom DEF RoomInv
<1>3. Running' \subseteq Running
  <2>1. ASSUME NEW r \in Scripts, Start(r) PROVE FALSE
    <3>1. pc[r] = "queued" /\ loop = r
      BY <2>1 DEF Start, Awaited, QueuedIsAwaited
    <3>2. QED
      BY <1>1, <3>1 DEF InExec
  <2>2. QED
    BY <2>1, OnlyStartAdds
<1>4. Overdue' \subseteq Overdue
  BY <1>1, <1>3 DEF Overdue
<1>5. IsFiniteSet(Overdue)
  BY FS_Subset DEF Overdue, Pool
<1>6. IsFiniteSet(Overdue') /\ Cardinality(Overdue') <= Cardinality(Overdue)
  BY <1>4, <1>5, FS_Subset
<1>7. Cardinality(Overdue) \in Nat /\ Cardinality(Overdue') \in Nat
  BY <1>5, <1>6, FS_CardinalityType
<1>8. QED
  BY <1>2, <1>6, <1>7, SandboxAssumption

\* Once every worker holds a script past its limit, nothing that is submitted
\* runs: only a timeout can answer it (sandbox.py 25, 129).
THEOREM SandboxLostPool == Spec => []LostPoolOnlyTimesOut
<1>1. Awaited /\ Pool /\ RoomInv => LostPoolOnlyTimesOut
  <2> SUFFICES ASSUME Awaited, Pool, RoomInv, Cardinality(Overdue) >= Workers,
                      NEW s \in Scripts, loop = s
               PROVE  pc[s] = "queued"
    BY DEF LostPoolOnlyTimesOut
  <2>1. IsFiniteSet(Overdue)
    BY FS_Subset DEF Overdue, Pool
  <2>2. ~(Cardinality(Overdue) < Workers)
    BY <2>1, FS_CardinalityType, SandboxAssumption
  <2>3. pc[s] # "done"
    BY <2>2 DEF RoomInv
  <2>4. pc[s] \notin InExec
    BY <2>2, RunningHasRoom
  <2>5. QED
    BY <2>3, <2>4 DEF Awaited
<1>2. QED
  BY <1>1, InitTyped, NextTyped, InitAwaited, NextAwaited, InitPool, NextPool,
     InitRoom, NextRoom, PTL DEF Spec

=============================================================================
