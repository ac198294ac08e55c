------------------------------ MODULE Sandbox ------------------------------
(***************************************************************************)
(* QuantLab's sandbox: the scripts users submit run in a pool of worker    *)
(* threads, while the event loop waits for the one it submitted last, for  *)
(* at most the time limit.  A script past its limit cannot be stopped; it  *)
(* keeps its worker, and shares with its successors the one variable       *)
(* through which register() finds the list of the running script.          *)
(*                                                                         *)
(* A class is represented by the script that defines it.  What a script    *)
(* computes is left open: it may register, raise or end at any time, or    *)
(* never.  The time limit may pass at any time while the loop waits.       *)
(***************************************************************************)
EXTENDS Naturals, FiniteSets

CONSTANTS
    Scripts,    \* the scripts submitted
    Workers,    \* the number of threads of the pool
    Nobody

ASSUME SandboxAssumption ==
    /\ Nobody \notin Scripts
    /\ Workers \in Nat \ {0}

VARIABLES
    pc,         \* where the future of a script is, or its thread in _exec
    hook,       \* sdk._registry_hook: whose list register() appends to
    saved,      \* original_hook of each _exec
    last,       \* registered[-1] of each _exec
    loop,       \* the script whose run() holds the event loop
    result,     \* the class the future of that script holds
    answer,     \* what the user who submitted a script was told
    accepted,   \* the class added to the registry for a script
    owed,       \* that script has called register() and has not raised: history
    beside,     \* it started while a script past its limit ran: history
    overran     \* some script ran past its limit: history

thread == <<hook, saved, last>>
history == <<owed, beside, overran>>
vars == <<pc, thread, loop, result, answer, accepted, history>>

InExec == {"load", "install", "run", "call", "restore", "raised", "return", "fail"}
Running == {s \in Scripts : pc[s] \in InExec}
Overdue == Running \ {loop}

Goto(s, label) == pc' = [pc EXCEPT ![s] = label]
Tell(s, what) == answer' = [answer EXCEPT ![s] = what] /\ loop' = Nobody

Init ==
    /\ pc = [s \in Scripts |-> "new"]
    /\ hook = Nobody
    /\ saved = [s \in Scripts |-> Nobody]
    /\ last = [s \in Scripts |-> Nobody]
    /\ loop = Nobody
    /\ result = Nobody
    /\ answer = [s \in Scripts |-> "none"]
    /\ accepted = [s \in Scripts |-> Nobody]
    /\ owed = FALSE /\ beside = FALSE /\ overran = FALSE

-----------------------------------------------------------------------------
(* The event loop: one request at a time, since run() is not awaited. *)

\* The syntax check finds something: nothing is submitted.
Reject(s) ==
    /\ loop = Nobody /\ pc[s] = "new"
    /\ Goto(s, "rejected")
    /\ Tell(s, "errors")
    /\ UNCHANGED <<thread, result, accepted, history>>

Submit(s) ==
    /\ loop = Nobody /\ pc[s] = "new"
    /\ Goto(s, "queued")
    /\ loop' = s
    /\ owed' = FALSE
    /\ UNCHANGED <<thread, result, answer, accepted, beside, overran>>

\* future.result() answers in time.  A class is reported by /validate, and
\* goes on to the registry from /strategies.
Collect(s) ==
    /\ loop = s /\ pc[s] = "done" /\ answer[s] = "none"
    /\ \/ result = Nobody /\ Tell(s, "errors")
       \/ result # Nobody /\ Tell(s, "valid")
       \/ result # Nobody /\ answer' = [answer EXCEPT ![s] = "building"] /\ UNCHANGED loop
    /\ UNCHANGED <<pc, thread, result, accepted, history>>

\* Mutant: future.cancel() is forgotten.
NotCancelled == "queued"

Cancelled == "cancelled"

\* The time is up: what is queued is cancelled, what runs goes on.
Timeout(s) ==
    /\ loop = s /\ pc[s] \in InExec \union {"queued"}
    /\ Tell(s, "timeout")
    /\ Goto(s, IF pc[s] = "queued" THEN Cancelled ELSE pc[s])
    /\ overran' = (overran \/ pc[s] # "queued")
    /\ UNCHANGED <<thread, result, accepted, owed, beside>>

\* registry.add(): the constructor of the class runs on the event loop; it may raise,
\* or never come to this step.
Build(s) ==
    /\ loop = s /\ answer[s] = "building"
    /\ \/ Tell(s, "created") /\ accepted' = [accepted EXCEPT ![s] = result]
       \/ Tell(s, "errors") /\ UNCHANGED accepted
    /\ UNCHANGED <<pc, thread, result, history>>

-----------------------------------------------------------------------------
(* A worker thread: _exec.  Threads interleave between any two steps. *)

\* Mutant: a pool without a bound.
AlwaysRoom == TRUE

FreeWorker == Cardinality(Running) < Workers

Start(s) ==
    /\ pc[s] = "queued" /\ FreeWorker
    /\ Goto(s, "load")
    /\ beside' = (Overdue # {})
    /\ UNCHANGED <<thread, loop, result, answer, accepted, owed, overran>>

LoadHook(s) ==
    /\ pc[s] = "load"
    /\ saved' = [saved EXCEPT ![s] = hook]
    /\ Goto(s, "install")
    /\ UNCHANGED <<hook, last, loop, result, answer, accepted, history>>

InstallHook(s) ==
    /\ pc[s] = "install"
    /\ hook' = s
    /\ Goto(s, "run")
    /\ UNCHANGED <<saved, last, loop, result, answer, accepted, history>>

\* register() tests the hook and, a step later, looks it up again and calls it.
Register(s) ==
    /\ pc[s] = "run"
    /\ owed' = (owed \/ loop = s)
    /\ Goto(s, IF hook = Nobody THEN "run" ELSE "call")
    /\ UNCHANGED <<thread, loop, result, answer, accepted, beside, overran>>

\* None cannot be called, an error the script may catch.  The list of an _exec
\* that has returned is read by nobody.
CallHook(s) ==
    /\ pc[s] = "call"
    /\ Goto(s, "run") \/ (hook = Nobody /\ Goto(s, "raised"))
    /\ last' = IF hook \in Running THEN [last EXCEPT ![hook] = s] ELSE last
    /\ UNCHANGED <<hook, saved, loop, result, answer, accepted, history>>

Finish(s) ==
    /\ pc[s] = "run"
    /\ Goto(s, "restore")
    /\ UNCHANGED <<thread, loop, result, answer, accepted, history>>

Raise(s) ==
    /\ pc[s] = "run"
    /\ Goto(s, "raised")
    /\ owed' = (owed /\ loop # s)
    /\ UNCHANGED <<thread, loop, result, answer, accepted, beside, overran>>

\* Mutant: the hook is restored at the end of the try, not in a finally clause.
RestoredAtEnd(s) == IF pc[s] = "restore" THEN saved[s] ELSE hook

Restored(s) == saved[s]

RestoreHook(s) ==
    /\ pc[s] \in {"restore", "raised"}
    /\ hook' = Restored(s)
    /\ saved' = [saved EXCEPT ![s] = Nobody]
    /\ Goto(s, IF pc[s] = "restore" THEN "return" ELSE "fail")
    /\ UNCHANGED <<last, loop, result, answer, accepted, history>>

\* Mutant: what was registered before an error is returned all the same.
OutcomeOfList(s) == last[s]

Outcome(s) == IF pc[s] = "fail" THEN Nobody ELSE last[s]

\* What a script past its limit returns is dropped with its future.
Return(s) ==
    /\ pc[s] \in {"return", "fail"}
    /\ result' = IF loop = s THEN Outcome(s) ELSE result
    /\ last' = [last EXCEPT ![s] = Nobody]
    /\ Goto(s, "done")
    /\ UNCHANGED <<hook, saved, loop, answer, accepted, history>>

-----------------------------------------------------------------------------

Worker(s) ==
    Start(s) \/ LoadHook(s) \/ InstallHook(s) \/ CallHook(s) \/ RestoreHook(s) \/ Return(s)
Script(s) == Register(s) \/ Finish(s) \/ Raise(s)
Desk(s) == Reject(s) \/ Submit(s) \/ Collect(s) \/ Timeout(s) \/ Build(s)

Next == \E s \in Scripts : Desk(s) \/ Worker(s) \/ Script(s)

Spec == Init /\ [][Next]_vars

-----------------------------------------------------------------------------

Maybe == Scripts \union {Nobody}

Typed ==
    /\ pc \in [Scripts -> InExec \union {"new", "rejected", "queued", "cancelled", "done"}]
    /\ hook \in Maybe /\ loop \in Maybe /\ result \in Maybe
    /\ saved \in [Scripts -> Maybe]
    /\ last \in [Scripts -> Maybe]
    /\ answer \in [Scripts -> {"none", "errors", "valid", "building", "created", "timeout"}]
    /\ accepted \in [Scripts -> Maybe]
    /\ owed \in BOOLEAN /\ beside \in BOOLEAN /\ overran \in BOOLEAN

\* Every variable holds a value of its type, and no more scripts run than there
\* are workers.
TypeOK == Typed /\ Cardinality(Running) <= Workers

\* A script that ran beside none past its limit returns the class it
\* registered, and none when it registered none or raised (sandbox.py:139-156).
AloneIsFaithful ==
    \A s \in Scripts :
        loop = s /\ pc[s] = "done" /\ ~beside => result = IF owed THEN s ELSE Nobody

\* The pool never holds a submission nobody waits for: what timed out in the
\* queue will not run later (sandbox.py:133).
QueuedIsAwaited == \A s \in Scripts : pc[s] = "queued" => loop = s

\* While every script keeps its limit, the hook is set only during a run, so
\* that register() is without effect outside it (sandbox.py:142-151).
HookRestored == ~overran /\ hook # Nobody => hook = loop /\ hook \in Running

\* Once every worker holds a script past its limit, what is submitted waits in
\* the queue until one of them ends: only a timeout can answer it (sandbox.py:25, 129).
LostPoolOnlyTimesOut ==
    Cardinality(Overdue) >= Workers => \A s \in Scripts : loop = s => pc[s] = "queued"

=============================================================================
