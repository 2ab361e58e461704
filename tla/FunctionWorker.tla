--------------------------- MODULE FunctionWorker ---------------------------
(* One execution of a function: the parent starts a worker process, serves its *)
(* calls of the host API over a connection, and waits for its answer on the    *)
(* worker's standard output.  The worker has a deadline of its own and the     *)
(* parent a later one, after which it kills the worker; both may come at any   *)
(* time, for the machine may be slow and the caller may go away.  What the     *)
(* function computes is left open: it may call, return, throw or never end.    *)
EXTENDS Naturals

CONSTANT MaxCalls   \* bound: host calls of the function

VARIABLES
  parent,     \* where runIsolatedSubprocess is
  outcome,    \* what it returned
  worker,     \* the worker process
  dialed,     \* the worker has connected
  answer,     \* what is on the worker's standard output
  call,       \* the host call in progress, seen from the connection
  made,       \* host calls the function made and had an answer to
  effects,    \* host calls the parent carried out
  expired,    \* the worker's deadline has passed
  sampling    \* the parent samples the worker's memory and processor

workerVars == <<parent, outcome, worker, dialed, answer, call, made, effects, expired, sampling>>

WorkerInit ==
  /\ parent = "start" /\ outcome = "none"
  /\ worker = "none" /\ dialed = FALSE /\ answer = "none"
  /\ call = "none" /\ made = 0 /\ effects = 0
  /\ expired = FALSE /\ sampling = FALSE

Returns(result) == parent' = "done" /\ outcome' = result

------------------------------------------------------------------------------
\* The parent.
runIsolatedSubprocess ==
  /\ parent = "start"
  /\ \/ /\ parent' = "handshake" /\ worker' = "started" /\ sampling' = TRUE
        /\ UNCHANGED outcome
     \/ Returns("error") /\ UNCHANGED <<worker, sampling>>   \* no socket, no process
  /\ UNCHANGED <<dialed, answer, call, made, effects, expired>>

\* The worker has dialed: its calls are served from now on.
Handshake ==
  /\ parent = "handshake" /\ dialed
  /\ parent' = "wait"
  /\ UNCHANGED <<outcome, worker, dialed, answer, call, made, effects, expired, sampling>>

\* Five seconds without a connection; sampling is not stopped here.
HandshakeTimesOut ==
  /\ parent = "handshake"
  /\ worker' = "gone" /\ Returns("timeout")
  /\ UNCHANGED <<dialed, answer, call, made, effects, expired, sampling>>

\* Mutant of ParentDeadline: it ends with the handshake.
ParentDeadlineEndsEarly ==
  /\ parent = "handshake" /\ worker # "gone"
  /\ worker' = "gone"
  /\ UNCHANGED <<parent, outcome, dialed, answer, call, made, effects, expired, sampling>>

\* The parent's deadline comes, or its caller cancels: the worker is killed.
ParentDeadline ==
  /\ parent \in {"handshake", "wait"} /\ worker # "gone"
  /\ worker' = "gone"
  /\ UNCHANGED <<parent, outcome, dialed, answer, call, made, effects, expired, sampling>>

\* cmd.Wait returns; the outcome is what the worker wrote, or why it ended.
Wait ==
  /\ parent = "wait" /\ worker = "gone"
  /\ Returns(IF answer = "none" THEN "error" ELSE answer)
  /\ sampling' = FALSE
  /\ UNCHANGED <<worker, dialed, answer, call, made, effects, expired>>

\* serveHostRPC takes a call off the connection and carries it out: a document
\* or a file of the project is read or written.  It does not stop for the
\* worker's end.
serveHostRPC ==
  /\ call = "sent" /\ parent \in {"wait", "done"} /\ call' = "serving"
  /\ UNCHANGED <<parent, outcome, worker, dialed, answer, made, effects, expired, sampling>>

dispatchHostCall ==
  /\ call = "serving"
  /\ effects' = effects + 1
  /\ call' = IF worker = "running" THEN "answered" ELSE "lost"
  /\ UNCHANGED <<parent, outcome, worker, dialed, answer, made, expired, sampling>>

------------------------------------------------------------------------------
\* The worker.
WorkerMain ==
  /\ worker = "started" /\ worker' = "running" /\ dialed' = TRUE
  /\ UNCHANGED <<parent, outcome, answer, call, made, effects, expired, sampling>>

\* The function calls the host and waits for the answer.
HostCall ==
  /\ worker = "running" /\ ~expired /\ call = "none" /\ made < MaxCalls
  /\ call' = "sent"
  /\ UNCHANGED <<parent, outcome, worker, dialed, answer, made, effects, expired, sampling>>

HostReturns ==
  /\ worker = "running" /\ ~expired /\ call = "answered"
  /\ call' = "none" /\ made' = made + 1
  /\ UNCHANGED <<parent, outcome, worker, dialed, answer, effects, expired, sampling>>

\* The function returns, or throws.
FunctionEnds ==
  /\ worker = "running" /\ ~expired /\ call = "none"
  /\ worker' = "stopped" /\ answer' \in {"success", "error"}
  /\ UNCHANGED <<parent, outcome, dialed, call, made, effects, expired, sampling>>

\* The worker's deadline: the connection closes.
WorkerDeadline ==
  /\ worker = "running" /\ ~expired /\ expired' = TRUE
  /\ UNCHANGED <<parent, outcome, worker, dialed, answer, call, made, effects, sampling>>

\* Mutant of Interrupted: the error of the deadline does not reach the answer.
InterruptedQuietly ==
  /\ worker = "running" /\ expired
  /\ worker' = "stopped" /\ answer' = "success"
  /\ UNCHANGED <<parent, outcome, dialed, call, made, effects, expired, sampling>>

\* The interpreter is interrupted, or left behind; the answer names the deadline.
Interrupted ==
  /\ worker = "running" /\ expired
  /\ worker' = "stopped" /\ answer' = "timeout"
  /\ UNCHANGED <<parent, outcome, dialed, call, made, effects, expired, sampling>>

\* The worker exits after its answer, or before it.
WorkerExits ==
  /\ worker \in {"started", "running", "stopped"} /\ worker' = "gone"
  /\ UNCHANGED <<parent, outcome, dialed, answer, call, made, effects, expired, sampling>>

WorkerNext ==
  \/ runIsolatedSubprocess \/ Handshake \/ HandshakeTimesOut \/ ParentDeadline \/ Wait
  \/ serveHostRPC \/ dispatchHostCall
  \/ WorkerMain \/ HostCall \/ HostReturns \/ FunctionEnds
  \/ WorkerDeadline \/ Interrupted \/ WorkerExits

\* The parent's goroutines run and its timers fire; nothing is asked of the
\* worker, of the function or of a host call.
WorkerFairness ==
  /\ WF_workerVars(runIsolatedSubprocess) /\ WF_workerVars(Handshake \/ HandshakeTimesOut)
  /\ WF_workerVars(ParentDeadline) /\ WF_workerVars(Wait)

WorkerSpec == WorkerInit /\ [][WorkerNext]_workerVars /\ WorkerFairness

------------------------------------------------------------------------------
WorkerTypeOK ==
  /\ parent \in {"start", "handshake", "wait", "done"}
  /\ outcome \in {"none", "success", "error", "timeout"}
  /\ worker \in {"none", "started", "running", "stopped", "gone"}
  /\ answer \in {"none", "success", "error", "timeout"}
  /\ call \in {"none", "sent", "serving", "answered", "lost"}
  /\ made \in 0..MaxCalls /\ effects \in 0..MaxCalls
  /\ dialed \in BOOLEAN /\ expired \in BOOLEAN /\ sampling \in BOOLEAN

\* An execution that is reported a success made every host call exactly once,
\* and none is under way; only a worker that never connected is sampled on.
SuccessIsComplete ==
  /\ outcome = "success" => call = "none" /\ effects = made
  /\ parent = "done" /\ sampling => outcome = "timeout" /\ made = 0

\* Whatever the function and the worker do, the caller gets an outcome.
EveryRunEnds == <>(parent = "done")
==============================================================================
