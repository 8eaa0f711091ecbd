--------------------------- MODULE BackgroundJobs ---------------------------
(***************************************************************************)
(* The background job runner (domain/tasks/worker.py) and the cancel       *)
(* endpoint (api/admin.py, cancel_job).                                    *)
(*                                                                         *)
(* Every job is one row of background_jobs and one daemon thread.  The     *)
(* thread and any number of cancel requests work on the same row through   *)
(* database sessions of their own: each reads the row, decides on what it  *)
(* read, and commits.  PostgreSQL runs them READ COMMITTED and the ORM     *)
(* writes only the columns that were assigned, so an action below that     *)
(* commits changes exactly those columns of the row as it then is, and the *)
(* decision may rest on a row that has changed since it was read.          *)
(*                                                                         *)
(* The function a job runs is a loop over items.  run_background_job does  *)
(* not tell it which job it is, so the id it passes to should_stop is left *)
(* open here; JobSlots says where the code takes it from.                  *)
(***************************************************************************)
EXTENDS Naturals

CONSTANTS
    Jobs,         \* ids of the rows that may be inserted
    NoJob,        \* an id no row has (None, or the 0 of "... or 0")
    Cancels,      \* request threads of the server that serve cancel_job
    MaxItems,     \* bound: items in the loop of a job's function
    MaxCrashes,   \* bound: crashes of the server process
    MaxDbErrors   \* bound: database calls that fail

ASSUME JobsAssumption == NoJob \notin Jobs
ASSUME BoundsAssumption == MaxItems \in Nat /\ MaxCrashes \in Nat
                             /\ MaxDbErrors \in Nat

VARIABLES
    row,       \* the table background_jobs
    thread,    \* where the thread of each job is
    polled,    \* the id the job's function passes to should_stop
    left,      \* items the job's function has not processed yet
    request,   \* where each cancel request is and what it read
    crashes, dbErrors

vars == <<row, thread, polled, left, request, crashes, dbErrors>>

Status == {"absent", "pending", "running", "completed", "failed", "cancelled"}
Terminal == {"completed", "failed", "cancelled"}

Row == [status: Status, cancel_requested: BOOLEAN, started_at: BOOLEAN,
        completed_at: BOOLEAN, result: BOOLEAN, error: BOOLEAN]

(* The thread goes  none -> spawned -> entered -> polling <-> working ->   *)
(* returned -> completing or attaching -> ended,  or after an exception    *)
(* raised -> failing -> ended.  "lost": it stopped without finishing.      *)
InFunction == {"entered", "polling", "working"}
Undecided == {"spawned", "returned", "raised"} \cup InFunction
Live == Undecided \cup {"completing", "attaching", "failing"}
ThreadState == Live \cup {"none", "ended", "lost"}

JobIds == Jobs \cup {NoJob}

Request == [pc: {"idle", "read", "committed"}, job: JobIds, status: Status]
Idle == [pc |-> "idle", job |-> NoJob, status |-> "absent"]

Absent == [status |-> "absent", cancel_requested |-> FALSE,
           started_at |-> FALSE, completed_at |-> FALSE,
           result |-> FALSE, error |-> FALSE]

(* The row run_background_job inserts: the columns it names and defaults.  *)
Pending == [Absent EXCEPT !.status = "pending"]

Init ==
    /\ row = [j \in Jobs |-> Absent]
    /\ thread = [j \in Jobs |-> "none"]
    /\ polled = [j \in Jobs |-> NoJob]
    /\ left = [j \in Jobs |-> 0]
    /\ request = [c \in Cancels |-> Idle]
    /\ crashes = 0
    /\ dbErrors = 0

-----------------------------------------------------------------------------
(* One database call fails, out of a bounded number of failures.           *)
DbError ==
    /\ dbErrors < MaxDbErrors
    /\ dbErrors' = dbErrors + 1

Goto(j, pc) == thread' = [thread EXCEPT ![j] = pc]

(* Mutant: the test looks at the status only.                              *)
StoppedByStatus(r) == r.status = "cancelled"

(* The test should_stop and _run make on a row they read.                  *)
Stopped(r) == r.cancel_requested \/ r.status = "cancelled"

(* should_stop: an id without a row stops nobody.                          *)
ShouldStop(id) ==
    /\ id \in Jobs
    /\ row[id].status # "absent"
    /\ Stopped(row[id])

(* The columns _run assigns when its thread starts,                        *)
Started(r) == [r EXCEPT !.status = "running", !.started_at = TRUE]

(* when the function returned and the job is to be cancelled,              *)
Attached(r) == [r EXCEPT !.result = TRUE]

(* Mutant: the whole row is written back, with the flag as it was read.    *)
CompletedWholeRow(r) ==
    [r EXCEPT !.result = TRUE, !.status = "completed", !.completed_at = TRUE,
              !.cancel_requested = FALSE]

(* when it returned otherwise,                                             *)
Completed(r) ==
    [r EXCEPT !.result = TRUE, !.status = "completed", !.completed_at = TRUE]

(* Mutant: no rollback, so the result of the failed commit is written too. *)
FailedNoRollback(r) ==
    [r EXCEPT !.error = TRUE, !.status = "failed", !.completed_at = TRUE,
              !.result = TRUE]

(* and when it raised.                                                     *)
Failed(r) ==
    [r EXCEPT !.error = TRUE, !.status = "failed", !.completed_at = TRUE]

(* Mutant: the status is not tested.                                       *)
AfterCancelAnyStatus(r, status) ==
    [r EXCEPT !.cancel_requested = TRUE, !.status = "cancelled",
              !.completed_at = TRUE]

(* The columns cancel_job assigns, given the status it read.               *)
AfterCancel(r, status) ==
    IF status \in Terminal THEN [r EXCEPT !.cancel_requested = TRUE]
    ELSE [r EXCEPT !.cancel_requested = TRUE, !.status = "cancelled",
                   !.completed_at = TRUE]

-----------------------------------------------------------------------------
(* run_background_job: the row is committed as pending, then the thread is *)
(* started.  A crash between the two is a Crash that finds the thread not  *)
(* started yet.                                                            *)
Submit(j) ==
    /\ row[j].status = "absent"
    /\ row' = [row EXCEPT ![j] = Pending]
    /\ Goto(j, "spawned")
    /\ UNCHANGED <<polled, left, request, crashes, dbErrors>>

(* The refresh after that commit fails: the caller gets the error, the row *)
(* stays and no thread is ever started for it.                             *)
SubmitFails(j) ==
    /\ row[j].status = "absent"
    /\ DbError
    /\ row' = [row EXCEPT ![j] = Pending]
    /\ Goto(j, "lost")
    /\ UNCHANGED <<polled, left, request, crashes>>

(* First transaction of _run.  The assignment does not depend on the       *)
(* status that was read, so read and commit are one step.                  *)
MarkRunning(j) ==
    /\ thread[j] = "spawned"
    /\ row' = [row EXCEPT ![j] = Started(@)]
    /\ Goto(j, "entered")
    /\ UNCHANGED <<polled, left, request, crashes, dbErrors>>

(* The function starts: it settles on the id it will poll and on its work. *)
FnEnter(j, id) ==
    /\ thread[j] = "entered"
    /\ polled' = [polled EXCEPT ![j] = id]
    /\ \E n \in 0..MaxItems : left' = [left EXCEPT ![j] = n]
    /\ Goto(j, "polling")
    /\ UNCHANGED <<row, request, crashes, dbErrors>>

(* Control leaves the function, and its local variables are gone.          *)
LeaveFunction(j, pc) ==
    /\ Goto(j, pc)
    /\ polled' = [polled EXCEPT ![j] = NoJob]
    /\ left' = [left EXCEPT ![j] = 0]

(* Mutant: the loop goes one item too far.                                 *)
FnPollPastEnd(j) ==
    /\ thread[j] = "polling"
    /\ IF ShouldStop(polled[j])
       THEN LeaveFunction(j, "returned")
       ELSE Goto(j, "working") /\ UNCHANGED <<polled, left>>
    /\ UNCHANGED <<row, request, crashes, dbErrors>>

(* Head of the loop: leave it when nothing is left or should_stop says so. *)
FnPoll(j) ==
    /\ thread[j] = "polling"
    /\ IF left[j] = 0 \/ ShouldStop(polled[j])
       THEN LeaveFunction(j, "returned")
       ELSE Goto(j, "working") /\ UNCHANGED <<polled, left>>
    /\ UNCHANGED <<row, request, crashes, dbErrors>>

FnItem(j) ==
    /\ thread[j] = "working"
    /\ left' = [left EXCEPT ![j] = @ - 1]
    /\ Goto(j, "polling")
    /\ UNCHANGED <<row, polled, request, crashes, dbErrors>>

(* The function raises; should_stop may raise as well.                     *)
FnRaise(j) ==
    /\ thread[j] \in InFunction
    /\ LeaveFunction(j, "raised")
    /\ UNCHANGED <<row, request, crashes, dbErrors>>

-----------------------------------------------------------------------------
(* After the function returned, _run reads the row again and takes one of  *)
(* two ways on what it read,                                               *)
LookAfterReturn(j) ==
    /\ thread[j] = "returned"
    /\ Goto(j, IF Stopped(row[j]) THEN "attaching" ELSE "completing")
    /\ UNCHANGED <<row, polled, left, request, crashes, dbErrors>>

(* Mutant: both ways end in the same commit.                               *)
CommitAttachCompletes(j) ==
    /\ thread[j] = "attaching"
    /\ row' = [row EXCEPT ![j] = Completed(@)]
    /\ Goto(j, "ended")
    /\ UNCHANGED <<polled, left, request, crashes, dbErrors>>

(* honouring the cancellation: only the result is attached,                *)
CommitAttach(j) ==
    /\ thread[j] = "attaching"
    /\ row' = [row EXCEPT ![j] = Attached(@)]
    /\ Goto(j, "ended")
    /\ UNCHANGED <<polled, left, request, crashes, dbErrors>>

(* or completing the job.                                                  *)
CommitComplete(j) ==
    /\ thread[j] = "completing"
    /\ row' = [row EXCEPT ![j] = Completed(@)]
    /\ Goto(j, "ended")
    /\ UNCHANGED <<polled, left, request, crashes, dbErrors>>

(* Mutant: the test of the flag is inverted.                               *)
LookAfterRaiseInverted(j) ==
    /\ thread[j] = "raised"
    /\ Goto(j, IF row[j].cancel_requested THEN "failing" ELSE "ended")
    /\ UNCHANGED <<row, polled, left, request, crashes, dbErrors>>

(* except: roll back and read the row again; only the flag counts here,    *)
(* and a job to be cancelled is left as it is.                             *)
LookAfterRaise(j) ==
    /\ thread[j] = "raised"
    /\ Goto(j, IF row[j].cancel_requested THEN "ended" ELSE "failing")
    /\ UNCHANGED <<row, polled, left, request, crashes, dbErrors>>

CommitFail(j) ==
    /\ thread[j] = "failing"
    /\ row' = [row EXCEPT ![j] = Failed(@)]
    /\ Goto(j, "ended")
    /\ UNCHANGED <<polled, left, request, crashes, dbErrors>>

(* A database call of _run fails.  In the try block that is an exception   *)
(* like one of the function; in the except block nobody catches it.        *)
ThreadDbError(j) ==
    /\ DbError
    /\ \/ /\ thread[j] \in {"spawned", "returned", "completing", "attaching"}
          /\ Goto(j, "raised")
       \/ thread[j] \in {"raised", "failing"} /\ Goto(j, "lost")
    /\ UNCHANGED <<row, polled, left, request, crashes>>

-----------------------------------------------------------------------------
(* cancel_job reads the row (an unknown id is a 404 and changes nothing)   *)
CancelRead(c, j) ==
    /\ request[c].pc = "idle"
    /\ row[j].status # "absent"
    /\ request' = [request EXCEPT ![c] =
                     [pc |-> "read", job |-> j, status |-> row[j].status]]
    /\ UNCHANGED <<row, thread, polled, left, crashes, dbErrors>>

(* and commits on the strength of the status it read.                      *)
CancelCommit(c) ==
    /\ request[c].pc = "read"
    /\ row' = [row EXCEPT ![request[c].job] =
                             AfterCancel(@, request[c].status)]
    /\ request' = [request EXCEPT ![c].pc = "committed"]
    /\ UNCHANGED <<thread, polled, left, crashes, dbErrors>>

(* The reply; releasing the slots is in JobSlots.                          *)
CancelReply(c) ==
    /\ request[c].pc = "committed"
    /\ request' = [request EXCEPT ![c] = Idle]
    /\ UNCHANGED <<row, thread, polled, left, crashes, dbErrors>>

CancelFails(c) ==
    /\ request[c].pc = "read"
    /\ DbError
    /\ request' = [request EXCEPT ![c] = Idle]
    /\ UNCHANGED <<row, thread, polled, left, crashes>>

-----------------------------------------------------------------------------
(* The process dies with its daemon threads and is started again.  Nothing *)
(* in the startup code (app.py, _lifespan) looks at background_jobs.       *)
Crash ==
    /\ crashes < MaxCrashes
    /\ crashes' = crashes + 1
    /\ thread' = [j \in Jobs |-> IF thread[j] \in Live THEN "lost"
                                                       ELSE thread[j]]
    /\ polled' = [j \in Jobs |-> NoJob]
    /\ left' = [j \in Jobs |-> 0]
    /\ request' = [c \in Cancels |-> Idle]
    /\ UNCHANGED <<row, dbErrors>>

-----------------------------------------------------------------------------
(* What the thread of job j does of its own accord.                        *)
ThreadStep(j) ==
    \/ MarkRunning(j)
    \/ \E id \in JobIds : FnEnter(j, id)
    \/ FnPoll(j)
    \/ FnItem(j)
    \/ LookAfterReturn(j)
    \/ CommitAttach(j)
    \/ CommitComplete(j)
    \/ LookAfterRaise(j)
    \/ CommitFail(j)

RequestStep(c) == CancelCommit(c) \/ CancelReply(c)

Next ==
    \/ \E j \in Jobs : \/ Submit(j)
                       \/ SubmitFails(j)
                       \/ ThreadStep(j)
                       \/ FnRaise(j)
                       \/ ThreadDbError(j)
    \/ \E c \in Cancels : \/ \E j \in Jobs : CancelRead(c, j)
                          \/ RequestStep(c)
                          \/ CancelFails(c)
    \/ Crash

Spec == Init /\ [][Next]_vars

(* Threads and requests are scheduled by the operating system, and each    *)
(* step of a function is bounded by the timeouts of the calls it makes.    *)
Fairness ==
    /\ \A j \in Jobs : WF_vars(ThreadStep(j))
    /\ \A c \in Cancels : WF_vars(RequestStep(c))

FairSpec == Spec /\ Fairness

-----------------------------------------------------------------------------
(* Types: each row, thread, snapshot and request has the shape above.      *)
TypeOK ==
    /\ row \in [Jobs -> Row]
    /\ thread \in [Jobs -> ThreadState]
    /\ polled \in [Jobs -> JobIds]
    /\ left \in [Jobs -> 0..MaxItems]
    /\ request \in [Cancels -> Request]
    /\ \A c \in Cancels : request[c].pc # "idle" => request[c].job \in Jobs
    /\ crashes \in 0..MaxCrashes
    /\ dbErrors \in 0..MaxDbErrors

(* What the row reports is what happened: a completed job has its result,  *)
(* a failed one its error, and no job has both, however the last write of  *)
(* the thread, its failures and the cancel requests interleave.            *)
OutcomeMatchesStatus ==
    \A j \in Jobs :
        /\ row[j].status = "completed" => row[j].result
        /\ row[j].status = "failed" => row[j].error
        /\ ~(row[j].result /\ row[j].error)
        /\ row[j].status \in Terminal => row[j].completed_at

(* A job that is pending or running and that nobody asked to cancel has a  *)
(* thread that will still decide its fate, unless that thread was lost to  *)
(* a crash or to a failing database.                                       *)
UnfinishedHasThread ==
    \A j \in Jobs :
        /\ row[j].status \in {"pending", "running"}
        /\ ~row[j].cancel_requested
        => thread[j] \in Live \cup {"lost"}

(* cancel_requested is never withdrawn: neither the thread's writes nor a  *)
(* restart undo it, although both work from a row read earlier.            *)
CancelFlagSticks ==
    [][\A j \in Jobs : row[j].cancel_requested => row'[j].cancel_requested]_vars

(* A completed or failed job changes its status only to cancelled, and     *)
(* only by a cancel request that had read the row before the job ended:    *)
(* later requests leave the status alone.                                  *)
OutcomeLostOnlyToEarlierCancel ==
    [][\A j \in Jobs :
         row[j].status \in {"completed", "failed"}
           => \/ row'[j].status = row[j].status
              \/ /\ row'[j].status = "cancelled"
                 /\ \E c \in Cancels : /\ request[c].pc = "read"
                                       /\ request[c].job = j
                                       /\ request[c].status \notin Terminal]_vars

(* A cancelled job leaves that status only in the two windows the code     *)
(* has: the thread had not started yet, or it had looked at the row before *)
(* the cancellation was committed.                                         *)
CancelledLostOnlyInWindow ==
    [][\A j \in Jobs :
         row[j].status = "cancelled"
           => \/ row'[j].status = "cancelled"
              \/ row'[j].status = "running" /\ thread[j] = "spawned"
              \/ row'[j].status = "completed" /\ thread[j] = "completing"
              \/ row'[j].status = "failed" /\ thread[j] = "failing"]_vars

(* A cancellation committed before the thread takes its last look at the   *)
(* row wins for good: the job never becomes completed or failed.           *)
CancelHonoured ==
    \A j \in Jobs :
        [](row[j].cancel_requested /\ thread[j] \in Undecided
             => [](row[j].status \notin {"completed", "failed"}))

(* A function that polls its own id starts no further item once the        *)
(* cancellation is committed when it comes to the head of its loop.        *)
CancelStopsLoop ==
    \A j \in Jobs :
        [](row[j].cancel_requested /\ polled[j] = j /\ thread[j] = "polling"
             => [](thread[j] # "working"))

(* Every submitted job ends in a terminal status, unless it was asked to   *)
(* cancel or its thread was lost.                                          *)
JobsEnd ==
    \A j \in Jobs :
        row[j].status = "pending"
          ~> \/ row[j].status \in Terminal
             \/ row[j].cancel_requested
             \/ thread[j] = "lost"

=============================================================================
