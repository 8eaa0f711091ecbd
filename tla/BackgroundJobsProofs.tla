------------------------ MODULE BackgroundJobsProofs ------------------------
(***************************************************************************)
(* Theorems about the job runner, for any number of jobs and of concurrent *)
(* cancel requests and whatever the bounds are.                            *)
(*                                                                         *)
(* The inductive invariant is JobsInv.  For each row and its thread it     *)
(* holds, besides the two safety invariants of BackgroundJobs, that a row  *)
(* exists once its job was submitted, that a thread still under way has    *)
(* left no outcome in the row, that "cancelled" comes with the flag, and   *)
(* that a thread attaches its result because the flag was set.             *)
(***************************************************************************)
EXTENDS BackgroundJobs, TLAPS

USE JobsAssumption, BoundsAssumption

(* A row and the thread of its job.                                        *)
JobInv(r, t) ==
    /\ r.status = "absent" <=> t = "none"
    /\ r.status = "absent" => ~r.cancel_requested
    /\ t \in Live \cup {"none"} =>
         r.status \notin {"completed", "failed"} /\ ~r.result /\ ~r.error
    /\ r.status = "cancelled" => r.cancel_requested
    /\ t = "attaching" => r.cancel_requested
    /\ r.status = "completed" => r.result
    /\ r.status = "failed" => r.error
    /\ ~(r.result /\ r.error)
    /\ r.status \in Terminal => r.completed_at
    /\ r.status \in {"pending", "running"} /\ ~r.cancel_requested
         => t \in Live \cup {"lost"}

(* A cancel request works on a row that exists.                            *)
RequestInv(c) ==
    request[c].pc # "idle" => row[request[c].job].status # "absent"

JobsInv ==
    /\ TypeOK
    /\ \A j \in Jobs : JobInv(row[j], thread[j])
    /\ \A c \in Cancels : RequestInv(c)

-----------------------------------------------------------------------------
(* Every write to a row yields a row, and which columns it leaves alone.   *)
LEMMA RowWrites ==
    /\ Absent \in Row /\ Pending \in Row
    /\ \A r \in Row : /\ Started(r) \in Row /\ Attached(r) \in Row
                     /\ Completed(r) \in Row /\ Failed(r) \in Row
                     /\ \A status : AfterCancel(r, status) \in Row
  BY DEF Row, Status, Absent, Pending, Started, Attached, Completed, Failed,
         AfterCancel

(* The columns of a row after each write.                                  *)
LEMMA RowColumns ==
    ASSUME NEW r \in Row
    PROVE  /\ Started(r).status = "running" /\ Started(r).result = r.result
           /\ Started(r).error = r.error
           /\ Started(r).cancel_requested = r.cancel_requested
           /\ Attached(r).status = r.status /\ Attached(r).result
           /\ Attached(r).error = r.error
           /\ Attached(r).completed_at = r.completed_at
           /\ Attached(r).cancel_requested = r.cancel_requested
           /\ Completed(r).status = "completed" /\ Completed(r).result
           /\ Completed(r).error = r.error /\ Completed(r).completed_at
           /\ Completed(r).cancel_requested = r.cancel_requested
           /\ Failed(r).status = "failed" /\ Failed(r).error
           /\ Failed(r).result = r.result /\ Failed(r).completed_at
           /\ Failed(r).cancel_requested = r.cancel_requested
  BY DEF Row, Started, Attached, Completed, Failed

(* The columns of a freshly inserted row, and of none.                     *)
LEMMA NewColumns ==
    /\ Pending.status = "pending" /\ ~Pending.result /\ ~Pending.error
    /\ ~Pending.cancel_requested
    /\ Absent.status = "absent" /\ ~Absent.result /\ ~Absent.error
    /\ ~Absent.cancel_requested
  BY DEF Pending, Absent

(* A cancel request sets the flag, and the status unless it read the row   *)
(* in a terminal one.                                                      *)
LEMMA CancelColumns ==
    ASSUME NEW r \in Row, NEW status \in Status
    PROVE  LET q == AfterCancel(r, status) IN
             /\ q.cancel_requested
             /\ q.result = r.result /\ q.error = r.error
             /\ status \in Terminal => /\ q.status = r.status
                                       /\ q.completed_at = r.completed_at
             /\ status \notin Terminal => q.status = "cancelled" /\ q.completed_at
  BY DEF Row, AfterCancel

(* A request keeps what it read until it replies.                          *)
LEMMA RequestCommitted ==
    ASSUME NEW q \in Request
    PROVE  LET p == [q EXCEPT !.pc = "committed"] IN
             /\ p \in Request /\ p.pc = "committed" /\ p.job = q.job
  BY DEF Request

(* An item is only worked on while there is one left: without this the     *)
(* type of "left" is not inductive.                                        *)
LoopInv == \A j \in Jobs : thread[j] = "working" => left[j] # 0

(* The variables keep their types whatever the jobs and requests do.       *)
THEOREM TypeCorrect == Spec => []TypeOK
<1>1. Init => TypeOK /\ LoopInv
  BY DEF Init, TypeOK, LoopInv, Row, Status, ThreadState, JobIds, Request, Idle, Absent
<1>2. TypeOK /\ LoopInv /\ [Next]_vars => TypeOK' /\ LoopInv'
  <2> SUFFICES ASSUME TypeOK, LoopInv, [Next]_vars PROVE TypeOK' /\ LoopInv'
    OBVIOUS
  <2> USE RowWrites
      DEF TypeOK, LoopInv, ThreadState, Live, Undecided, InFunction, JobIds, Goto,
          LeaveFunction
  <2>1. ASSUME NEW j \in Jobs, Submit(j) \/ SubmitFails(j) PROVE TypeOK' /\ LoopInv'
    BY <2>1 DEF Submit, SubmitFails, DbError
  <2>2. ASSUME NEW j \in Jobs, MarkRunning(j) PROVE TypeOK' /\ LoopInv'
    BY <2>2 DEF MarkRunning
  <2>3. ASSUME NEW j \in Jobs, NEW id \in JobIds, FnEnter(j, id) PROVE TypeOK' /\ LoopInv'
    BY <2>3 DEF FnEnter
  <2>4. ASSUME NEW j \in Jobs, FnPoll(j) \/ FnRaise(j) PROVE TypeOK' /\ LoopInv'
    BY <2>4 DEF FnPoll, FnRaise
  <2>5. ASSUME NEW j \in Jobs, FnItem(j) PROVE TypeOK' /\ LoopInv'
    BY <2>5 DEF FnItem
  <2>6. ASSUME NEW j \in Jobs, LookAfterReturn(j) \/ LookAfterRaise(j)
        PROVE  TypeOK' /\ LoopInv'
    BY <2>6 DEF LookAfterReturn, LookAfterRaise
  <2>7. ASSUME NEW j \in Jobs, CommitAttach(j) \/ CommitComplete(j) \/ CommitFail(j)
        PROVE  TypeOK' /\ LoopInv'
    BY <2>7 DEF CommitAttach, CommitComplete, CommitFail
  <2>8. ASSUME NEW j \in Jobs, ThreadDbError(j) PROVE TypeOK' /\ LoopInv'
    BY <2>8 DEF ThreadDbError, DbError
  <2>9. ASSUME NEW c \in Cancels, NEW j \in Jobs, CancelRead(c, j) PROVE TypeOK' /\ LoopInv'
    BY <2>9 DEF CancelRead, Request, Row
  <2>10. ASSUME NEW c \in Cancels, CancelCommit(c) PROVE TypeOK' /\ LoopInv'
    <3>1. request[c] \in Request /\ request[c].job \in Jobs
          /\ request[c].status \in Status
      BY <2>10 DEF CancelCommit, Request
    <3>2. row' \in [Jobs -> Row]
      BY <2>10, <3>1 DEF CancelCommit
    <3>3. /\ request' \in [Cancels -> Request]
          /\ \A d \in Cancels : request'[d].pc # "idle" => request'[d].job \in Jobs
      BY <2>10, <3>1, RequestCommitted DEF CancelCommit
    <3>4. QED
      BY <2>10, <3>2, <3>3 DEF CancelCommit
  <2>11. ASSUME NEW c \in Cancels, CancelReply(c) \/ CancelFails(c) PROVE TypeOK' /\ LoopInv'
    BY <2>11 DEF CancelReply, CancelFails, DbError, Idle, Request, Status
  <2>12. ASSUME Crash PROVE TypeOK' /\ LoopInv'
    BY <2>12 DEF Crash, Idle, Request, Status
  <2>13. CASE UNCHANGED vars
    BY <2>13 DEF vars
  <2> HIDE DEF TypeOK, LoopInv
  <2>14. QED
    BY <2>1, <2>2, <2>3, <2>4, <2>5, <2>6, <2>7, <2>8, <2>9, <2>10, <2>11,
       <2>12, <2>13 DEF Next, ThreadStep, RequestStep
<1>3. QED
  BY <1>1, <1>2, PTL DEF Spec

-----------------------------------------------------------------------------
(* A step of one job's thread keeps the invariant of every row, if it      *)
(* keeps that of its own and never makes the row absent.                   *)
LEMMA ThreadKeepsRows ==
    ASSUME JobsInv, TypeOK', NEW j \in Jobs, NEW r \in Row, NEW t,
           row' = [row EXCEPT ![j] = r], thread' = [thread EXCEPT ![j] = t],
           request' = request, JobInv(r, t), r.status # "absent"
    PROVE  JobsInv'
<1>1. \A i \in Jobs : JobInv(row[i], thread[i])'
  BY DEF JobsInv, TypeOK
<1>2. \A c \in Cancels : RequestInv(c)'
  BY DEF JobsInv, TypeOK, RequestInv
<1>3. QED
  BY <1>1, <1>2 DEF JobsInv

(* JobsInv is an invariant.                                                *)
LEMMA JobsInvariant == Spec => []JobsInv
<1>1. Init => \A j \in Jobs : JobInv(row[j], thread[j])
  BY NewColumns DEF Init, JobInv, Live, Undecided, InFunction, Terminal
<1>2. Init => \A c \in Cancels : RequestInv(c)
  BY DEF Init, RequestInv, Idle
<1>3. JobsInv /\ TypeOK' /\ [Next]_vars => JobsInv'
  <2> SUFFICES ASSUME JobsInv, TypeOK', [Next]_vars PROVE JobsInv'
    OBVIOUS
  <2>a. \A j \in Jobs : row[j] \in Row /\ JobInv(row[j], thread[j])
    BY DEF JobsInv, TypeOK
  <2>b. row \in [Jobs -> Row] /\ thread \in [Jobs -> ThreadState]
    BY DEF JobsInv, TypeOK
  <2> USE DEF Live, Undecided, InFunction
  <2>1. ASSUME NEW j \in Jobs, Submit(j) \/ SubmitFails(j) PROVE JobsInv'
    <3>1. JobInv(Pending, "spawned") /\ JobInv(Pending, "lost")
      BY NewColumns DEF JobInv, Terminal
    <3>2. QED
      BY <2>1, <3>1, NewColumns, RowWrites, ThreadKeepsRows
         DEF Submit, SubmitFails, Goto
  <2>2. ASSUME NEW j \in Jobs, MarkRunning(j) PROVE JobsInv'
    <3>1. JobInv(Started(row[j]), "entered") /\ Started(row[j]) \in Row
          /\ Started(row[j]).status # "absent"
      BY <2>2, <2>a, RowColumns, RowWrites DEF MarkRunning, JobInv, Terminal
    <3>2. QED
      BY <2>2, <3>1, ThreadKeepsRows DEF MarkRunning, Goto
  <2>3. ASSUME NEW j \in Jobs, NEW t \in Live, t # "attaching",
               thread[j] \in Live, UNCHANGED <<row, request>>,
               thread' = [thread EXCEPT ![j] = t]
        PROVE  JobsInv'
    <3>1. JobInv(row[j], t) /\ row[j].status # "absent"
      BY <2>3, <2>a DEF JobInv
    <3>2. row' = [row EXCEPT ![j] = row[j]]
      BY <2>3, <2>b
    <3>3. QED
      BY <2>3, <2>a, <3>1, <3>2, ThreadKeepsRows
  <2>4. ASSUME NEW j \in Jobs, NEW id \in JobIds, FnEnter(j, id) PROVE JobsInv'
    BY <2>4, <2>3 DEF FnEnter, Goto
  <2>5. ASSUME NEW j \in Jobs, FnPoll(j) \/ FnItem(j) \/ FnRaise(j)
        PROVE  JobsInv'
    BY <2>5, <2>3 DEF FnPoll, FnItem, FnRaise, Goto, LeaveFunction
  <2>6. ASSUME NEW j \in Jobs, LookAfterReturn(j) PROVE JobsInv'
    <3>1. row' = [row EXCEPT ![j] = row[j]] /\ row[j].status # "absent"
      BY <2>6, <2>a, <2>b DEF LookAfterReturn, JobInv
    <3>2. CASE Stopped(row[j])
      <4>1. JobInv(row[j], "attaching")
        BY <2>6, <2>a, <3>2 DEF LookAfterReturn, JobInv, Stopped
      <4>2. QED
        BY <2>6, <2>a, <3>1, <3>2, <4>1, ThreadKeepsRows DEF LookAfterReturn, Goto
    <3>3. CASE ~Stopped(row[j])
      BY <2>6, <2>3, <3>3 DEF LookAfterReturn, Goto
    <3>4. QED
      BY <3>2, <3>3
  <2>7. ASSUME NEW j \in Jobs, LookAfterRaise(j) PROVE JobsInv'
    <3>1. row' = [row EXCEPT ![j] = row[j]] /\ row[j].status # "absent"
      BY <2>7, <2>a, <2>b DEF LookAfterRaise, JobInv
    <3>2. CASE row[j].cancel_requested
      <4>1. JobInv(row[j], "ended")
        BY <2>7, <2>a, <3>2 DEF LookAfterRaise, JobInv
      <4>2. QED
        BY <2>7, <2>a, <3>1, <3>2, <4>1, ThreadKeepsRows DEF LookAfterRaise, Goto
    <3>3. CASE ~row[j].cancel_requested
      BY <2>7, <2>3, <3>3 DEF LookAfterRaise, Goto
    <3>4. QED
      BY <3>2, <3>3
  <2>8. ASSUME NEW j \in Jobs, CommitAttach(j) PROVE JobsInv'
    <3>a. row[j] \in Row /\ row[j].cancel_requested /\ ~row[j].error
          /\ row[j].status \notin {"absent", "completed", "failed"}
      BY <2>8, <2>a DEF CommitAttach, JobInv
    <3>b. row[j].status \in Terminal => row[j].completed_at
      BY <2>a DEF JobInv
    <3>1. JobInv(Attached(row[j]), "ended") /\ Attached(row[j]) \in Row
          /\ Attached(row[j]).status # "absent"
      BY <3>a, <3>b, RowColumns, RowWrites DEF JobInv
    <3>2. QED
      BY <2>8, <3>1, ThreadKeepsRows DEF CommitAttach, Goto
  <2>9. ASSUME NEW j \in Jobs, CommitComplete(j) PROVE JobsInv'
    <3>1. JobInv(Completed(row[j]), "ended") /\ Completed(row[j]) \in Row
          /\ Completed(row[j]).status # "absent"
      BY <2>9, <2>a, RowColumns, RowWrites DEF CommitComplete, JobInv
    <3>2. QED
      BY <2>9, <3>1, ThreadKeepsRows DEF CommitComplete, Goto
  <2>10. ASSUME NEW j \in Jobs, CommitFail(j) PROVE JobsInv'
    <3>1. JobInv(Failed(row[j]), "ended") /\ Failed(row[j]) \in Row
          /\ Failed(row[j]).status # "absent"
      BY <2>10, <2>a, RowColumns, RowWrites DEF CommitFail, JobInv
    <3>2. QED
      BY <2>10, <3>1, ThreadKeepsRows DEF CommitFail, Goto
  <2>11. ASSUME NEW j \in Jobs, ThreadDbError(j) PROVE JobsInv'
    <3>1. CASE thread' = [thread EXCEPT ![j] = "raised"] /\ thread[j] \in Live
      BY <2>11, <2>3, <3>1 DEF ThreadDbError
    <3>2. CASE thread' = [thread EXCEPT ![j] = "lost"] /\ thread[j] \in Live
      <4>1. JobInv(row[j], "lost") /\ row[j].status # "absent"
        BY <2>a, <3>2 DEF JobInv
      <4>2. row' = [row EXCEPT ![j] = row[j]]
        BY <2>11, <2>b DEF ThreadDbError
      <4>3. QED
        BY <2>11, <2>a, <3>2, <4>1, <4>2, ThreadKeepsRows DEF ThreadDbError
    <3>3. QED
      BY <2>11, <3>1, <3>2 DEF ThreadDbError, Goto
  <2>12. ASSUME NEW c \in Cancels, NEW j \in Jobs, CancelRead(c, j) PROVE JobsInv'
    BY <2>12 DEF CancelRead, JobsInv, RequestInv, TypeOK
  <2>13. ASSUME NEW c \in Cancels, CancelCommit(c) PROVE JobsInv'
    <3> DEFINE j == request[c].job
               q == AfterCancel(row[j], request[c].status)
    <3>1. j \in Jobs /\ request[c] \in Request /\ request[c].status \in Status
      BY <2>13 DEF JobsInv, TypeOK, CancelCommit, Request
    <3>2. row[j].status # "absent"
      BY <2>13 DEF JobsInv, RequestInv, CancelCommit
    <3>3. JobInv(q, thread[j]) /\ q.status # "absent"
      BY <3>1, <3>2, <2>a, CancelColumns DEF JobInv, Terminal
    <3>4. row' = [row EXCEPT ![j] = q] /\ thread' = thread
      BY <2>13 DEF CancelCommit
    <3>5. \A i \in Jobs : JobInv(row'[i], thread'[i])
      BY <3>1, <3>3, <3>4, <2>a, <2>b
    <3>6. \A i \in Jobs : row[i].status # "absent" => row'[i].status # "absent"
      BY <3>1, <3>3, <3>4, <2>b
    <3>7. \A d \in Cancels : /\ request'[d].job = request[d].job
                             /\ request'[d].pc # "idle" => request[d].pc # "idle"
      BY <2>13, <3>1, RequestCommitted DEF CancelCommit, JobsInv, TypeOK
    <3>8. \A d \in Cancels : RequestInv(d)'
      BY <3>6, <3>7 DEF RequestInv, JobsInv, TypeOK
    <3>9. QED
      BY <3>5, <3>8 DEF JobsInv
  <2>14. ASSUME NEW c \in Cancels, CancelReply(c) \/ CancelFails(c)
         PROVE  JobsInv'
    BY <2>14 DEF CancelReply, CancelFails, JobsInv, RequestInv, TypeOK, Idle
  <2>15. ASSUME Crash PROVE JobsInv'
    <3>1. \A j \in Jobs : JobInv(row'[j], thread'[j])
      BY <2>15, <2>a DEF Crash, JobInv
    <3>2. QED
      BY <2>15, <3>1 DEF Crash, JobsInv, RequestInv, Idle
  <2>16. CASE UNCHANGED vars
    BY <2>16 DEF vars, JobsInv, RequestInv
  <2>17. QED
    BY <2>1, <2>2, <2>4, <2>5, <2>6, <2>7, <2>8, <2>9, <2>10, <2>11, <2>12,
       <2>13, <2>14, <2>15, <2>16 DEF Next, ThreadStep, RequestStep
<1>4. QED
  BY <1>1, <1>2, <1>3, TypeCorrect, PTL DEF Spec, JobsInv

-----------------------------------------------------------------------------
(* A row never reports an outcome other than what its thread did.          *)
THEOREM OutcomeCorrect == Spec => []OutcomeMatchesStatus
<1>1. JobsInv => OutcomeMatchesStatus
  BY DEF JobsInv, JobInv, OutcomeMatchesStatus
<1>2. QED
  BY <1>1, JobsInvariant, PTL

(* A job in progress that nobody cancels has a thread, or lost it.         *)
THEOREM UnfinishedCorrect == Spec => []UnfinishedHasThread
<1>1. JobsInv => UnfinishedHasThread
  BY DEF JobsInv, JobInv, UnfinishedHasThread
<1>2. QED
  BY <1>1, JobsInvariant, PTL

-----------------------------------------------------------------------------
(* Who changes a row, and how: the lemma behind the action properties.     *)
LEMMA RowChanges ==
    ASSUME JobsInv, [Next]_vars, NEW j \in Jobs
    PROVE  \/ row'[j] = row[j]
           \/ row[j].status = "absent" /\ row'[j] = Pending
           \/ thread[j] = "spawned" /\ row'[j] = Started(row[j])
           \/ thread[j] = "attaching" /\ row'[j] = Attached(row[j])
           \/ thread[j] = "completing" /\ row'[j] = Completed(row[j])
           \/ thread[j] = "failing" /\ row'[j] = Failed(row[j])
           \/ \E c \in Cancels :
                /\ request[c].pc = "read" /\ request[c].job = j
                /\ request[c].status \in Status
                /\ row'[j] = AfterCancel(row[j], request[c].status)
<1>1. row \in [Jobs -> Row] /\ request \in [Cancels -> Request]
      /\ \A c \in Cancels : request[c].status \in Status
  BY DEF JobsInv, TypeOK, Request
<1>2. ASSUME NEW i \in Jobs, Submit(i) \/ SubmitFails(i)
      PROVE  \/ row'[j] = row[j]
             \/ row[j].status = "absent" /\ row'[j] = Pending
  BY <1>1, <1>2 DEF Submit, SubmitFails
<1>3. ASSUME NEW i \in Jobs, MarkRunning(i)
      PROVE  \/ row'[j] = row[j]
             \/ thread[j] = "spawned" /\ row'[j] = Started(row[j])
  BY <1>1, <1>3 DEF MarkRunning
<1>4. ASSUME NEW i \in Jobs, CommitAttach(i)
      PROVE  \/ row'[j] = row[j]
             \/ thread[j] = "attaching" /\ row'[j] = Attached(row[j])
  BY <1>1, <1>4 DEF CommitAttach
<1>5. ASSUME NEW i \in Jobs, CommitComplete(i)
      PROVE  \/ row'[j] = row[j]
             \/ thread[j] = "completing" /\ row'[j] = Completed(row[j])
  BY <1>1, <1>5 DEF CommitComplete
<1>6. ASSUME NEW i \in Jobs, CommitFail(i)
      PROVE  \/ row'[j] = row[j]
             \/ thread[j] = "failing" /\ row'[j] = Failed(row[j])
  BY <1>1, <1>6 DEF CommitFail
<1>7. ASSUME NEW c \in Cancels, CancelCommit(c)
      PROVE  \/ row'[j] = row[j]
             \/ /\ request[c].pc = "read" /\ request[c].job = j
                /\ request[c].status \in Status
                /\ row'[j] = AfterCancel(row[j], request[c].status)
  BY <1>1, <1>7 DEF CancelCommit
<1>8. ASSUME NEW i \in Jobs, NEW id \in JobIds,
             \/ FnEnter(i, id) \/ FnPoll(i) \/ FnItem(i) \/ FnRaise(i)
             \/ LookAfterReturn(i) \/ LookAfterRaise(i) \/ ThreadDbError(i)
      PROVE  row' = row
  BY <1>8 DEF FnEnter, FnPoll, FnItem, FnRaise, LookAfterReturn, LookAfterRaise,
              ThreadDbError
<1>9. ASSUME NEW c \in Cancels, NEW i \in Jobs,
             CancelRead(c, i) \/ CancelReply(c) \/ CancelFails(c)
      PROVE  row' = row
  BY <1>9 DEF CancelRead, CancelReply, CancelFails
<1>10. Crash \/ UNCHANGED vars => row' = row
  BY DEF Crash, vars
<1>11. QED
  BY <1>2, <1>3, <1>4, <1>5, <1>6, <1>7, <1>8, <1>9, <1>10
     DEF Next, ThreadStep, RequestStep, JobIds

(* No write undoes cancel_requested.                                       *)
THEOREM CancelFlagNeverWithdrawn == Spec => CancelFlagSticks
<1>1. ASSUME JobsInv, [Next]_vars, NEW j \in Jobs, row[j].cancel_requested
      PROVE  row'[j].cancel_requested
  <2>1. row[j] \in Row /\ (row[j].status = "absent" => ~row[j].cancel_requested)
    BY <1>1 DEF JobsInv, TypeOK, JobInv
  <2>2. QED
    BY <1>1, <2>1, RowChanges, RowColumns, CancelColumns
<1>2. JobsInv /\ [Next]_vars
      => [\A j \in Jobs : row[j].cancel_requested => row'[j].cancel_requested]_vars
  BY <1>1
<1>3. QED
  BY <1>2, JobsInvariant, PTL DEF Spec, CancelFlagSticks

(* Only a cancel request that read the row earlier overwrites an outcome.  *)
THEOREM OutcomeLostCorrect == Spec => OutcomeLostOnlyToEarlierCancel
<1>1. ASSUME JobsInv, [Next]_vars, NEW j \in Jobs,
             row[j].status \in {"completed", "failed"}
      PROVE  \/ row'[j].status = row[j].status
             \/ /\ row'[j].status = "cancelled"
                /\ \E c \in Cancels : /\ request[c].pc = "read"
                                      /\ request[c].job = j
                                      /\ request[c].status \notin Terminal
  <2>1. row[j] \in Row /\ thread[j] \notin Live
    BY <1>1 DEF JobsInv, TypeOK, JobInv
  <2>2. QED
    BY <1>1, <2>1, RowChanges, CancelColumns DEF Live, Undecided
<1>2. JobsInv /\ [Next]_vars
      => [\A j \in Jobs :
              row[j].status \in {"completed", "failed"}
                => \/ row'[j].status = row[j].status
                   \/ /\ row'[j].status = "cancelled"
                      /\ \E c \in Cancels : /\ request[c].pc = "read"
                                            /\ request[c].job = j
                                            /\ request[c].status \notin Terminal]_vars
  BY <1>1
<1>3. QED
  BY <1>2, JobsInvariant, PTL DEF Spec, OutcomeLostOnlyToEarlierCancel

(* Only a thread about to start, or past its last look, overwrites         *)
(* "cancelled".                                                            *)
THEOREM CancelledLostCorrect == Spec => CancelledLostOnlyInWindow
<1>1. ASSUME JobsInv, [Next]_vars, NEW j \in Jobs, row[j].status = "cancelled"
      PROVE  \/ row'[j].status = "cancelled"
             \/ row'[j].status = "running" /\ thread[j] = "spawned"
             \/ row'[j].status = "completed" /\ thread[j] = "completing"
             \/ row'[j].status = "failed" /\ thread[j] = "failing"
  <2>1. row[j] \in Row
    BY <1>1 DEF JobsInv, TypeOK
  <2>2. QED
    BY <1>1, <2>1, RowChanges, RowColumns, CancelColumns
<1>2. JobsInv /\ [Next]_vars
      => [\A j \in Jobs :
              row[j].status = "cancelled"
                => \/ row'[j].status = "cancelled"
                   \/ row'[j].status = "running" /\ thread[j] = "spawned"
                   \/ row'[j].status = "completed" /\ thread[j] = "completing"
                   \/ row'[j].status = "failed" /\ thread[j] = "failing"]_vars
  BY <1>1
<1>3. QED
  BY <1>2, JobsInvariant, PTL DEF Spec, CancelledLostOnlyInWindow

-----------------------------------------------------------------------------
(* Once the flag is set and the thread can no longer overlook it, the job  *)
(* is doomed, and stays so.                                                *)
Doomed(j) ==
    /\ row[j].cancel_requested
    /\ row[j].status \notin {"completed", "failed"}
    /\ thread[j] \in Undecided \cup {"attaching", "ended", "lost"}

(* A doomed job stays doomed whatever the jobs, requests and crashes do.   *)
LEMMA DoomedStays ==
    ASSUME JobsInv, [Next]_vars, NEW j \in Jobs, Doomed(j)
    PROVE  Doomed(j)'
<1>1. row[j] \in Row /\ row[j].status # "absent" /\ thread \in [Jobs -> ThreadState]
  BY DEF JobsInv, TypeOK, JobInv, Doomed
<1>2. row'[j].cancel_requested
  BY <1>1, RowChanges, RowColumns, CancelColumns DEF Doomed
<1>3. row'[j].status \notin {"completed", "failed"}
  BY <1>1, RowChanges, RowColumns, CancelColumns
     DEF Doomed, Undecided, InFunction
<1>4. thread'[j] \in Undecided \cup {"attaching", "ended", "lost"}
  <2> USE <1>1 DEF Doomed, Undecided, InFunction
  <2>1. ASSUME NEW i \in Jobs, Submit(i) \/ SubmitFails(i) \/ MarkRunning(i)
        PROVE  thread'[j] \in Undecided \cup {"attaching", "ended", "lost"}
    BY <2>1 DEF Submit, SubmitFails, MarkRunning, Goto
  <2>2. ASSUME NEW i \in Jobs, NEW id \in JobIds,
               FnEnter(i, id) \/ FnPoll(i) \/ FnItem(i) \/ FnRaise(i)
        PROVE  thread'[j] \in Undecided \cup {"attaching", "ended", "lost"}
    BY <2>2 DEF FnEnter, FnPoll, FnItem, FnRaise, Goto, LeaveFunction
  <2>3. ASSUME NEW i \in Jobs, LookAfterReturn(i) \/ LookAfterRaise(i)
        PROVE  thread'[j] \in Undecided \cup {"attaching", "ended", "lost"}
    BY <2>3 DEF LookAfterReturn, LookAfterRaise, Stopped, Goto
  <2>4. ASSUME NEW i \in Jobs, CommitAttach(i) \/ CommitComplete(i) \/ CommitFail(i)
        PROVE  thread'[j] \in Undecided \cup {"attaching", "ended", "lost"}
    BY <2>4 DEF CommitAttach, CommitComplete, CommitFail, Goto
  <2>5. ASSUME NEW i \in Jobs, ThreadDbError(i)
        PROVE  thread'[j] \in Undecided \cup {"attaching", "ended", "lost"}
    BY <2>5 DEF ThreadDbError, Goto
  <2>6. ASSUME NEW c \in Cancels, NEW i \in Jobs,
               \/ CancelRead(c, i) \/ CancelCommit(c)
               \/ CancelReply(c) \/ CancelFails(c)
        PROVE  thread'[j] \in Undecided \cup {"attaching", "ended", "lost"}
    BY <2>6 DEF CancelRead, CancelCommit, CancelReply, CancelFails
  <2>7. CASE Crash
    BY <2>7 DEF Crash
  <2>8. CASE UNCHANGED vars
    BY <2>8 DEF vars
  <2>9. QED
    BY <2>1, <2>2, <2>3, <2>4, <2>5, <2>6, <2>7, <2>8
       DEF Next, ThreadStep, RequestStep, JobIds
<1>5. QED
  BY <1>2, <1>3, <1>4 DEF Doomed

(* A cancellation committed before the thread's last look wins for good.   *)
THEOREM CancelHonouredCorrect == Spec => CancelHonoured
<1> SUFFICES ASSUME NEW j \in Jobs
             PROVE  Spec => [](row[j].cancel_requested /\ thread[j] \in Undecided
                                => [](row[j].status \notin {"completed", "failed"}))
  BY DEF CancelHonoured
<1>1. JobsInv => (row[j].cancel_requested /\ thread[j] \in Undecided => Doomed(j))
  BY DEF JobsInv, JobInv, Doomed, Live
<1>2. JobsInv /\ [Next]_vars /\ Doomed(j) => Doomed(j)'
  BY DoomedStays
<1>3. Doomed(j) => row[j].status \notin {"completed", "failed"}
  BY DEF Doomed
<1>4. QED
  BY <1>1, <1>2, <1>3, JobsInvariant, PTL DEF Spec

-----------------------------------------------------------------------------
(* A cancelled job that is at the head of its loop, polling its own id, or *)
(* has left the loop.                                                      *)
Halting(j) ==
    /\ row[j].cancel_requested
    /\ \/ thread[j] = "polling" /\ polled[j] = j
       \/ thread[j] \in {"returned", "raised", "completing", "attaching",
                         "failing", "ended", "lost"}

(* No step lets a halting function start another item.                    *)
LEMMA HaltingStays ==
    ASSUME JobsInv, [Next]_vars, NEW j \in Jobs, Halting(j)
    PROVE  Halting(j)'
<1>1. /\ row[j] \in Row /\ row[j].status # "absent"
      /\ thread \in [Jobs -> ThreadState] /\ polled \in [Jobs -> JobIds]
  BY DEF JobsInv, TypeOK, JobInv, Halting
<1>2. row'[j].cancel_requested
  BY <1>1, RowChanges, RowColumns, CancelColumns DEF Halting
<1> DEFINE Halted == \/ thread[j] = "polling" /\ polled[j] = j
                     \/ thread[j] \in {"returned", "raised", "completing",
                                       "attaching", "failing", "ended", "lost"}
<1>3. Halted'
  <2> USE <1>1 DEF Halting, InFunction, Goto
  <2>1. ASSUME NEW i \in Jobs, Submit(i) \/ SubmitFails(i) \/ MarkRunning(i)
        PROVE  Halted'
    BY <2>1 DEF Submit, SubmitFails, MarkRunning
  <2>2. ASSUME NEW i \in Jobs, NEW id \in JobIds, FnEnter(i, id) \/ FnItem(i)
        PROVE  Halted'
    BY <2>2 DEF FnEnter, FnItem
  <2>3. ASSUME NEW i \in Jobs, FnPoll(i) PROVE Halted'
    BY <2>3 DEF FnPoll, ShouldStop, Stopped, LeaveFunction
  <2>4. ASSUME NEW i \in Jobs, FnRaise(i) PROVE Halted'
    BY <2>4 DEF FnRaise, LeaveFunction
  <2>5. ASSUME NEW i \in Jobs, LookAfterReturn(i) \/ LookAfterRaise(i)
        PROVE  Halted'
    BY <2>5 DEF LookAfterReturn, LookAfterRaise
  <2>6. ASSUME NEW i \in Jobs, \/ CommitAttach(i) \/ CommitComplete(i)
                               \/ CommitFail(i) \/ ThreadDbError(i)
        PROVE  Halted'
    BY <2>6 DEF CommitAttach, CommitComplete, CommitFail, ThreadDbError
  <2>7. ASSUME NEW c \in Cancels, NEW i \in Jobs,
               \/ CancelRead(c, i) \/ CancelCommit(c)
               \/ CancelReply(c) \/ CancelFails(c)
        PROVE  Halted'
    BY <2>7 DEF CancelRead, CancelCommit, CancelReply, CancelFails
  <2>8. CASE Crash
    BY <2>8 DEF Crash, Live, Undecided
  <2>9. CASE UNCHANGED vars
    BY <2>9 DEF vars
  <2> HIDE DEF Halted
  <2>10. QED
    BY <2>1, <2>2, <2>3, <2>4, <2>5, <2>6, <2>7, <2>8, <2>9
       DEF Next, ThreadStep, RequestStep, JobIds
<1>4. QED
  BY <1>2, <1>3 DEF Halting

(* A loop that polls its own id starts no item after the cancellation.     *)
THEOREM CancelStopsLoopCorrect == Spec => CancelStopsLoop
<1>1. ASSUME NEW j \in Jobs
      PROVE  Spec => [](row[j].cancel_requested /\ polled[j] = j
                          /\ thread[j] = "polling"
                        => [](thread[j] # "working"))
  <2> DEFINE P == row[j].cancel_requested /\ polled[j] = j
                    /\ thread[j] = "polling"
  <2>1. P => Halting(j)
    BY DEF Halting
  <2>2. JobsInv /\ [Next]_vars /\ Halting(j) => Halting(j)'
    BY <1>1, HaltingStays
  <2>3. Halting(j) => thread[j] # "working"
    BY DEF Halting
  <2> HIDE DEF P
  <2>4. Spec => [](P => [](thread[j] # "working"))
    BY <2>1, <2>2, <2>3, JobsInvariant, PTL DEF Spec
  <2>5. QED
    BY <2>4 DEF P
<1>2. QED
  BY <1>1 DEF CancelStopsLoop

=============================================================================
