--------------------------- MODULE JobSlotsProofs ---------------------------
(***************************************************************************)
(* What holds of the slots for any assignment of kinds to jobs.  The steps *)
(* of the endpoints are written as steps of the job runner that do         *)
(* something more, so the invariant of BackgroundJobsProofs holds of their *)
(* jobs too; LoneInv adds why a job that was started alone keeps its slot. *)
(***************************************************************************)
EXTENDS JobSlots, BackgroundJobsProofs

USE KindAssumption

(* The active ids stay ids, and so does the id a function is to poll.      *)
SlotsInv ==
    /\ starter \in [Jobs -> {"none", "admitted", "launched", "assigned", "replied"}]
    /\ active \in [Kinds -> JobIds]
    /\ published \in [Jobs -> BOOLEAN]

(* Every job is started through one of the endpoints.                      *)
LEMMA KindOfJob == \A j \in Jobs : KindOf[j] \in Kinds
  OBVIOUS

(* The slots always hold an id, so what a function captures is one.        *)
LEMMA SlotsStep == SlotsInv /\ [SlotNext]_allVars => SlotsInv'
<1> SUFFICES ASSUME SlotsInv, [SlotNext]_allVars PROVE SlotsInv'
  OBVIOUS
<1> USE KindOfJob DEF SlotsInv, StarterGoto, JobIds
<1>1. ASSUME NEW j \in Jobs, Admit(j) \/ Launch(j) PROVE SlotsInv'
  BY <1>1 DEF Admit, Launch
<1>2. ASSUME NEW j \in Jobs, Assign(j) \/ ClearProgress(j) PROVE SlotsInv'
  BY <1>2 DEF Assign, ClearProgress
<1>3. ASSUME NEW j \in Jobs, Capture(j) \/ Publish(j) \/ RunnerStep(j)
      PROVE  SlotsInv'
  BY <1>3 DEF Capture, Publish, RunnerStep, slotVars
<1>4. ASSUME NEW j \in Jobs, Poll(j) \/ Raise(j) PROVE SlotsInv'
  BY <1>4 DEF Poll, Raise, ReleaseAtEnd
<1>5. ASSUME NEW c \in Cancels, ReleaseAndReply(c) PROVE SlotsInv'
  BY <1>5 DEF ReleaseAndReply
<1>6. ASSUME UNCHANGED slotVars PROVE SlotsInv'
  BY <1>6 DEF slotVars
<1>7. ASSUME CrashEmptiesSlots PROVE SlotsInv'
  BY <1>7 DEF CrashEmptiesSlots
<1> HIDE DEF SlotsInv
<1>8. QED
  BY <1>1, <1>2, <1>3, <1>4, <1>5, <1>6, <1>7
     DEF SlotNext, StarterStep, SlotThreadStep, SlotRequestStep, allVars

(* Every step of the endpoints is a step of the runner, or none of it.     *)
LEMMA SlotStepIsRunnerStep == SlotsInv /\ [SlotNext]_allVars => [Next]_vars
<1> SUFFICES ASSUME SlotsInv, [SlotNext]_allVars PROVE [Next]_vars
  OBVIOUS
<1>1. ASSUME NEW j \in Jobs, Admit(j) \/ Assign(j) \/ ClearProgress(j) \/ Publish(j)
      PROVE  UNCHANGED vars
  BY <1>1 DEF Admit, Assign, ClearProgress, Publish
<1>2. ASSUME NEW j \in Jobs, Launch(j) PROVE Next
  BY <1>2 DEF Launch, Next
<1>3. ASSUME NEW j \in Jobs, Capture(j) PROVE Next
  <2>1. active[KindOf[j]] \in JobIds
    BY KindOfJob DEF SlotsInv
  <2>2. QED
    BY <1>3, <2>1 DEF Capture, Next, ThreadStep
<1>4. ASSUME NEW j \in Jobs, Poll(j) \/ Raise(j) PROVE Next
  BY <1>4 DEF Poll, Raise, Next, ThreadStep
<1>5. ASSUME NEW j \in Jobs, RunnerStep(j) PROVE Next
  BY <1>5 DEF RunnerStep, Next, ThreadStep
<1>6. ASSUME NEW j \in Jobs, ThreadDbError(j) PROVE Next
  BY <1>6 DEF Next
<1>7. ASSUME NEW c \in Cancels, NEW j \in Jobs, CancelRead(c, j) PROVE Next
  BY <1>7 DEF Next
<1>8. ASSUME NEW c \in Cancels,
             CancelCommit(c) \/ CancelFails(c) \/ ReleaseAndReply(c)
      PROVE  Next
  BY <1>8 DEF Next, RequestStep, ReleaseAndReply
<1>9. ASSUME CrashEmptiesSlots PROVE Next
  BY <1>9 DEF CrashEmptiesSlots, Next
<1>10. CASE UNCHANGED allVars
  BY <1>10 DEF allVars
<1>11. QED
  BY <1>1, <1>2, <1>3, <1>4, <1>5, <1>6, <1>7, <1>8, <1>9, <1>10
     DEF SlotNext, StarterStep, SlotThreadStep, SlotRequestStep

(* A behaviour of the endpoints is one of the runner, by construction.     *)
LEMMA SlotsUseRunner == SlotSpec => Spec
<1>1. SlotInit => Init /\ SlotsInv
  BY DEF SlotInit, SlotsInv, JobIds
<1>2. QED
  BY <1>1, SlotStepIsRunnerStep, SlotsStep, PTL DEF SlotSpec, Spec

(* Hence a job of the admin API honours a cancellation like any other.     *)
THEOREM SlotJobsHonourCancel == SlotSpec => CancelHonoured
  BY SlotsUseRunner, CancelHonouredCorrect, PTL

-----------------------------------------------------------------------------
(* The slots of a job that nobody else's start interferes with.            *)

(* A start request that has not called run_background_job has no thread;   *)
(* a cancel request that has committed set the flag of its job; and while  *)
(* a function executes its row says running, unless it is to be cancelled. *)
Unstarted == \A j \in Jobs : starter[j] \in {"none", "admitted"} => thread[j] = "none"
Tracked ==
    /\ \A c \in Cancels : request[c].pc = "committed" => row[request[c].job].cancel_requested
    /\ \A j \in Jobs : thread[j] \in InFunction =>
         row[j].cancel_requested \/ row[j].status = "running"

(* The start request has stored the id, and the thread is not through.     *)
Held(j) ==
    /\ Alone(j) /\ starter[j] \in {"assigned", "replied"}
    /\ thread[j] \in {"spawned"} \cup InFunction
    /\ ~row[j].cancel_requested
LoneInv == \A j \in Jobs : Held(j) => active[KindOf[j]] = j

TableInv == progress \in [Kinds -> [JobIds -> JobIds]]

JobSlotsInv == SlotsInv /\ TableInv /\ JobsInv /\ Unstarted /\ Tracked /\ LoneInv

LEMMA TableStep ==
  ASSUME SlotsInv, TableInv, TypeOK, [SlotNext]_allVars
  PROVE  TableInv'
<1> USE KindOfJob DEF TableInv, JobIds, NoTables
<1>1. ASSUME NEW j \in Jobs, Publish(j) PROVE TableInv'
  <2>1. polled[j] \in JobIds /\ KindOf[j] \in Kinds
    BY DEF TypeOK
  <2>2. QED BY <1>1, <2>1 DEF Publish
<1>2. ASSUME NEW j \in Jobs, ClearProgress(j) PROVE TableInv'
  BY <1>2 DEF ClearProgress
<1>3. ASSUME CrashEmptiesSlots PROVE TableInv'
  BY <1>3 DEF CrashEmptiesSlots
<1>4. ASSUME UNCHANGED progress PROVE TableInv'
  BY <1>4
<1> HIDE DEF TableInv
<1>5. QED
  BY <1>1, <1>2, <1>3, <1>4
     DEF SlotNext, Admit, StarterStep, Launch, Assign, SlotThreadStep, Capture, Poll, RunnerStep, Raise,
         SlotRequestStep, ReleaseAndReply, slotVars, allVars

(* A thread comes into its function by marking its row as running only.    *)
LEMMA ThreadEnters ==
  ASSUME TypeOK, [Next]_vars, NEW j \in Jobs, thread'[j] \in InFunction
  PROVE  \/ thread[j] \in InFunction
         \/ thread[j] = "spawned" /\ row'[j] = Started(row[j])
<1>1. row \in [Jobs -> Row] /\ thread \in [Jobs -> ThreadState]
  BY DEF TypeOK
<1> USE DEF InFunction, Goto
<1>2. ASSUME NEW i \in Jobs, Submit(i) \/ SubmitFails(i) PROVE thread'[j] = thread[j]
  BY <1>1, <1>2 DEF Submit, SubmitFails
<1>3. ASSUME NEW i \in Jobs, MarkRunning(i)
      PROVE  thread'[j] = thread[j] \/ (thread[j] = "spawned" /\ row'[j] = Started(row[j]))
  BY <1>1, <1>3 DEF MarkRunning
<1>4. ASSUME NEW i \in Jobs, NEW id \in JobIds,
             FnEnter(i, id) \/ FnPoll(i) \/ FnItem(i) \/ FnRaise(i)
      PROVE  thread[j] \in InFunction
  BY <1>1, <1>4 DEF FnEnter, FnPoll, FnItem, FnRaise, LeaveFunction
<1>5. ASSUME NEW i \in Jobs,
             \/ LookAfterReturn(i) \/ CommitAttach(i) \/ CommitComplete(i)
             \/ LookAfterRaise(i) \/ CommitFail(i) \/ ThreadDbError(i)
      PROVE  thread'[j] = thread[j]
  BY <1>1, <1>5 DEF LookAfterReturn, CommitAttach, CommitComplete, LookAfterRaise, CommitFail, ThreadDbError
<1>6. ASSUME NEW c \in Cancels,
             (\E i \in Jobs : CancelRead(c, i)) \/ CancelCommit(c) \/ CancelReply(c) \/ CancelFails(c)
      PROVE  thread' = thread
  BY <1>6 DEF CancelRead, CancelCommit, CancelReply, CancelFails
<1>7. ASSUME Crash PROVE thread'[j] = thread[j]
  BY <1>7 DEF Crash, Live
<1>8. UNCHANGED vars => thread' = thread
  BY DEF vars
<1>9. QED
  BY <1>2, <1>3, <1>4, <1>5, <1>6, <1>7, <1>8 DEF Next, ThreadStep, RequestStep, JobIds

(* A cancel request that has committed did so now or before, and keeps its *)
(* job until it replies.                                                   *)
LEMMA CommitsOnce ==
  ASSUME JobsInv, [Next]_vars, NEW c \in Cancels, request'[c].pc = "committed"
  PROVE  /\ request'[c].job = request[c].job /\ request[c].job \in Jobs
         /\ \/ request[c].pc = "committed"
            \/ row'[request[c].job] = AfterCancel(row[request[c].job], request[c].status)
<1>1. /\ row \in [Jobs -> Row] /\ request \in [Cancels -> Request] /\ Idle.pc = "idle"
      /\ request[c].pc # "idle" => request[c].job \in Jobs
  BY DEF JobsInv, TypeOK, Idle
<1>2. ASSUME NEW d \in Cancels, (\E i \in Jobs : CancelRead(d, i)) \/ CancelReply(d) \/ CancelFails(d)
      PROVE  request'[c] = request[c]
  BY <1>1, <1>2 DEF CancelRead, CancelReply, CancelFails
<1>3. ASSUME NEW d \in Cancels, CancelCommit(d)
      PROVE  \/ request'[c] = request[c]
             \/ /\ request[c].pc = "read" /\ request'[c].job = request[c].job
                /\ row'[request[c].job] = AfterCancel(row[request[c].job], request[c].status)
  BY <1>1, <1>3, RequestCommitted DEF CancelCommit
<1>4. ~Crash
  BY <1>1 DEF Crash
<1>5. ASSUME NEW i \in Jobs, NEW id \in JobIds,
             \/ Submit(i) \/ SubmitFails(i) \/ MarkRunning(i) \/ FnEnter(i, id) \/ FnPoll(i)
             \/ FnItem(i) \/ FnRaise(i) \/ LookAfterReturn(i) \/ CommitAttach(i)
             \/ CommitComplete(i) \/ LookAfterRaise(i) \/ CommitFail(i) \/ ThreadDbError(i)
      PROVE  request' = request
  BY <1>5 DEF Submit, SubmitFails, MarkRunning, FnEnter, FnPoll, FnItem, FnRaise, LookAfterReturn,
              CommitAttach, CommitComplete, LookAfterRaise, CommitFail, ThreadDbError
<1>6. UNCHANGED vars => request' = request
  BY DEF vars
<1>7. QED
  BY <1>1, <1>2, <1>3, <1>4, <1>5, <1>6 DEF Next, ThreadStep, RequestStep, JobIds

LEMMA TrackedStep ==
  ASSUME JobsInv, Tracked, [Next]_vars
  PROVE  Tracked'
<1>1. \A j \in Jobs : /\ row[j] \in Row /\ JobInv(row[j], thread[j])
                      /\ row[j].cancel_requested => row'[j].cancel_requested
  BY RowChanges, RowColumns, CancelColumns DEF JobsInv, TypeOK, JobInv
<1>2. \A c \in Cancels : request[c].status \in Status
  BY DEF JobsInv, TypeOK, Request
<1>3. ASSUME NEW c \in Cancels, request'[c].pc = "committed"
      PROVE  row'[request'[c].job].cancel_requested
  BY <1>1, <1>2, <1>3, CommitsOnce, CancelColumns DEF Tracked
<1>4. ASSUME NEW j \in Jobs, thread'[j] \in InFunction
      PROVE  row'[j].cancel_requested \/ row'[j].status = "running"
  <2>1. CASE thread[j] = "spawned" /\ row'[j] = Started(row[j])
    BY <1>1, <2>1, RowColumns
  <2>2. CASE thread[j] \in InFunction
    <3>1. row[j].cancel_requested \/ row[j].status = "running"
      BY <2>2 DEF Tracked
    <3>2. row[j].status # "absent"
      BY <1>1, <2>2 DEF JobInv, InFunction
    <3>3. row'[j] = row[j] \/ row'[j].cancel_requested
      BY <1>1, <1>2, <2>2, <3>2, RowChanges, CancelColumns DEF InFunction
    <3>4. QED BY <3>1, <3>3
  <2>3. QED BY <1>4, <2>1, <2>2, ThreadEnters DEF JobsInv
<1>5. QED BY <1>3, <1>4 DEF Tracked

(* A start request that has begun has begun.                               *)
NoneReturns == \A j \in Jobs : starter'[j] = "none" => starter[j] = "none"

(* Only Launch starts a thread, and afterwards the request is past the     *)
(* first two states; no request comes back to them.                        *)
LEMMA UnstartedStep ==
  ASSUME SlotsInv, JobsInv, Unstarted, [SlotNext]_allVars
  PROVE  Unstarted' /\ NoneReturns
<1>1. /\ starter \in [Jobs -> {"none", "admitted", "launched", "assigned", "replied"}]
      /\ thread \in [Jobs -> ThreadState]
  BY DEF SlotsInv, JobsInv, TypeOK
<1> USE DEF Unstarted, NoneReturns, StarterGoto
<1>2. ASSUME starter' = starter, \A j \in Jobs : thread[j] = "none" => thread'[j] = "none" PROVE Unstarted' /\ NoneReturns
  BY <1>1, <1>2
<1>3. ASSUME NEW i \in Jobs, Admit(i) PROVE Unstarted' /\ NoneReturns
  BY <1>1, <1>3 DEF Admit, vars
<1>4. ASSUME NEW i \in Jobs, Launch(i) PROVE Unstarted' /\ NoneReturns
  BY <1>1, <1>4 DEF Launch, Submit, SubmitFails, Goto
<1>5. ASSUME NEW i \in Jobs, Assign(i) \/ ClearProgress(i) PROVE Unstarted' /\ NoneReturns
  BY <1>1, <1>5 DEF Assign, ClearProgress, vars
<1>6. ASSUME CrashEmptiesSlots PROVE Unstarted' /\ NoneReturns
  BY <1>1, <1>6 DEF CrashEmptiesSlots, Crash, Live, Undecided, InFunction
<1> HIDE DEF Unstarted, NoneReturns
<1>7. ASSUME NEW i \in Jobs, Capture(i) \/ Publish(i) \/ Poll(i) \/ Raise(i) PROVE Unstarted' /\ NoneReturns
  BY <1>1, <1>2, <1>7
     DEF Capture, Publish, Poll, Raise, slotVars, vars, FnEnter, FnPoll, FnRaise, LeaveFunction, Goto, InFunction
<1>8. ASSUME NEW i \in Jobs, RunnerStep(i) PROVE Unstarted' /\ NoneReturns
  BY <1>1, <1>2, <1>8
     DEF RunnerStep, slotVars, MarkRunning, FnItem, LookAfterReturn, CommitAttach, CommitComplete,
         LookAfterRaise, CommitFail, Goto
<1>9. ASSUME NEW i \in Jobs, ThreadDbError(i), UNCHANGED slotVars PROVE Unstarted' /\ NoneReturns
  BY <1>1, <1>2, <1>9 DEF ThreadDbError, Goto, slotVars
<1>10. ASSUME NEW c \in Cancels,
              (\E i \in Jobs : CancelRead(c, i)) \/ CancelFails(c), UNCHANGED slotVars
       PROVE  Unstarted' /\ NoneReturns
  BY <1>2, <1>10 DEF CancelRead, CancelFails, slotVars
<1>11. ASSUME NEW c \in Cancels, SlotRequestStep(c) PROVE Unstarted' /\ NoneReturns
  BY <1>2, <1>11 DEF SlotRequestStep, CancelCommit, ReleaseAndReply, CancelReply, slotVars
<1>12. CASE UNCHANGED allVars
  BY <1>2, <1>12 DEF allVars, vars, slotVars
<1>13. QED
  BY <1>3, <1>4, <1>5, <1>6, <1>7, <1>8, <1>9, <1>10, <1>11, <1>12 DEF SlotNext, StarterStep, SlotThreadStep

(* Nobody takes the slot of a job that is alone, but by a cancellation of  *)
(* it.                                                                     *)
LEMMA LoneStep ==
  ASSUME JobSlotsInv, [SlotNext]_allVars, [Next]_vars, NEW j \in Jobs, Held(j)'
  PROVE  active'[KindOf[j]] = j
<1>1. /\ SlotsInv /\ JobsInv /\ Unstarted /\ Tracked /\ LoneInv
      /\ starter \in [Jobs -> {"none", "admitted", "launched", "assigned", "replied"}]
      /\ active \in [Kinds -> JobIds]
      /\ thread \in [Jobs -> ThreadState] /\ row \in [Jobs -> Row]
  BY DEF JobSlotsInv, SlotsInv, JobsInv, TypeOK
<1>2. Alone(j)
  BY <1>1, UnstartedStep DEF Held, Alone, NoneReturns
<1>3. ~row[j].cancel_requested
  BY <1>1, RowChanges, RowColumns, CancelColumns DEF Held, JobsInv, TypeOK, JobInv
<1>4. ASSUME starter[j] \in {"assigned", "replied"}, thread[j] \in {"spawned"} \cup InFunction
      PROVE  active[KindOf[j]] = j
  BY <1>1, <1>2, <1>3, <1>4 DEF Held, LoneInv
<1>5. ASSUME NEW i \in Jobs \ {j}, KindOf[i] = KindOf[j] PROVE starter[i] = "none" /\ thread[i] = "none"
  BY <1>1, <1>2, <1>5 DEF Alone, Unstarted
<1>6. starter'[j] \in {"assigned", "replied"} /\ thread'[j] \in {"spawned"} \cup InFunction
  BY DEF Held
<1>7. KindOf[j] \in Kinds
  BY KindOfJob
<1>8. ASSUME NEW i \in Jobs, Admit(i) PROVE active'[KindOf[j]] = j
  BY <1>1, <1>4, <1>6, <1>8 DEF Admit, StarterGoto, vars
<1>9. ASSUME NEW i \in Jobs, Launch(i) PROVE active'[KindOf[j]] = j
  BY <1>1, <1>4, <1>6, <1>9 DEF Launch, Submit, SubmitFails, StarterGoto, Goto, InFunction
<1>10. ASSUME NEW i \in Jobs, Assign(i) PROVE active'[KindOf[j]] = j
  BY <1>1, <1>4, <1>5, <1>6, <1>7, <1>10 DEF Assign, StarterGoto, vars
<1>11. ASSUME NEW i \in Jobs, ClearProgress(i) PROVE active'[KindOf[j]] = j
  BY <1>1, <1>4, <1>6, <1>11 DEF ClearProgress, StarterGoto, vars
<1>12. ASSUME starter' = starter, active' = active,
              thread'[j] \in {"spawned"} => thread[j] = "spawned"
       PROVE  active'[KindOf[j]] = j
  BY <1>1, <1>4, <1>6, <1>12, ThreadEnters DEF JobsInv
<1>13. ASSUME NEW i \in Jobs, Capture(i) \/ Publish(i) PROVE active'[KindOf[j]] = j
  BY <1>1, <1>12, <1>13 DEF Capture, Publish, FnEnter, Goto, slotVars, vars
<1>14. ASSUME NEW i \in Jobs, Poll(i) \/ Raise(i) PROVE active'[KindOf[j]] = j
  <2>1. /\ starter' = starter /\ ReleaseAtEnd(i) /\ thread[i] \in InFunction
        /\ \E t \in {"working", "returned", "raised"} : thread' = [thread EXCEPT ![i] = t]
    BY <1>14 DEF Poll, Raise, FnPoll, FnRaise, LeaveFunction, Goto, InFunction
  <2>2. active[KindOf[j]] = j
    BY <1>1, <1>4, <1>6, <2>1, ThreadEnters DEF JobsInv
  <2>3. CASE i = j
    BY <1>1, <1>6, <2>1, <2>2, <2>3 DEF ReleaseAtEnd
  <2>4. CASE i # j
    <3>1. KindOf[i] # KindOf[j]
      BY <1>5, <2>1, <2>4 DEF InFunction
    <3>2. QED BY <1>1, <1>7, <2>1, <2>2, <3>1 DEF ReleaseAtEnd
  <2>5. QED BY <2>3, <2>4
<1>15. ASSUME NEW i \in Jobs, RunnerStep(i) PROVE active'[KindOf[j]] = j
  BY <1>1, <1>12, <1>15
     DEF RunnerStep, slotVars, MarkRunning, FnItem, LookAfterReturn, CommitAttach, CommitComplete,
         LookAfterRaise, CommitFail, Goto
<1>16. ASSUME NEW i \in Jobs, ThreadDbError(i), UNCHANGED slotVars PROVE active'[KindOf[j]] = j
  BY <1>1, <1>12, <1>16 DEF ThreadDbError, Goto, slotVars
<1>17. ASSUME NEW c \in Cancels, (\E i \in Jobs : CancelRead(c, i)) \/ CancelFails(c) \/ CancelCommit(c),
              UNCHANGED slotVars
       PROVE  active'[KindOf[j]] = j
  BY <1>12, <1>17 DEF CancelRead, CancelFails, CancelCommit, slotVars
<1>18. ASSUME NEW c \in Cancels, ReleaseAndReply(c) PROVE active'[KindOf[j]] = j
  <2>1. active[KindOf[j]] = j
    BY <1>4, <1>6, <1>18 DEF ReleaseAndReply, CancelReply
  <2>2. request[c].job # j
    BY <1>1, <1>3, <1>18 DEF ReleaseAndReply, CancelReply, Tracked
  <2>3. QED BY <1>7, <1>18, <2>1, <2>2 DEF ReleaseAndReply
<1>19. ~CrashEmptiesSlots
  BY <1>1, <1>6 DEF CrashEmptiesSlots, Crash, Live, Undecided, InFunction
<1>20. CASE UNCHANGED allVars
  BY <1>12, <1>20 DEF allVars, vars, slotVars
<1>21. QED
  BY <1>8, <1>9, <1>10, <1>11, <1>13, <1>14, <1>15, <1>16, <1>17, <1>18, <1>19, <1>20
     DEF SlotNext, StarterStep, SlotThreadStep, SlotRequestStep

LEMMA JobSlotsInvariant == SlotSpec => []JobSlotsInv
<1>1. SlotInit => SlotsInv /\ TableInv /\ Unstarted /\ Tracked /\ LoneInv
  <2>1. ASSUME SlotInit PROVE SlotsInv /\ TableInv
    BY <2>1 DEF SlotInit, SlotsInv, TableInv, NoTables, JobIds
  <2>2. ASSUME SlotInit PROVE Unstarted /\ Tracked
    BY <2>2 DEF SlotInit, Init, Unstarted, Tracked, Idle, InFunction
  <2>3. ASSUME SlotInit PROVE LoneInv
    BY <2>3 DEF SlotInit, LoneInv, Held
  <2>4. QED BY <2>1, <2>2, <2>3
<1>2. JobsInv /\ JobsInv' /\ SlotsInv /\ TableInv /\ Unstarted /\ Tracked /\ LoneInv /\ [SlotNext]_allVars
        => (SlotsInv /\ TableInv /\ Unstarted /\ Tracked /\ LoneInv)'
  <2> SUFFICES ASSUME JobSlotsInv, [SlotNext]_allVars
               PROVE  (SlotsInv /\ TableInv /\ Unstarted /\ Tracked /\ LoneInv)'
    BY DEF JobSlotsInv
  <2>1. [Next]_vars /\ SlotsInv'
    BY SlotStepIsRunnerStep, SlotsStep DEF JobSlotsInv
  <2>2. TableInv' /\ Unstarted' /\ Tracked'
    BY <2>1, TableStep, UnstartedStep, TrackedStep DEF JobSlotsInv, JobsInv
  <2>3. LoneInv'
    BY <2>1, LoneStep DEF LoneInv
  <2>4. QED BY <2>1, <2>2, <2>3
<1>3. SlotSpec => []JobsInv
  BY SlotsUseRunner, JobsInvariant, PTL
<1>4. QED BY <1>1, <1>2, <1>3, PTL DEF SlotSpec, JobSlotsInv

-----------------------------------------------------------------------------
(* The active ids, the progress tables and the states of the start         *)
(* requests keep their types.                                              *)
THEOREM SlotTypesCorrect == SlotSpec => []SlotTypeOK
<1>1. JobSlotsInv => SlotTypeOK
  BY DEF JobSlotsInv, SlotsInv, TableInv, JobsInv, SlotTypeOK
<1>2. QED BY <1>1, JobSlotsInvariant, PTL

(* While a job that was started alone executes and nobody cancels it, its  *)
(* id is in the slot and its row says running, so the guard of the start   *)
(* endpoints refuses a second one.                                         *)
THEOREM GuardsHold == SlotSpec => LoneJobIsGuarded
<1>1. ASSUME JobSlotsInv, [SlotNext]_allVars, NEW j \in Jobs, KindOf[j] \in Guarded,
             Alone(j), starter[j] = "replied", thread[j] \in InFunction, ~row[j].cancel_requested
      PROVE  Alone(j)'
  <2>1. active[KindOf[j]] = j /\ row[j].status = "running"
    BY <1>1 DEF JobSlotsInv, LoneInv, Held, Tracked
  <2>2. ~SlotOpen(KindOf[j])
    BY <1>1, <2>1 DEF SlotOpen
  <2>3. ASSUME NEW i \in Jobs \ {j}, KindOf[i] = KindOf[j] PROVE starter'[i] = "none"
    <3>1. starter[i] = "none" /\ starter \in [Jobs -> {"none", "admitted", "launched", "assigned", "replied"}]
      BY <1>1, <2>3 DEF Alone, JobSlotsInv, SlotsInv
    <3>2. ~Admit(i)
      BY <2>2, <2>3 DEF Admit
    <3>3. ASSUME NEW k \in Jobs, Admit(k) \/ Launch(k) \/ Assign(k) \/ ClearProgress(k)
          PROVE  starter'[i] = "none"
      BY <3>1, <3>2, <3>3 DEF Admit, Launch, Assign, ClearProgress, StarterGoto
    <3>4. ASSUME CrashEmptiesSlots PROVE starter'[i] = "none"
      BY <3>1, <3>4 DEF CrashEmptiesSlots
    <3>5. ASSUME starter' = starter PROVE starter'[i] = "none"
      BY <3>1, <3>5
    <3>6. QED
      BY <1>1, <3>3, <3>4, <3>5
         DEF SlotNext, StarterStep, SlotThreadStep, Capture, Publish, Poll, RunnerStep, Raise,
             SlotRequestStep, ReleaseAndReply, slotVars, allVars
  <2>4. QED BY <2>3 DEF Alone
<1>2. JobSlotsInv /\ [SlotNext]_allVars =>
        [\A j \in Jobs :
           /\ KindOf[j] \in Guarded
           /\ Alone(j) /\ starter[j] = "replied"
           /\ thread[j] \in InFunction /\ ~row[j].cancel_requested
           => Alone(j)']_allVars
  BY <1>1
<1>3. QED BY <1>2, JobSlotsInvariant, PTL DEF SlotSpec, LoneJobIsGuarded

(* A function that begins after the start has replied finds its own id.    *)
THEOREM LoneJobsPollThemselves == SlotSpec => LoneJobPollsItself
<1>1. ASSUME JobSlotsInv, [SlotNext]_allVars, NEW j \in Jobs,
             thread[j] = "entered", thread'[j] = "polling",
             Alone(j), starter[j] = "replied", ~row[j].cancel_requested
      PROVE  polled'[j] = j
  <2>1. active[KindOf[j]] = j
    BY <1>1 DEF JobSlotsInv, LoneInv, Held, InFunction
  <2>2. thread \in [Jobs -> ThreadState] /\ polled \in [Jobs -> JobIds]
    BY <1>1 DEF JobSlotsInv, JobsInv, TypeOK
  <2>3. ASSUME NEW i \in Jobs, Capture(i) PROVE polled'[j] = j
    BY <1>1, <2>1, <2>2, <2>3 DEF Capture, FnEnter, Goto
  <2>4. ASSUME thread' = thread PROVE FALSE
    BY <1>1, <2>4
  <2>5. ASSUME NEW i \in Jobs, NEW t, thread' = [thread EXCEPT ![i] = t],
               thread[i] # "entered" \/ t # "polling"
        PROVE  FALSE
    BY <1>1, <2>2, <2>5
  <2>6. ASSUME NEW i \in Jobs, Admit(i) \/ StarterStep(i) \/ Publish(i) PROVE FALSE
    BY <2>4, <2>5, <2>6
       DEF Admit, StarterStep, Launch, Submit, SubmitFails, Goto, Assign, ClearProgress, Publish, vars
  <2>7. ASSUME NEW i \in Jobs, Poll(i) \/ Raise(i) \/ ThreadDbError(i) PROVE FALSE
    BY <2>5, <2>7 DEF Poll, FnPoll, Raise, FnRaise, LeaveFunction, ThreadDbError, Goto
  <2>8. ASSUME NEW i \in Jobs, RunnerStep(i) PROVE FALSE
    BY <2>5, <2>8
       DEF RunnerStep, MarkRunning, FnItem, LookAfterReturn, CommitAttach, CommitComplete,
           LookAfterRaise, CommitFail, Goto
  <2>9. ASSUME NEW c \in Cancels, (\E i \in Jobs : CancelRead(c, i)) \/ SlotRequestStep(c) \/ CancelFails(c)
        PROVE  FALSE
    BY <2>4, <2>9 DEF CancelRead, SlotRequestStep, CancelCommit, ReleaseAndReply, CancelReply, CancelFails
  <2>10. ~CrashEmptiesSlots
    BY <1>1, <2>2 DEF CrashEmptiesSlots, Crash, Live, Undecided, InFunction
  <2>11. ~UNCHANGED allVars
    BY <2>4 DEF allVars, vars
  <2>12. QED
    BY <1>1, <2>3, <2>6, <2>7, <2>8, <2>9, <2>10, <2>11 DEF SlotNext, SlotThreadStep
<1>2. JobSlotsInv /\ [SlotNext]_allVars =>
        [\A j \in Jobs :
           /\ thread[j] = "entered" /\ thread'[j] = "polling"
           /\ Alone(j) /\ starter[j] = "replied" /\ ~row[j].cancel_requested
           => polled'[j] = j]_allVars
  BY <1>1
<1>3. QED BY <1>2, JobSlotsInvariant, PTL DEF SlotSpec, LoneJobPollsItself

(* Only a start of its kind, a restart and a job with the wrong id take a  *)
(* progress table away.                                                    *)
THEOREM ProgressKept == SlotSpec => ProgressLostOnlyToStart
<1>1. ASSUME JobSlotsInv, [SlotNext]_allVars, NEW j \in Jobs,
             progress[KindOf[j]][j] = j, progress'[KindOf[j]][j] # j
      PROVE  \/ crashes' # crashes
             \/ \E i \in Jobs : KindOf[i] = KindOf[j] /\ starter[i] = "assigned"
             \/ \E i \in Jobs \ {j} : polled[i] = j
  <2>1. /\ progress \in [Kinds -> [JobIds -> JobIds]] /\ crashes \in Nat
        /\ polled \in [Jobs -> JobIds] /\ KindOf[j] \in Kinds /\ j \in JobIds
    <3>1. progress \in [Kinds -> [JobIds -> JobIds]] /\ TypeOK
      BY <1>1 DEF JobSlotsInv, TableInv, JobsInv
    <3>2. crashes \in Nat /\ polled \in [Jobs -> JobIds]
      BY <3>1, BoundsAssumption DEF TypeOK
    <3>3. QED BY <3>1, <3>2, KindOfJob DEF JobIds
  <2>2. ASSUME NEW i \in Jobs, ClearProgress(i)
        PROVE  KindOf[i] = KindOf[j] /\ starter[i] = "assigned"
    BY <1>1, <2>1, <2>2, KindOfJob DEF ClearProgress
  <2>3. ASSUME NEW i \in Jobs, Publish(i) PROVE i # j /\ polled[i] = j
    BY <1>1, <2>1, <2>3, KindOfJob DEF Publish
  <2>4. ASSUME CrashEmptiesSlots PROVE crashes' # crashes
    BY <2>1, <2>4 DEF CrashEmptiesSlots, Crash
  <2>5. progress' # progress
    BY <1>1
  <2>6. QED
    BY <1>1, <2>2, <2>3, <2>4, <2>5
       DEF SlotNext, Admit, StarterStep, Launch, Assign, SlotThreadStep, Capture, Poll, RunnerStep, Raise,
           SlotRequestStep, ReleaseAndReply, slotVars, allVars
<1>2. JobSlotsInv /\ [SlotNext]_allVars =>
        [\A j \in Jobs :
           /\ progress[KindOf[j]][j] = j
           /\ progress'[KindOf[j]][j] # j
           => \/ crashes' # crashes
              \/ \E i \in Jobs : KindOf[i] = KindOf[j] /\ starter[i] = "assigned"
              \/ \E i \in Jobs \ {j} : polled[i] = j]_allVars
  BY <1>1
<1>3. QED BY <1>2, JobSlotsInvariant, PTL DEF SlotSpec, ProgressLostOnlyToStart
=============================================================================
