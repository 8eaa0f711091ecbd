------------------------------ MODULE JobSlots ------------------------------
(***************************************************************************)
(* How the admin API starts its scan, transcode and poster jobs            *)
(* (api/admin.py).  For each kind the process keeps in memory the id of    *)
(* "the active job" and, for two kinds, a table of per-file progress; both *)
(* are read and written by the start request, by the job's own thread and  *)
(* by cancel requests, with no lock around a decision and the write that   *)
(* follows it.  The job runner is BackgroundJobs, whose steps these        *)
(* actions extend: here the id a job's function polls gets its value.      *)
(***************************************************************************)
EXTENDS BackgroundJobs

CONSTANT KindOf   \* the endpoint each job is started through

Kinds == {"scan", "transcode", "poster"}

(* Who refuses a second start, who forgets the active id when the function *)
(* ends or is cancelled, and who keeps a progress table.                   *)
Guarded == {"scan", "transcode"}
ReleasedByEnd == {"scan"}
ReleasedByCancel == {"scan", "transcode"}
WithProgress == {"transcode", "poster"}

ASSUME KindAssumption == KindOf \in [Jobs -> Kinds]

VARIABLES
    starter,    \* where the start request of each job is
    active,     \* _active_scan_job_id, _active_transcode_job_id, ...
    progress,   \* _transcode_progress, _poster_progress: key -> owner
    published   \* whether the thread of the job has stored its table

slotVars == <<starter, active, progress, published>>
allVars == <<vars, slotVars>>

NoTables == [id \in JobIds |-> NoJob]

SlotInit ==
    /\ Init
    /\ starter = [j \in Jobs |-> "none"]
    /\ active = [k \in Kinds |-> NoJob]
    /\ progress = [k \in Kinds |-> NoTables]
    /\ published = [j \in Jobs |-> FALSE]

-----------------------------------------------------------------------------
StarterGoto(j, pc) == starter' = [starter EXCEPT ![j] = pc]

(* The guard of the start endpoints: only a row that says "running" counts.*)
SlotOpen(k) ==
    k \in Guarded /\ active[k] \in Jobs => row[active[k]].status # "running"

(* Mutant: the guard is gone.                                              *)
AdmitAlways(j) ==
    /\ starter[j] = "none"
    /\ StarterGoto(j, "admitted")
    /\ UNCHANGED <<vars, active, progress, published>>

(* A start request passes the guard (otherwise 409 and nothing changes),   *)
Admit(j) ==
    /\ starter[j] = "none"
    /\ SlotOpen(KindOf[j])
    /\ StarterGoto(j, "admitted")
    /\ UNCHANGED <<vars, active, progress, published>>

(* creates the job,                                                        *)
Launch(j) ==
    /\ starter[j] = "admitted"
    /\ \/ Submit(j) /\ StarterGoto(j, "launched")
       \/ SubmitFails(j) /\ StarterGoto(j, "replied")
    /\ UNCHANGED <<active, progress, published>>

(* makes it the active one,                                                *)
Assign(j) ==
    /\ starter[j] = "launched"
    /\ active' = [active EXCEPT ![KindOf[j]] = j]
    /\ StarterGoto(j, IF KindOf[j] \in WithProgress THEN "assigned" ELSE "replied")
    /\ UNCHANGED <<vars, progress, published>>

(* and empties the progress tables; the thread is running all the while.   *)
ClearProgress(j) ==
    /\ starter[j] = "assigned"
    /\ progress' = [progress EXCEPT ![KindOf[j]] = NoTables]
    /\ StarterGoto(j, "replied")
    /\ UNCHANGED <<vars, active, published>>

-----------------------------------------------------------------------------
(* Mutant: the function looks at the slot of the scans.                    *)
CaptureScanSlot(j) ==
    /\ FnEnter(j, active["scan"])
    /\ UNCHANGED slotVars

(* The function takes whatever id is active for its own ("... or 0"),      *)
Capture(j) ==
    /\ FnEnter(j, active[KindOf[j]])
    /\ UNCHANGED slotVars

(* and stores its progress table under that id.                            *)
Publish(j) ==
    /\ thread[j] = "polling"
    /\ KindOf[j] \in WithProgress
    /\ ~published[j]
    /\ progress' = [progress EXCEPT ![KindOf[j]][polled[j]] = j]
    /\ published' = [published EXCEPT ![j] = TRUE]
    /\ UNCHANGED <<vars, starter, active>>

(* When control leaves the function, the "finally" of _run_import_job      *)
(* forgets the active scan, whoever it is.                                 *)
ReleaseAtEnd(j) ==
    IF thread'[j] \in InFunction THEN UNCHANGED <<active, published>>
    ELSE /\ published' = [published EXCEPT ![j] = FALSE]
         /\ active' = IF KindOf[j] \in ReleasedByEnd
                      THEN [active EXCEPT ![KindOf[j]] = NoJob]
                      ELSE active

(* Mutant: the table is dropped with the loop.                             *)
PollDropsTable(j) ==
    /\ KindOf[j] \in WithProgress => published[j]
    /\ FnPoll(j)
    /\ ReleaseAtEnd(j)
    /\ progress' = IF thread'[j] \in InFunction THEN progress
                   ELSE [progress EXCEPT ![KindOf[j]] = NoTables]
    /\ UNCHANGED starter

Poll(j) ==
    /\ KindOf[j] \in WithProgress => published[j]
    /\ FnPoll(j)
    /\ ReleaseAtEnd(j)
    /\ UNCHANGED <<starter, progress>>

(* Nothing a scan does before it has taken its id can raise.               *)
Raise(j) ==
    /\ KindOf[j] \in ReleasedByEnd => thread[j] # "entered"
    /\ FnRaise(j)
    /\ ReleaseAtEnd(j)
    /\ UNCHANGED <<starter, progress>>

(* cancel_job, after its commit: the slot is freed if it is this job's.    *)
ReleaseAndReply(c) ==
    /\ CancelReply(c)
    /\ active' = [k \in Kinds |->
                    IF k \in ReleasedByCancel /\ active[k] = request[c].job
                    THEN NoJob ELSE active[k]]
    /\ UNCHANGED <<starter, progress, published>>

(* Mutant: the active ids survive a restart.                               *)
CrashKeepsSlots ==
    /\ Crash
    /\ starter' = [j \in Jobs |-> IF starter[j] = "none" THEN "none" ELSE "replied"]
    /\ progress' = [k \in Kinds |-> NoTables]
    /\ published' = [j \in Jobs |-> FALSE]
    /\ UNCHANGED active

(* A crash loses the requests in progress and everything kept in memory.   *)
CrashEmptiesSlots ==
    /\ Crash
    /\ starter' = [j \in Jobs |-> IF starter[j] = "none" THEN "none" ELSE "replied"]
    /\ active' = [k \in Kinds |-> NoJob]
    /\ progress' = [k \in Kinds |-> NoTables]
    /\ published' = [j \in Jobs |-> FALSE]

-----------------------------------------------------------------------------
(* Steps of the runner and of cancel_job that touch no slot.               *)
RunnerStep(j) ==
    /\ \/ MarkRunning(j)
       \/ FnItem(j)
       \/ LookAfterReturn(j)
       \/ CommitAttach(j)
       \/ CommitComplete(j)
       \/ LookAfterRaise(j)
       \/ CommitFail(j)
    /\ UNCHANGED slotVars

SlotThreadStep(j) == Capture(j) \/ Publish(j) \/ Poll(j) \/ RunnerStep(j)

StarterStep(j) == Launch(j) \/ Assign(j) \/ ClearProgress(j)

SlotRequestStep(c) ==
    \/ CancelCommit(c) /\ UNCHANGED slotVars
    \/ ReleaseAndReply(c)

SlotNext ==
    \/ \E j \in Jobs : \/ Admit(j)
                       \/ StarterStep(j)
                       \/ SlotThreadStep(j)
                       \/ Raise(j)
                       \/ ThreadDbError(j) /\ UNCHANGED slotVars
    \/ \E c \in Cancels : \/ \E j \in Jobs : CancelRead(c, j) /\ UNCHANGED slotVars
                          \/ SlotRequestStep(c)
                          \/ CancelFails(c) /\ UNCHANGED slotVars
    \/ CrashEmptiesSlots

SlotSpec == SlotInit /\ [][SlotNext]_allVars

SlotFairness ==
    /\ \A j \in Jobs : WF_allVars(SlotThreadStep(j)) /\ WF_allVars(StarterStep(j))
    /\ \A c \in Cancels : WF_allVars(SlotRequestStep(c))

SlotFairSpec == SlotSpec /\ SlotFairness

-----------------------------------------------------------------------------
(* Types of the slots, with those of the runner.                           *)
SlotTypeOK ==
    /\ TypeOK
    /\ starter \in [Jobs -> {"none", "admitted", "launched", "assigned", "replied"}]
    /\ active \in [Kinds -> JobIds]
    /\ progress \in [Kinds -> [JobIds -> JobIds]]
    /\ published \in [Jobs -> BOOLEAN]

(* No start of this kind was ever admitted, except that of job j.          *)
Alone(j) ==
    \A i \in Jobs \ {j} : KindOf[i] = KindOf[j] => starter[i] = "none"

(* The promise the guard does keep: while a job that was started alone is  *)
(* executing, its start has replied and nobody cancels it, no second start *)
(* of the kind is admitted.                                                *)
LoneJobIsGuarded ==
    [][\A j \in Jobs :
         /\ KindOf[j] \in Guarded
         /\ Alone(j) /\ starter[j] = "replied"
         /\ thread[j] \in InFunction /\ ~row[j].cancel_requested
         => Alone(j)']_allVars

(* A job whose start replied before its function began, with no other      *)
(* start of the kind and no cancellation, polls its own id - so that       *)
(* CancelStopsLoop applies to it.                                          *)
LoneJobPollsItself ==
    [][\A j \in Jobs :
         /\ thread[j] = "entered" /\ thread'[j] = "polling"
         /\ Alone(j) /\ starter[j] = "replied" /\ ~row[j].cancel_requested
         => polled'[j] = j]_allVars

(* get_transcode_progress: the data "lives in memory only and is cleared   *)
(* when a new transcode job starts".  A job's table is lost only to a      *)
(* start of its kind (its own, if that replies late), to a restart, or to  *)
(* a job that took its id for its own - not to its end or to a             *)
(* cancellation.                                                           *)
ProgressLostOnlyToStart ==
    [][\A j \in Jobs :
         /\ progress[KindOf[j]][j] = j
         /\ progress'[KindOf[j]][j] # j
         => \/ crashes' # crashes
            \/ \E i \in Jobs : KindOf[i] = KindOf[j] /\ starter[i] = "assigned"
            \/ \E i \in Jobs \ {j} : polled[i] = j]_allVars

(* A slot never stays shut for ever: whatever a job raises and whenever    *)
(* the process is restarted, a start is possible again, unless a job of    *)
(* the kind was asked to cancel, or lost its thread when the database      *)
(* failed (then its row says running, and its start request may store the  *)
(* id after the function has released the slot).                           *)
SlotReopens ==
    \A k \in Kinds :
        []<>(\/ SlotOpen(k)
            \/ \E j \in Jobs :
                 /\ KindOf[j] = k
                 /\ \/ row[j].cancel_requested
                    \/ thread[j] = "lost" /\ dbErrors > 0)

=============================================================================
