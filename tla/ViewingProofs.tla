---------------------------- MODULE ViewingProofs ----------------------------
(***************************************************************************)
(* What holds of accounts, watch events and the lists made of them for any *)
(* number of accounts, films and overlapping requests.                     *)
(***************************************************************************)
EXTENDS Viewing, FiniteSetTheorems, WellFoundedInduction, TLAPS

USE FirstAssumption, BoundAssumption, InputAssumption

-----------------------------------------------------------------------------
(* Requests under way.                                                     *)

(* The rows and requests are what the columns can hold, and the keys hold; *)
(* the ids and accounts that requests under way may still take are counted.*)
Busy(kind) == {t \in Threads : request[t].kind = kind}
Counted ==
    /\ Len(users) + Cardinality(Busy("register")) <= MaxUsers
    /\ serial + Cardinality(Busy("start")) <= made

(* No unfinished event of the user and the file is older than the look of  *)
(* a request that is about to insert one.                                  *)
LookedBefore ==
    \A t \in Threads : request[t].kind = "start" =>
       /\ request[t].after <= serial
       /\ \A i \in DOMAIN events :
            (/\ events[i].user = request[t].user /\ events[i].medium = request[t].medium
             /\ ~events[i].finished)
            => i > request[t].after
AfterOlder == \A i \in DOMAIN events : events[i].after < i

ViewInv == TypeOK /\ Counted /\ OneAccountPerName /\ LookedBefore /\ AfterOlder /\ SecondEventOnlyByRace

LEMMA KindsOfRequest ==
  ASSUME NEW r \in Request \cup {Idle}
  PROVE  /\ r.kind \in {"idle", "start", "progress", "hide", "show", "register"}
         /\ r.kind = "idle" <=> r = Idle
         /\ r.kind = "start" =>
              r \in [kind: {"start"}, user: 1..MaxUsers, medium: AllMedia, incognito: BOOLEAN, after: 0..MaxRequests]
         /\ r.kind = "progress" =>
              r \in [kind: {"progress"}, user: 1..MaxUsers, event: 1..MaxRequests,
                     was: 0..MaxPosition, position: 0..MaxPosition, private: BOOLEAN]
         /\ r.kind \in {"hide", "show"} => r \in [kind: {"hide", "show"}, user: 1..MaxUsers, film: AllFilms]
         /\ r.kind = "register" =>
              r \in [kind: {"register"}, name: Names, role: Roles, age: AgeGroups \cup {None}]
  BY DEF Request, Idle

LEMMA BusyFinite ==
  ASSUME NEW kind
  PROVE  IsFiniteSet(Busy(kind)) /\ Cardinality(Busy(kind)) \in Nat
  BY FS_Subset, FS_CardinalityType DEF Busy

(* How many requests of a kind there are after one has changed.            *)
LEMMA BusyChanges ==
  ASSUME NEW t \in Threads, NEW r, request \in [Threads -> Request \cup {Idle}],
         request' = [request EXCEPT ![t] = r], NEW kind
  PROVE  Cardinality(Busy(kind)') =
           Cardinality(Busy(kind)) + (IF r.kind = kind THEN 1 ELSE 0)
                                   - (IF request[t].kind = kind THEN 1 ELSE 0)
<1>1. \A s \in Threads : request'[s] = IF s = t THEN r ELSE request[s]
  OBVIOUS
<1>2. CASE r.kind = kind
  <2>1. Busy(kind)' = Busy(kind) \cup {t}
    BY <1>1, <1>2 DEF Busy
  <2>2. t \in Busy(kind) <=> request[t].kind = kind
    BY DEF Busy
  <2>3. Cardinality(Busy(kind) \cup {t}) =
          IF t \in Busy(kind) THEN Cardinality(Busy(kind)) ELSE Cardinality(Busy(kind)) + 1
    BY BusyFinite, FS_AddElement
  <2>4. Cardinality(Busy(kind)) \in Nat
    BY BusyFinite
  <2>5. QED BY <1>2, <2>1, <2>2, <2>3, <2>4
<1>3. CASE r.kind # kind
  <2>1. Busy(kind)' = Busy(kind) \ {t}
    BY <1>1, <1>3 DEF Busy
  <2>2. t \in Busy(kind) <=> request[t].kind = kind
    BY DEF Busy
  <2>3. Cardinality(Busy(kind) \ {t}) =
          IF t \in Busy(kind) THEN Cardinality(Busy(kind)) - 1 ELSE Cardinality(Busy(kind))
    BY BusyFinite, FS_RemoveElement
  <2>4. Cardinality(Busy(kind)) \in Nat
    BY BusyFinite
  <2>5. QED BY <1>3, <2>1, <2>2, <2>3, <2>4
<1>4. QED BY <1>2, <1>3

LEMMA ViewInit == Init => ViewInv
<1> SUFFICES ASSUME Init PROVE ViewInv
  OBVIOUS
<1>1. DOMAIN events = {} /\ serial = 0 /\ made = 0 /\ hidden = {} /\ media = AllMedia
  BY DEF Init
<1>2. \A t \in Threads : request[t].kind = "idle"
  BY DEF Init, Idle
<1>3. TypeOK
  BY <1>1 DEF Init, TypeOK
<1>4. Counted
  <2>1. Busy("register") = {} /\ Busy("start") = {}
    BY <1>2 DEF Busy
  <2>2. Cardinality(Busy("register")) = 0 /\ Cardinality(Busy("start")) = 0
    BY <2>1, FS_EmptySet
  <2>3. Len(users) \in Nat /\ Len(users) <= MaxUsers
    BY <1>3 DEF TypeOK
  <2>4. QED BY <1>1, <2>2, <2>3 DEF Counted
<1>5. OneAccountPerName
  BY DEF Init, OneAccountPerName, Accounts
<1>6. QED BY <1>1, <1>2, <1>3, <1>4, <1>5 DEF ViewInv, LookedBefore, AfterOlder, SecondEventOnlyByRace

-----------------------------------------------------------------------------
(* Requests that look something up.                                        *)

LEMMA LookUpKeepsInv ==
  ASSUME ViewInv, NEW t \in Threads, NEW r \in Request, LookUp(t, r),
         r.kind = "register" => Len(users) + Cardinality(Busy("register")) < MaxUsers,
         r.kind = "start" => r.after = serial /\ Existing(r.user, r.medium) = {}
  PROVE  ViewInv'
<1>1. /\ request[t] = Idle /\ request[t].kind = "idle" /\ made < MaxRequests /\ made' = made + 1
      /\ request' = [request EXCEPT ![t] = r]
      /\ UNCHANGED <<users, media, events, serial, hidden>>
  BY DEF LookUp, NewRequest, Idle
<1>2. \A s \in Threads : request'[s] = IF s = t THEN r ELSE request[s]
  BY <1>1 DEF ViewInv, TypeOK
<1>3. TypeOK'
  BY <1>1 DEF ViewInv, TypeOK, Accounts
<1>4. Counted'
  <2>1. \A kind : Cardinality(Busy(kind)') =
                    Cardinality(Busy(kind)) + (IF r.kind = kind THEN 1 ELSE 0)
                                            - (IF request[t].kind = kind THEN 1 ELSE 0)
    BY <1>1, BusyChanges DEF ViewInv, TypeOK
  <2>2. /\ Cardinality(Busy("register")) \in Nat /\ Cardinality(Busy("start")) \in Nat
        /\ Len(users) \in Nat /\ serial \in Nat /\ made \in Nat
    BY BusyFinite DEF ViewInv, TypeOK
  <2>3. Cardinality(Busy("register")') = Cardinality(Busy("register")) + (IF r.kind = "register" THEN 1 ELSE 0)
    BY <1>1, <2>1, <2>2
  <2>4. Cardinality(Busy("start")') = Cardinality(Busy("start")) + (IF r.kind = "start" THEN 1 ELSE 0)
    BY <1>1, <2>1, <2>2
  <2>5. QED BY <1>1, <2>2, <2>3, <2>4 DEF ViewInv, Counted
<1>5. OneAccountPerName' /\ AfterOlder' /\ SecondEventOnlyByRace'
  BY <1>1 DEF ViewInv, OneAccountPerName, AfterOlder, SecondEventOnlyByRace, Accounts
<1>6. LookedBefore'
  <2>1. ASSUME NEW s \in Threads, request'[s].kind = "start"
        PROVE  /\ request'[s].after <= serial
               /\ \A i \in DOMAIN events :
                    (/\ events[i].user = request'[s].user /\ events[i].medium = request'[s].medium
                     /\ ~events[i].finished)
                    => i > request'[s].after
    <3>1. CASE s # t
      BY <1>2, <2>1, <3>1 DEF ViewInv, LookedBefore
    <3>2. CASE s = t
      BY <1>2, <2>1, <3>2 DEF Existing, ViewInv, TypeOK
    <3>3. QED BY <3>1, <3>2
  <2>2. QED BY <1>1, <2>1 DEF LookedBefore
<1>7. QED BY <1>3, <1>4, <1>5, <1>6 DEF ViewInv

LEMMA LookUpsKeepInv ==
  ASSUME ViewInv, NEW t \in Threads, NEW u \in Accounts,
         \/ \E m \in media : LookForEvent(t, u, m)
         \/ \E i \in DOMAIN events, p \in 0..MaxPosition : LoadEvent(t, u, i, p)
         \/ \E f \in AllFilms : LookForHidden(t, u, f)
  PROVE  ViewInv'
<1>1. u \in 1..MaxUsers /\ serial \in 0..MaxRequests
  BY DEF ViewInv, TypeOK, Accounts
<1>2. ASSUME NEW m \in media, LookForEvent(t, u, m) PROVE ViewInv'
  <2> DEFINE r == [kind |-> "start", user |-> u, medium |-> m, after |-> serial,
                   incognito |-> "incognito" \in users[u].prefers]
  <2>1. r \in Request
    BY <1>1 DEF Request, ViewInv, TypeOK
  <2>2. LookUp(t, r) /\ Existing(r.user, r.medium) = {} /\ r.after = serial /\ r.kind = "start"
    BY <1>2 DEF LookForEvent
  <2> HIDE DEF r
  <2>3. QED BY <2>1, <2>2, LookUpKeepsInv
<1>3. ASSUME NEW i \in DOMAIN events, NEW p \in 0..MaxPosition, LoadEvent(t, u, i, p) PROVE ViewInv'
  <2> DEFINE r == [kind |-> "progress", user |-> u, event |-> i,
                   was |-> events[i].position, position |-> p, private |-> events[i].private]
  <2>1. i \in 1..MaxRequests /\ events[i].position \in 0..MaxPosition /\ events[i].private \in BOOLEAN
    BY DEF ViewInv, TypeOK, WatchEvent
  <2>2. r \in Request
    BY <1>1, <2>1 DEF Request
  <2>3. LookUp(t, r) /\ r.kind = "progress"
    BY <1>3 DEF LoadEvent
  <2> HIDE DEF r
  <2>4. QED BY <2>2, <2>3, LookUpKeepsInv
<1>4. ASSUME NEW f \in AllFilms, LookForHidden(t, u, f) PROVE ViewInv'
  <2>1. PICK kind \in {"hide", "show"} : LookUp(t, [kind |-> kind, user |-> u, film |-> f])
    BY <1>4 DEF LookForHidden
  <2> DEFINE r == [kind |-> kind, user |-> u, film |-> f]
  <2>2. r \in Request /\ r.kind # "start" /\ r.kind # "register"
    BY <1>1 DEF Request
  <2>3. LookUp(t, r)
    BY <2>1
  <2> HIDE DEF r
  <2>4. QED BY <2>2, <2>3, LookUpKeepsInv
<1>5. QED BY <1>2, <1>3, <1>4

LEMMA LookForNameKeepsInv ==
  ASSUME ViewInv, NEW t \in Threads, NEW name \in Names, Register(t, name) \/ AdminCreateUser(t, name)
  PROVE  ViewInv'
<1>1. PICK role \in Roles, age \in AgeGroups \cup {None} : LookForName(t, name, role, age)
  BY DEF Register, AdminCreateUser, Roles
<1> DEFINE r == [kind |-> "register", name |-> name, role |-> role, age |-> age]
<1>2. r \in Request /\ r.kind = "register"
  BY DEF Request
<1>3. LookUp(t, r) /\ Len(users) + Cardinality(Busy("register")) < MaxUsers
  BY <1>1 DEF LookForName, Busy
<1> HIDE DEF r
<1>4. QED BY <1>2, <1>3, LookUpKeepsInv

-----------------------------------------------------------------------------
(* Commits.                                                                *)

LEMMA AnswerFrees ==
  ASSUME ViewInv, NEW t \in Threads, Answer(t)
  PROVE  /\ made' = made /\ request' \in [Threads -> Request \cup {Idle}]
         /\ \A s \in Threads : request'[s] = IF s = t THEN Idle ELSE request[s]
         /\ Cardinality(Busy("register")) \in Nat /\ Cardinality(Busy("start")) \in Nat
         /\ Cardinality(Busy("register")') =
              Cardinality(Busy("register")) - (IF request[t].kind = "register" THEN 1 ELSE 0)
         /\ Cardinality(Busy("start")') =
              Cardinality(Busy("start")) - (IF request[t].kind = "start" THEN 1 ELSE 0)
<1>1. request \in [Threads -> Request \cup {Idle}]
  BY DEF ViewInv, TypeOK
<1>2. Idle.kind = "idle"
  BY DEF Idle
<1>3. request' = [request EXCEPT ![t] = Idle] /\ made' = made
  BY DEF Answer
<1>4. \A kind : Cardinality(Busy(kind)') =
                  Cardinality(Busy(kind)) + (IF Idle.kind = kind THEN 1 ELSE 0)
                                          - (IF request[t].kind = kind THEN 1 ELSE 0)
  BY <1>1, <1>3, BusyChanges
<1>5. Cardinality(Busy("register")) \in Nat /\ Cardinality(Busy("start")) \in Nat
  BY BusyFinite
<1>6. /\ Cardinality(Busy("register")') =
           Cardinality(Busy("register")) - (IF request[t].kind = "register" THEN 1 ELSE 0)
      /\ Cardinality(Busy("start")') =
           Cardinality(Busy("start")) - (IF request[t].kind = "start" THEN 1 ELSE 0)
  <2>1. ASSUME NEW kind, kind # "idle", Cardinality(Busy(kind)) \in Nat
        PROVE  Cardinality(Busy(kind)') = Cardinality(Busy(kind)) - (IF request[t].kind = kind THEN 1 ELSE 0)
    <3> DEFINE before == Cardinality(Busy(kind))
               after == Cardinality(Busy(kind)')
    <3>1. after = before + (IF Idle.kind = kind THEN 1 ELSE 0) - (IF request[t].kind = kind THEN 1 ELSE 0)
      BY <1>4
    <3>2. before \in Nat /\ Idle.kind # kind
      BY <1>2, <2>1
    <3> HIDE DEF before, after
    <3>3. after = before - (IF request[t].kind = kind THEN 1 ELSE 0)
      BY <3>1, <3>2
    <3>4. QED BY <3>3 DEF before, after
  <2>2. QED BY <1>5, <2>1
<1>7. QED BY <1>1, <1>3, <1>5, <1>6

(* The new event is younger than all; of those that are unfinished, for    *)
(* the same user and file, none was there when the request looked.         *)
LEMMA InsertEventKeepsInv ==
  ASSUME ViewInv, NEW t \in Threads, InsertEvent(t), request[t].user \in Accounts
  PROVE  ViewInv'
<1> DEFINE r == request[t]
           new == [user |-> r.user, medium |-> r.medium, position |-> 0,
                   finished |-> FALSE, incognito |-> r.incognito, after |-> r.after,
                   private |-> r.incognito]
<1>1. /\ r.kind = "start" /\ serial' = serial + 1 /\ Answer(t) /\ UNCHANGED <<users, media, hidden>>
      /\ serial \in Nat /\ made \in 0..MaxRequests
  BY DEF InsertEvent, ViewInv, TypeOK
<1>2. /\ made' = made /\ request' \in [Threads -> Request \cup {Idle}]
      /\ \A s \in Threads : request'[s] = IF s = t THEN Idle ELSE request[s]
  BY <1>1, AnswerFrees
<1>3. r \in [kind: {"start"}, user: 1..MaxUsers, medium: AllMedia, incognito: BOOLEAN, after: 0..MaxRequests]
  BY <1>1, KindsOfRequest DEF ViewInv, TypeOK
<1>4. Counted' /\ serial' <= made
  <2>1. Cardinality(Busy("start")') = Cardinality(Busy("start")) - 1
    BY <1>1, AnswerFrees
  <2>2. Cardinality(Busy("register")') = Cardinality(Busy("register"))
    BY <1>1, AnswerFrees
  <2>3. Cardinality(Busy("register")) \in Nat /\ Cardinality(Busy("start")) \in Nat
    BY BusyFinite
  <2>4. Cardinality(Busy("start")') \in Nat
    <3>1. Busy("start")' \subseteq Threads
      BY DEF Busy
    <3>2. QED BY <3>1, FS_Subset, FS_CardinalityType
  <2>5. QED BY <1>1, <1>2, <2>1, <2>2, <2>3, <2>4 DEF ViewInv, Counted
<1>5. /\ DOMAIN events' \subseteq DOMAIN events \cup {serial + 1}
      /\ DOMAIN events \subseteq DOMAIN events'
      /\ \A i \in DOMAIN events' : events'[i] = IF i \in DOMAIN events THEN events[i] ELSE new
      /\ serial + 1 \in DOMAIN events' => r.medium \in media
  <2>1. DOMAIN events \subseteq 1..serial
    BY DEF ViewInv, TypeOK
  <2>2. CASE r.medium \in media
    BY <1>1, <2>1, <2>2 DEF InsertEvent
  <2>3. CASE r.medium \notin media
    BY <1>1, <2>1, <2>3 DEF InsertEvent
  <2>4. QED BY <2>2, <2>3
<1>6. new \in WatchEvent
  BY <1>3 DEF WatchEvent
<1>7. /\ new.user = r.user /\ new.medium = r.medium /\ new.after = r.after /\ ~new.finished
      /\ r.after <= serial
  BY <1>1 DEF ViewInv, LookedBefore
<1> HIDE DEF new
<1>8. TypeOK'
  <2>1. \A i \in DOMAIN events' :
          events'[i] \in WatchEvent /\ events'[i].user \in Accounts /\ events'[i].medium \in media
    BY <1>5, <1>6, <1>7 DEF ViewInv, TypeOK
  <2>2. serial' \in 0..MaxRequests
    BY <1>1, <1>4
  <2>3. DOMAIN events' \subseteq 1..serial'
    BY <1>1, <1>5 DEF ViewInv, TypeOK
  <2>4. QED BY <1>1, <1>2, <2>1, <2>2, <2>3 DEF ViewInv, TypeOK, Accounts
<1>9. OneAccountPerName'
  BY <1>1 DEF ViewInv, OneAccountPerName, Accounts
<1>10. AfterOlder'
  BY <1>1, <1>3, <1>5, <1>7 DEF ViewInv, AfterOlder, TypeOK
<1>11. LookedBefore'
  <2>1. ASSUME NEW s \in Threads, request'[s].kind = "start"
        PROVE  /\ request'[s].after <= serial'
               /\ \A i \in DOMAIN events' :
                    (/\ events'[i].user = request'[s].user /\ events'[i].medium = request'[s].medium
                     /\ ~events'[i].finished)
                    => i > request'[s].after
    <3>1. s # t /\ request'[s] = request[s]
      BY <1>2, <2>1 DEF Idle
    <3>2. /\ request[s].after \in Nat /\ request[s].after <= serial
          /\ \A i \in DOMAIN events :
                (/\ events[i].user = request[s].user /\ events[i].medium = request[s].medium
                 /\ ~events[i].finished)
                => i > request[s].after
      BY <2>1, <3>1, KindsOfRequest DEF ViewInv, TypeOK, LookedBefore
    <3>3. QED BY <1>1, <1>5, <3>1, <3>2
  <2>2. QED BY <2>1 DEF LookedBefore
<1>12. SecondEventOnlyByRace'
  <2>1. ASSUME NEW i \in DOMAIN events', NEW j \in DOMAIN events', i < j,
               events'[i].user = events'[j].user, events'[i].medium = events'[j].medium,
               ~events'[i].finished, ~events'[j].finished
        PROVE  i > events'[j].after
    <3>1. CASE j \in DOMAIN events
      <4>1. i \in DOMAIN events
        BY <1>1, <1>5, <2>1, <3>1 DEF ViewInv, TypeOK
      <4>2. QED BY <1>5, <2>1, <3>1, <4>1 DEF ViewInv, SecondEventOnlyByRace
    <3>2. CASE j \notin DOMAIN events
      <4>1. j = serial + 1 /\ events'[j] = new /\ i \in DOMAIN events
        BY <1>1, <1>5, <2>1, <3>2 DEF ViewInv, TypeOK
      <4>2. QED BY <1>1, <1>5, <1>7, <2>1, <4>1 DEF ViewInv, LookedBefore
    <3>3. QED BY <3>1, <3>2
  <2>2. QED BY <2>1 DEF SecondEventOnlyByRace
<1>13. QED BY <1>4, <1>8, <1>9, <1>10, <1>11, <1>12 DEF ViewInv

(* Commits and requests that bring no event leave what is said of events.  *)
LEMMA FewerEvents ==
  ASSUME ViewInv, serial' = serial,
         DOMAIN events' \subseteq DOMAIN events,
         \A i \in DOMAIN events' :
            /\ events'[i].user = events[i].user /\ events'[i].medium = events[i].medium
            /\ events'[i].finished = events[i].finished /\ events'[i].after = events[i].after,
         \A t \in Threads : request'[t] \in {request[t], Idle}
  PROVE  LookedBefore' /\ AfterOlder' /\ SecondEventOnlyByRace'
<1>1. LookedBefore'
  <2>1. ASSUME NEW t \in Threads, request'[t].kind = "start" PROVE request'[t] = request[t]
    BY <2>1 DEF Idle
  <2>2. QED BY <2>1 DEF LookedBefore, ViewInv
<1>2. QED BY <1>1 DEF AfterOlder, SecondEventOnlyByRace, ViewInv

(* A start that resumes only notes its mode.                               *)
LEMMA ResumeMarks ==
  ASSUME ViewInv, NEW u \in Accounts, NEW m \in media, ResumeEvent(u, m)
  PROVE  /\ UNCHANGED <<users, media, serial, hidden, request, made>>
         /\ DOMAIN events' = DOMAIN events
         /\ \A i \in DOMAIN events :
              /\ events'[i] \in WatchEvent
              /\ events'[i].user = events[i].user /\ events'[i].medium = events[i].medium
              /\ events'[i].finished = events[i].finished /\ events'[i].after = events[i].after
              /\ events[i].user # u => events'[i] = events[i]
<1> DEFINE on == "incognito" \in users[u].prefers
<1>1. PICK k \in Existing(u, m) : events' = [events EXCEPT ![k].private = on]
  BY DEF ResumeEvent
<1>2. UNCHANGED <<users, media, serial, hidden, request, made>>
  BY DEF ResumeEvent
<1>3. DOMAIN events' = DOMAIN events
  BY <1>1
<1>4. ASSUME NEW i \in DOMAIN events
      PROVE  /\ events'[i] \in WatchEvent
             /\ events'[i].user = events[i].user /\ events'[i].medium = events[i].medium
             /\ events'[i].finished = events[i].finished /\ events'[i].after = events[i].after
             /\ events[i].user # u => events'[i] = events[i]
  <2>1. events[i] \in WatchEvent /\ on \in BOOLEAN
    BY DEF ViewInv, TypeOK
  <2> HIDE DEF on
  <2>2. CASE i = k
    BY <1>1, <2>1, <2>2 DEF WatchEvent, Existing
  <2>3. CASE i # k
    BY <1>1, <2>1, <2>3
  <2>4. QED BY <2>2, <2>3
<1>5. QED BY <1>2, <1>3, <1>4

LEMMA ResumeKeepsInv ==
  ASSUME ViewInv, NEW u \in Accounts, NEW m \in media, ResumeEvent(u, m)
  PROVE  ViewInv'
<1>1. /\ UNCHANGED <<users, media, serial, hidden, request, made>>
      /\ DOMAIN events' = DOMAIN events
      /\ \A i \in DOMAIN events :
           /\ events'[i] \in WatchEvent
           /\ events'[i].user = events[i].user /\ events'[i].medium = events[i].medium
           /\ events'[i].finished = events[i].finished /\ events'[i].after = events[i].after
  BY ResumeMarks
<1>2. TypeOK' /\ OneAccountPerName'
  BY <1>1 DEF ViewInv, TypeOK, OneAccountPerName, Accounts
<1>3. Counted'
  BY <1>1 DEF ViewInv, Counted, Busy
<1>4. LookedBefore' /\ AfterOlder' /\ SecondEventOnlyByRace'
  BY <1>1, FewerEvents
<1>5. QED BY <1>2, <1>3, <1>4 DEF ViewInv

LEMMA CommitPositionKeepsInv ==
  ASSUME ViewInv, NEW t \in Threads, CommitPosition(t)
  PROVE  ViewInv'
<1> DEFINE r == request[t]
<1>1. r.kind = "progress" /\ Answer(t) /\ UNCHANGED <<users, media, serial, hidden>>
  BY DEF CommitPosition
<1>2. /\ made' = made /\ request' \in [Threads -> Request \cup {Idle}]
      /\ \A s \in Threads : request'[s] = IF s = t THEN Idle ELSE request[s]
      /\ Cardinality(Busy("start")') = Cardinality(Busy("start"))
      /\ Cardinality(Busy("register")') = Cardinality(Busy("register"))
  BY <1>1, AnswerFrees
<1>3. r.position \in 0..MaxPosition
  BY <1>1, KindsOfRequest DEF ViewInv, TypeOK
<1>4. /\ DOMAIN events' = DOMAIN events
      /\ \A i \in DOMAIN events : events'[i] \in {events[i], [events[i] EXCEPT !.position = r.position]}
  BY DEF CommitPosition
<1>5. \A i \in DOMAIN events :
        /\ events'[i] \in WatchEvent
        /\ events'[i].user = events[i].user /\ events'[i].medium = events[i].medium
        /\ events'[i].finished = events[i].finished /\ events'[i].after = events[i].after
  <2>1. ASSUME NEW i \in DOMAIN events, NEW e,
               e \in {events[i], [events[i] EXCEPT !.position = r.position]}
        PROVE  /\ e \in WatchEvent /\ e.user = events[i].user /\ e.medium = events[i].medium
               /\ e.finished = events[i].finished /\ e.after = events[i].after
    <3>1. events[i] \in WatchEvent
      BY DEF ViewInv, TypeOK
    <3> HIDE DEF r
    <3>2. QED BY <1>3, <2>1, <3>1 DEF WatchEvent
  <2>2. QED BY <1>4, <2>1
<1>6. TypeOK'
  BY <1>1, <1>2, <1>4, <1>5 DEF ViewInv, TypeOK, Accounts
<1>7. Counted' /\ OneAccountPerName'
  BY <1>1, <1>2 DEF ViewInv, Counted, OneAccountPerName, Accounts
<1>8. LookedBefore' /\ AfterOlder' /\ SecondEventOnlyByRace'
  BY <1>1, <1>2, <1>4, <1>5, FewerEvents
<1>9. QED BY <1>6, <1>7, <1>8 DEF ViewInv

LEMMA CommitHiddenKeepsInv ==
  ASSUME ViewInv, NEW t \in Threads, CommitHidden(t), request[t].user \in Accounts
  PROVE  ViewInv'
<1> DEFINE r == request[t]
<1>1. r.kind \in {"hide", "show"} /\ Answer(t) /\ UNCHANGED <<users, media, events, serial>>
  BY DEF CommitHidden
<1>2. /\ made' = made /\ request' \in [Threads -> Request \cup {Idle}]
      /\ \A s \in Threads : request'[s] = IF s = t THEN Idle ELSE request[s]
      /\ Cardinality(Busy("start")') = Cardinality(Busy("start"))
      /\ Cardinality(Busy("register")') = Cardinality(Busy("register"))
  BY <1>1, AnswerFrees
<1>3. r.film \in AllFilms
  BY <1>1, KindsOfRequest DEF ViewInv, TypeOK
<1>4. hidden' \subseteq Accounts \X AllFilms
  BY <1>3 DEF CommitHidden, ViewInv, TypeOK
<1>5. TypeOK'
  BY <1>1, <1>2, <1>4 DEF ViewInv, TypeOK, Accounts
<1>6. Counted' /\ OneAccountPerName'
  BY <1>1, <1>2 DEF ViewInv, Counted, OneAccountPerName, Accounts
<1>7. LookedBefore' /\ AfterOlder' /\ SecondEventOnlyByRace'
  BY <1>1, <1>2, FewerEvents
<1>8. QED BY <1>5, <1>6, <1>7 DEF ViewInv

(* A name that was taken since it was looked up is refused by the unique   *)
(* key.                                                                    *)
LEMMA InsertUserKeepsInv ==
  ASSUME ViewInv, NEW t \in Threads, InsertUser(t)
  PROVE  ViewInv'
<1> DEFINE r == request[t]
           new == NewUser(r.name, r.role, r.age)
<1>1. r.kind = "register" /\ Answer(t) /\ UNCHANGED <<media, events, serial, hidden>>
  BY DEF InsertUser
<1>2. /\ made' = made /\ request' \in [Threads -> Request \cup {Idle}]
      /\ \A s \in Threads : request'[s] = IF s = t THEN Idle ELSE request[s]
      /\ Cardinality(Busy("start")') = Cardinality(Busy("start"))
      /\ Cardinality(Busy("register")') = Cardinality(Busy("register")) - 1
      /\ Cardinality(Busy("register")) \in Nat
  BY <1>1, AnswerFrees
<1>3. new \in User /\ new.name = r.name
  <2>1. r \in [kind: {"register"}, name: Names, role: Roles, age: AgeGroups \cup {None}]
    BY <1>1, KindsOfRequest DEF ViewInv, TypeOK
  <2>2. QED BY <2>1 DEF NewUser, User, Preferences
<1>4. users \in Seq(User) /\ Len(users) \in Nat /\ DOMAIN users = 1..Len(users)
  BY DEF ViewInv, TypeOK
<1> HIDE DEF new
<1>5. CASE NameTaken(r.name)
  <2>1. users' = users
    BY <1>5 DEF InsertUser
  <2>2. TypeOK'
    BY <1>1, <1>2, <2>1 DEF ViewInv, TypeOK, Accounts
  <2>3. Counted' /\ OneAccountPerName'
    BY <1>1, <1>2, <1>4, <2>1 DEF ViewInv, Counted, OneAccountPerName, Accounts
  <2>4. LookedBefore' /\ AfterOlder' /\ SecondEventOnlyByRace'
    BY <1>1, <1>2, FewerEvents
  <2>5. QED BY <2>2, <2>3, <2>4 DEF ViewInv
<1>6. CASE ~NameTaken(r.name)
  <2>1. users' = Append(users, new)
    BY <1>6 DEF InsertUser, new
  <2>2. /\ users' \in Seq(User) /\ Len(users') = Len(users) + 1 /\ Accounts' = 1..(Len(users) + 1)
        /\ \A u \in Accounts : users'[u] = users[u]
        /\ users'[Len(users) + 1] = new
    BY <1>3, <1>4, <2>1 DEF Accounts
  <2>3. Cardinality(Busy("register")') \in Nat
    <3>1. Busy("register")' \subseteq Threads
      BY DEF Busy
    <3>2. QED BY <3>1, FS_Subset, FS_CardinalityType
  <2>4. Counted' /\ Len(users') <= MaxUsers
    BY <1>1, <1>2, <1>4, <2>2, <2>3 DEF ViewInv, Counted
  <2>5. Accounts \subseteq Accounts'
    BY <1>4, <2>2 DEF Accounts
  <2>6. TypeOK'
    BY <1>1, <1>2, <2>2, <2>4, <2>5 DEF ViewInv, TypeOK
  <2>7. OneAccountPerName'
    BY <1>3, <1>4, <1>6, <2>2 DEF ViewInv, OneAccountPerName, Accounts, NameTaken
  <2>8. LookedBefore' /\ AfterOlder' /\ SecondEventOnlyByRace'
    BY <1>1, <1>2, FewerEvents
  <2>9. QED BY <2>4, <2>6, <2>7, <2>8 DEF ViewInv
<1>7. QED BY <1>5, <1>6

-----------------------------------------------------------------------------
(* Requests of one step.                                                   *)

(* A change of an account that leaves its name.                            *)
LEMMA ChangeOfAccount ==
  ASSUME ViewInv, NewRequest, UNCHANGED <<media, events, serial, hidden, request>>,
         NEW u \in Accounts, NEW new \in User, new.name = users[u].name,
         users' = [users EXCEPT ![u] = new]
  PROVE  ViewInv'
<1>1. users \in Seq(User) /\ DOMAIN users = 1..Len(users) /\ Len(users) \in Nat
  BY DEF ViewInv, TypeOK
<1>2. /\ users' \in Seq(User) /\ Len(users') = Len(users) /\ DOMAIN users' = DOMAIN users
      /\ \A w \in Accounts : users'[w] = IF w = u THEN new ELSE users[w]
  BY <1>1 DEF Accounts
<1>3. made' = made + 1 /\ made' \in 0..MaxRequests
  BY DEF NewRequest, ViewInv, TypeOK
<1>4. TypeOK'
  BY <1>2, <1>3 DEF ViewInv, TypeOK, Accounts
<1>5. Counted'
  <2>1. Cardinality(Busy("register")) \in Nat /\ Cardinality(Busy("start")) \in Nat /\ serial \in Nat /\ made \in Nat
    BY BusyFinite DEF ViewInv, TypeOK
  <2>2. Busy("register")' = Busy("register") /\ Busy("start")' = Busy("start")
    BY DEF Busy
  <2>3. QED BY <1>2, <1>3, <2>1, <2>2 DEF ViewInv, Counted
<1>6. OneAccountPerName'
  BY <1>2 DEF ViewInv, OneAccountPerName, Accounts
<1>7. LookedBefore' /\ AfterOlder' /\ SecondEventOnlyByRace'
  BY FewerEvents
<1>8. QED BY <1>4, <1>5, <1>6, <1>7 DEF ViewInv

LEMMA AccountsKeepInv ==
  ASSUME ViewInv, NEW u \in Accounts,
         (\E p \in Switches : SetPreference(u, p)) \/ (\E a \in Accounts : AdminUpdateUser(a, u))
  PROVE  ViewInv'
<1>1. users[u] \in User
  BY DEF Accounts, ViewInv, TypeOK
<1>2. CASE \E p \in Switches : SetPreference(u, p)
  <2>1. PICK p \in Switches, on \in BOOLEAN :
          users' = [users EXCEPT ![u].prefers = IF on THEN @ \cup {p} ELSE @ \ {p}]
    BY <1>2 DEF SetPreference
  <2> DEFINE new == [users[u] EXCEPT !.prefers = IF on THEN @ \cup {p} ELSE @ \ {p}]
  <2>2. new \in User /\ new.name = users[u].name
    BY <1>1 DEF User
  <2>3. users' = [users EXCEPT ![u] = new]
    BY <2>1
  <2> HIDE DEF new
  <2>4. QED BY <1>2, <2>2, <2>3, ChangeOfAccount DEF SetPreference
<1>3. CASE \E a \in Accounts : AdminUpdateUser(a, u)
  <2>1. PICK age \in Ages : users' = [users EXCEPT ![u].age = age]
    BY <1>3 DEF AdminUpdateUser
  <2> DEFINE new == [users[u] EXCEPT !.age = age]
  <2>2. new \in User /\ new.name = users[u].name
    BY <1>1 DEF User
  <2>3. users' = [users EXCEPT ![u] = new]
    BY <2>1
  <2> HIDE DEF new
  <2>4. QED BY <1>3, <2>2, <2>3, ChangeOfAccount DEF AdminUpdateUser
<1>4. QED BY <1>2, <1>3

(* Events are deleted: a user's history, or those of a file that goes.     *)
LEMMA DeletionsKeepInv ==
  ASSUME ViewInv, NewRequest, NEW ids, Delete(ids), UNCHANGED <<users, serial, hidden, request>>,
         media' \subseteq media, \A i \in DOMAIN events \ ids : events[i].medium \in media'
  PROVE  ViewInv'
<1>1. DOMAIN events' = DOMAIN events \ ids /\ \A i \in DOMAIN events' : events'[i] = events[i]
  BY DEF Delete
<1>2. made' = made + 1 /\ made' \in 0..MaxRequests
  BY DEF NewRequest, ViewInv, TypeOK
<1>3. TypeOK'
  BY <1>1, <1>2 DEF ViewInv, TypeOK, Accounts
<1>4. Counted' /\ OneAccountPerName'
  <2>1. Cardinality(Busy("register")) \in Nat /\ Cardinality(Busy("start")) \in Nat /\ serial \in Nat /\ made \in Nat
    BY BusyFinite DEF ViewInv, TypeOK
  <2>2. Busy("register")' = Busy("register") /\ Busy("start")' = Busy("start")
    BY DEF Busy
  <2>3. QED BY <1>2, <2>1, <2>2 DEF ViewInv, Counted, OneAccountPerName, Accounts
<1>5. LookedBefore' /\ AfterOlder' /\ SecondEventOnlyByRace'
  BY <1>1, FewerEvents
<1>6. QED BY <1>3, <1>4, <1>5 DEF ViewInv

LEMMA ViewStep == ViewInv /\ [Next]_vars => ViewInv'
<1> SUFFICES ASSUME ViewInv, [Next]_vars PROVE ViewInv'
  OBVIOUS
<1>1. ASSUME NEW u \in Accounts, NEW t \in Threads,
             \/ \E m \in media : LookForEvent(t, u, m)
             \/ \E i \in DOMAIN events, p \in 0..MaxPosition : LoadEvent(t, u, i, p)
             \/ \E f \in AllFilms : LookForHidden(t, u, f)
      PROVE  ViewInv'
  BY <1>1, LookUpsKeepInv
<1>2. ASSUME NEW u \in Accounts, NEW t \in Threads, request[t].user = u,
             InsertEvent(t) \/ CommitPosition(t) \/ CommitHidden(t)
      PROVE  ViewInv'
  BY <1>2, InsertEventKeepsInv, CommitPositionKeepsInv, CommitHiddenKeepsInv
<1>3. ASSUME NEW u \in Accounts,
             (\E p \in Switches : SetPreference(u, p)) \/ (\E a \in Accounts : AdminUpdateUser(a, u))
      PROVE  ViewInv'
  BY <1>3, AccountsKeepInv
<1>4. ASSUME NEW u, NEW fs, ClearWatchHistory(u, fs) PROVE ViewInv'
  BY <1>4, DeletionsKeepInv DEF ClearWatchHistory, ViewInv, TypeOK
<1>5. ASSUME NEW t \in Threads, Registration(t) PROVE ViewInv'
  BY <1>5, LookForNameKeepsInv, InsertUserKeepsInv DEF Registration
<1>6. ASSUME NEW m \in AllMedia, DeleteMedium(m) PROVE ViewInv'
  <2>1. media' = media \ {m} /\ Delete({i \in DOMAIN events : events[i].medium = m}) /\ NewRequest
    BY <1>6 DEF DeleteMedium
  <2>2. \A i \in DOMAIN events \ {j \in DOMAIN events : events[j].medium = m} : events[i].medium \in media'
    BY <2>1 DEF ViewInv, TypeOK
  <2>3. QED BY <1>6, <2>1, <2>2, DeletionsKeepInv DEF DeleteMedium
<1>7. CASE UNCHANGED vars
  <2>1. UNCHANGED <<users, media, events, serial, hidden, request, made>>
    BY <1>7 DEF vars
  <2>2. LookedBefore' /\ AfterOlder' /\ SecondEventOnlyByRace'
    BY <2>1, FewerEvents
  <2>3. TypeOK' /\ OneAccountPerName'
    BY <2>1 DEF ViewInv, TypeOK, OneAccountPerName, Accounts
  <2>4. Counted'
    BY <2>1 DEF ViewInv, Counted, Busy
  <2>5. QED BY <2>2, <2>3, <2>4 DEF ViewInv
<1>8. ASSUME NEW u \in Accounts, ByUser(u) \/ ByAdmin(u) PROVE ViewInv'
  BY <1>1, <1>2, <1>3, <1>4, <1>8, ResumeKeepsInv DEF ByUser, ByAdmin, AdminClearUserStats
<1>9. QED BY <1>5, <1>6, <1>7, <1>8 DEF Next

LEMMA ViewInvariant == Spec => []ViewInv
  BY ViewInit, ViewStep, PTL DEF Spec

-----------------------------------------------------------------------------

(* The tables hold what they can and the foreign keys hold, in particular  *)
(* an event's file exists when watch_history joins it.                     *)
THEOREM ViewTypes == Spec => []TypeOK
<1>1. ViewInv => TypeOK
  BY DEF ViewInv
<1>2. QED BY <1>1, ViewInvariant, PTL

(* Of registrations of a name that overlap, in auth.py and in admin.py,    *)
(* one gets it.                                                            *)
THEOREM NamesAreUnique == Spec => []OneAccountPerName
<1>1. ViewInv => OneAccountPerName
  BY DEF ViewInv
<1>2. QED BY <1>1, ViewInvariant, PTL

(* watch_start makes a second unfinished event of a user and a file only   *)
(* while the request for another one is under way, however many requests   *)
(* overlap and whatever is deleted meanwhile.                              *)
THEOREM SecondEventsAreRaces == Spec => []SecondEventOnlyByRace
<1>1. ViewInv => SecondEventOnlyByRace
  BY DEF ViewInv
<1>2. QED BY <1>1, ViewInvariant, PTL

-----------------------------------------------------------------------------
(* What is offered for resuming.                                           *)

LEMMA LastIsOne ==
  ASSUME NEW n \in Nat, NEW ids \in SUBSET (1..n), ids # {}
  PROVE  Last(ids) \in ids
<1> DEFINE left == {m \in Nat : n - m \in ids}
           R == OpToRel(<, Nat)
<1>1. left \in SUBSET Nat /\ left # {}
  <2>1. PICK i \in ids : TRUE
    OBVIOUS
  <2>2. n - i \in Nat /\ n - (n - i) = i
    OBVIOUS
  <2>3. QED BY <2>1, <2>2
<1>2. PICK m \in left : \A k \in left : ~(<<k, m>> \in R)
  <2>1. IsWellFoundedOn(R, Nat)
    BY NatLessThanWellFounded
  <2> HIDE DEF R
  <2>2. QED BY <1>1, <2>1, WFMin
<1>3. \A k \in left : ~(k < m)
  BY <1>2 DEF OpToRel
<1>4. n - m \in ids
  OBVIOUS
<1>5. ASSUME NEW j \in ids PROVE j <= n - m
  <2>1. n - j \in left
    OBVIOUS
  <2>2. ~(n - j < m)
    BY <1>3, <2>1
  <2>3. n \in Int /\ j \in Int /\ m \in Int
    OBVIOUS
  <2> HIDE DEF left
  <2>4. QED BY <2>2, <2>3
<1>6. \E i \in ids : \A j \in ids : j <= i
  BY <1>4, <1>5
<1>7. QED BY <1>6 DEF Last

LEMMA OffersAreUnfinished ==
  ASSUME ViewInv, NEW u \in Accounts
  PROVE  /\ WatchContinue(u) \subseteq UnfinishedVisible(u)
         /\ \A f \in AllFilms : FilmStates(u, f) \subseteq UnfinishedVisible(u)
         /\ \A s \in Series : SeriesContinue(u, s) \subseteq UnfinishedVisible(u)
<1>1. UnfinishedVisible(u) \subseteq 1..serial /\ serial \in Nat
  BY DEF UnfinishedVisible, VisibleEvents, ViewInv, TypeOK
<1>2. \A ids \in SUBSET UnfinishedVisible(u) : ids # {} => Last(ids) \in UnfinishedVisible(u)
  BY <1>1, LastIsOne
<1>3. ASSUME NEW i \in WatchContinue(u) PROVE i \in UnfinishedVisible(u)
  <2> DEFINE begun(f) == {j \in UnfinishedVisible(u) :
                            events[j].position > 0 /\ FilmOf(events[j].medium) = f}
  <2>1. PICK f \in AllFilms : begun(f) # {} /\ i = Last(begun(f))
    BY DEF WatchContinue
  <2>2. begun(f) \in SUBSET UnfinishedVisible(u)
    OBVIOUS
  <2> HIDE DEF begun
  <2>3. QED BY <1>2, <2>1, <2>2
<1>4. ASSUME NEW s \in Series, NEW i \in SeriesContinue(u, s) PROVE i \in UnfinishedVisible(u)
  <2> DEFINE begun == {j \in UnfinishedVisible(u) : FilmRow[FilmOf(events[j].medium)].series = s}
  <2>1. begun # {} /\ i = Last(begun)
    BY DEF SeriesContinue
  <2>2. begun \in SUBSET UnfinishedVisible(u)
    OBVIOUS
  <2> HIDE DEF begun
  <2>3. QED BY <1>2, <2>1, <2>2
<1>5. QED BY <1>3, <1>4 DEF FilmStates

(* Of two unfinished events of a user and a file each is younger than the  *)
(* look of the other's request.                                            *)
LEMMA RivalsRaced ==
  ASSUME ViewInv, NEW u \in Accounts, NEW i \in UnfinishedVisible(u)
  PROVE  Resumed(u, i)
<1> DEFINE found == Existing(u, events[i].medium)
<1>1. i \in found /\ found \subseteq DOMAIN events
  BY DEF Existing, UnfinishedVisible, VisibleEvents
<1>2. ASSUME NEW j \in found, j # i PROVE j > events[i].after /\ i > events[j].after
  <2>1. /\ i \in Nat /\ j \in Nat /\ i \in DOMAIN events /\ j \in DOMAIN events
        /\ events[i].after \in Nat /\ events[j].after \in Nat
        /\ events[i].after < i /\ events[j].after < j
    BY <1>1 DEF ViewInv, TypeOK, AfterOlder, WatchEvent
  <2>2. /\ events[i].user = events[j].user /\ events[i].medium = events[j].medium
        /\ ~events[i].finished /\ ~events[j].finished
    BY <1>1 DEF Existing
  <2>3. CASE i < j
    BY <2>1, <2>2, <2>3 DEF ViewInv, SecondEventOnlyByRace
  <2>4. CASE j < i
    BY <2>1, <2>2, <2>4 DEF ViewInv, SecondEventOnlyByRace
  <2>5. QED BY <1>2, <2>1, <2>3, <2>4
<1> HIDE DEF found
<1>3. found = {i} \/ \E j \in found \ {i} : j > events[i].after /\ i > events[j].after
  BY <1>1, <1>2
<1>4. QED BY <1>3 DEF found, Resumed

(* The continue list, the cards and the series page offer an event that    *)
(* watch_start resumes, unless requests raced.                             *)
THEOREM OffersAreTrue == Spec => []OffersAreResumed
<1>1. ViewInv => OffersAreResumed
  <2>1. ASSUME ViewInv, NEW u \in Accounts, NEW i \in Offers(u) PROVE Resumed(u, i)
    <3>1. \/ i \in WatchContinue(u)
          \/ \E f \in AllFilms : i \in FilmStates(u, f)
          \/ \E s \in Series : i \in SeriesContinue(u, s)
      BY DEF Offers
    <3>2. QED BY <2>1, <3>1, OffersAreUnfinished, RivalsRaced
  <2>2. QED BY <2>1 DEF OffersAreResumed
<1>2. QED BY <1>1, ViewInvariant, PTL

-----------------------------------------------------------------------------
(* What a step does to the events.                                         *)

LEMMA EventsAppear ==
  ASSUME ViewInv, [Next]_vars
  PROVE  DOMAIN events' \subseteq DOMAIN events \cup {serial + 1}
<1>1. ASSUME NEW t \in Threads, NEW r, LookUp(t, r) PROVE events' = events
  BY <1>1 DEF LookUp
<1>2. ASSUME NEW t \in Threads, CommitPosition(t) PROVE DOMAIN events' = DOMAIN events
  BY <1>2 DEF CommitPosition
<1>3. ASSUME NEW t \in Threads, InsertEvent(t)
      PROVE  DOMAIN events' \subseteq DOMAIN events \cup {serial + 1}
  BY <1>3 DEF InsertEvent
<1>4. ASSUME NEW ids, Delete(ids) PROVE DOMAIN events' \subseteq DOMAIN events
  BY <1>4 DEF Delete
<1>5. ASSUME NEW u \in Accounts, ByUser(u) \/ ByAdmin(u)
      PROVE  DOMAIN events' \subseteq DOMAIN events \cup {serial + 1}
  BY <1>1, <1>2, <1>3, <1>4, <1>5, ResumeMarks
     DEF ByUser, ByAdmin, LookForEvent, LoadEvent, LookForHidden, CommitHidden, SetPreference,
         ClearWatchHistory, AdminUpdateUser, AdminClearUserStats
<1>6. ASSUME NEW t \in Threads, Registration(t) PROVE events' = events
  BY <1>1, <1>6 DEF Registration, Register, AdminCreateUser, LookForName, InsertUser
<1>7. ASSUME NEW m \in AllMedia, DeleteMedium(m) PROVE DOMAIN events' \subseteq DOMAIN events
  BY <1>4, <1>7 DEF DeleteMedium
<1>8. QED BY <1>5, <1>6, <1>7 DEF Next, vars

(* A progress report that comes late does not bring an event back.         *)
THEOREM ClearedEventsStayCleared == Spec => ClearedStaysCleared
<1>1. ViewInv /\ [Next]_vars =>
        [\A i \in 1..serial : i \notin DOMAIN events => i \notin DOMAIN events']_vars
  BY EventsAppear DEF ViewInv, TypeOK
<1>2. QED BY <1>1, ViewInvariant, PTL DEF Spec, ClearedStaysCleared

-----------------------------------------------------------------------------
(* What the answers to a user depend on.                                   *)

(* The user's own columns, the files, the visible events of the user and   *)
(* the films the user hides.                                               *)
SameFor(u) ==
    /\ UNCHANGED <<users[u].role, users[u].age, users[u].prefers, media, VisibleEvents(u), ListBlacklist(u)>>
    /\ \A i \in VisibleEvents(u) : events'[i] = events[i]

LEMMA SameLists ==
  ASSUME NEW u, SameFor(u)
  PROVE  /\ UNCHANGED <<Watched(u), Finished(u), UnfinishedVisible(u), WatchHistory(u)>>
         /\ \A f : UNCHANGED MediaOf(f) /\ UNCHANGED FilmStates(u, f)
         /\ \A f : AgeAllows(u, f)' <=> AgeAllows(u, f)
<1> DEFINE V == VisibleEvents(u)
<1>1. V' = V /\ \A i \in V : events'[i] = events[i]
  BY DEF SameFor
<1>2. Watched(u)' = Watched(u)
  BY <1>1 DEF Watched
<1>3. {i \in V : events'[i].finished} = {i \in V : events[i].finished}
  BY <1>1
<1>4. Finished(u)' = Finished(u)
  BY <1>1, <1>3 DEF Finished
<1>5. UnfinishedVisible(u)' = UnfinishedVisible(u)
  BY <1>1 DEF UnfinishedVisible
<1>6. WatchHistory(u)' = WatchHistory(u)
  BY <1>1 DEF WatchHistory
<1>7. ASSUME NEW f PROVE MediaOf(f)' = MediaOf(f)
  BY DEF MediaOf, SameFor
<1>8. ASSUME NEW f PROVE FilmStates(u, f)' = FilmStates(u, f)
  BY <1>1, <1>5 DEF FilmStates, UnfinishedVisible
<1>9. ASSUME NEW f PROVE AgeAllows(u, f)' <=> AgeAllows(u, f)
  BY DEF AgeAllows, SameFor
<1>10. QED BY <1>2, <1>4, <1>5, <1>6, <1>7, <1>8, <1>9

LEMMA SameOffers ==
  ASSUME NEW u, SameFor(u)
  PROVE  /\ UNCHANGED WatchContinue(u)
         /\ \A s : UNCHANGED SeriesContinue(u, s)
<1>1. /\ UnfinishedVisible(u)' = UnfinishedVisible(u)
      /\ \A i \in UnfinishedVisible(u) : events'[i] = events[i]
  BY SameLists DEF SameFor, UnfinishedVisible
<1>2. WatchContinue(u)' = WatchContinue(u)
  <2> DEFINE begun(f) == {i \in UnfinishedVisible(u) :
                            events[i].position > 0 /\ FilmOf(events[i].medium) = f}
             begunThen(f) == {i \in UnfinishedVisible(u)' :
                                events'[i].position > 0 /\ FilmOf(events'[i].medium) = f}
  <2>1. \A f : begunThen(f) = begun(f)
    BY <1>1
  <2>2. WatchContinue(u) = {Last(begun(f)) : f \in {g \in AllFilms : begun(g) # {}}}
    BY DEF WatchContinue
  <2>3. WatchContinue(u)' = {Last(begunThen(f)) : f \in {g \in AllFilms : begunThen(g) # {}}}
    BY DEF WatchContinue
  <2> HIDE DEF begun, begunThen
  <2>4. {g \in AllFilms : begunThen(g) # {}} = {g \in AllFilms : begun(g) # {}}
    BY <2>1
  <2>5. QED BY <2>1, <2>2, <2>3, <2>4
<1>3. ASSUME NEW s PROVE SeriesContinue(u, s)' = SeriesContinue(u, s)
  <2>1. {i \in UnfinishedVisible(u)' : FilmRow[FilmOf(events'[i].medium)].series = s}
        = {i \in UnfinishedVisible(u) : FilmRow[FilmOf(events[i].medium)].series = s}
    BY <1>1
  <2>2. QED BY <2>1 DEF SeriesContinue
<1>4. QED BY <1>2, <1>3

LEMMA SameAudio ==
  ASSUME NEW u, SameFor(u)
  PROVE  UNCHANGED TopAudio(u)
<1> DEFINE V == VisibleEvents(u)
           codecs == {MediaRow[events[i].medium].audio : i \in V} \ {None}
           codecsThen == {MediaRow[events'[i].medium].audio : i \in V'} \ {None}
           With(c) == {i \in V : MediaRow[events[i].medium].audio = c}
           WithThen(c) == {i \in V' : MediaRow[events'[i].medium].audio = c}
<1>1. V' = V /\ \A i \in V : events'[i] = events[i]
  BY DEF SameFor
<1>2. codecsThen = codecs /\ \A c : WithThen(c) = With(c)
  BY <1>1
<1>3. TopAudio(u) = {c \in codecs : \A d \in codecs : Cardinality(With(d)) <= Cardinality(With(c))}
  BY DEF TopAudio
<1>4. TopAudio(u)' =
        {c \in codecsThen : \A d \in codecsThen : Cardinality(WithThen(d)) <= Cardinality(WithThen(c))}
  BY DEF TopAudio
<1> HIDE DEF codecs, codecsThen, With, WithThen
<1>5. QED BY <1>2, <1>3, <1>4

LEMMA SameRecommended ==
  ASSUME NEW u, SameFor(u)
  PROVE  UNCHANGED Recommended(u)
<1> DEFINE taste == UNION {FilmRow[f].genres : f \in Finished(u)}
           cast == UNION {FilmRow[f].persons : f \in Finished(u)}
           score(f) == 4 * Cardinality(FilmRow[f].genres \cap taste)
                       + 3 * Cardinality(FilmRow[f].persons \cap cast)
           spoken(f) == {MediaRow[m].audio : m \in MediaOf(f)}
           spokenThen(f) == {MediaRow[m].audio : m \in MediaOf(f)'}
           fits(g) == /\ g \in AllFilms \ (Watched(u) \cup ListBlacklist(u))
                      /\ score(g) > 0
                      /\ AgeAllows(u, g)
                      /\ "excludeFamily" \in users[u].prefers => ~FilmRow[g].family
                      /\ "byLanguage" \in users[u].prefers =>
                           TopAudio(u) = {} \/ spoken(g) \cap TopAudio(u) # {}
           fitsThen(g) == /\ g \in AllFilms \ (Watched(u)' \cup ListBlacklist(u)')
                          /\ score(g) > 0
                          /\ AgeAllows(u, g)'
                          /\ "excludeFamily" \in users'[u].prefers => ~FilmRow[g].family
                          /\ "byLanguage" \in users'[u].prefers =>
                               TopAudio(u)' = {} \/ spokenThen(g) \cap TopAudio(u)' # {}
<1>1. /\ Watched(u)' = Watched(u) /\ Finished(u)' = Finished(u) /\ TopAudio(u)' = TopAudio(u)
      /\ ListBlacklist(u)' = ListBlacklist(u) /\ users'[u].prefers = users[u].prefers
      /\ \A f : MediaOf(f)' = MediaOf(f) /\ (AgeAllows(u, f)' <=> AgeAllows(u, f))
  BY SameLists, SameAudio DEF SameFor
<1>2. Recommended(u) = {<<f, score(f)>> : f \in {g \in AllFilms : fits(g)}}
  BY DEF Recommended
<1>3. Recommended(u)' = {<<f, score(f)>> : f \in {g \in AllFilms : fitsThen(g)}}
  BY <1>1 DEF Recommended
<1> HIDE DEF score
<1>4. \A g : spokenThen(g) = spoken(g)
  BY <1>1
<1> HIDE DEF spoken, spokenThen
<1>5. {g \in AllFilms : fitsThen(g)} = {g \in AllFilms : fits(g)}
  BY <1>1, <1>4
<1> HIDE DEF fits, fitsThen
<1>6. QED BY <1>2, <1>3, <1>5

LEMMA SameAnswers ==
  ASSUME NEW u, SameFor(u)
  PROVE  UNCHANGED Answers(u)
<1>1. /\ \A f : MediaOf(f)' = MediaOf(f) /\ FilmStates(u, f)' = FilmStates(u, f)
      /\ \A f : AgeAllows(u, f)' <=> AgeAllows(u, f)
      /\ Watched(u)' = Watched(u) /\ ListBlacklist(u)' = ListBlacklist(u)
      /\ users'[u].prefers = users[u].prefers
      /\ WatchHistory(u)' = WatchHistory(u) /\ Recommended(u)' = Recommended(u)
      /\ WatchContinue(u)' = WatchContinue(u) /\ \A s : SeriesContinue(u, s)' = SeriesContinue(u, s)
  BY SameLists, SameOffers, SameRecommended DEF SameFor
<1>2. ASSUME NEW h, NEW family PROVE ListFilms(u, AllFilms, h, family)' = ListFilms(u, AllFilms, h, family)
  BY <1>1 DEF ListFilms
<1>3. ASSUME NEW g PROVE KeywordMood(u, {g})' = KeywordMood(u, {g})
  BY <1>1 DEF KeywordMood
<1>4. LlmMood(AllFilms)' = LlmMood(AllFilms)
  BY DEF LlmMood
<1>5. [family \in BOOLEAN |-> [h \in Heights \cup {None} |-> ListFilms(u, AllFilms, h, family)]]'
      = [family \in BOOLEAN |-> [h \in Heights \cup {None} |-> ListFilms(u, AllFilms, h, family)]]
  BY <1>2
<1>6. [g \in Genres |-> KeywordMood(u, {g})]' = [g \in Genres |-> KeywordMood(u, {g})]
  BY <1>3
<1>7. /\ [f \in AllFilms |-> FilmStates(u, f)]' = [f \in AllFilms |-> FilmStates(u, f)]
      /\ [s \in Series |-> SeriesContinue(u, s)]' = [s \in Series |-> SeriesContinue(u, s)]
  BY <1>1
<1>8. QED BY <1>1, <1>4, <1>5, <1>6, <1>7 DEF Answers

-----------------------------------------------------------------------------
(* Whose event a report of a position is for.                              *)

(* Ids are not used again, so the owner it was loaded with is the owner at *)
(* the commit.                                                             *)
Owned ==
    \A t \in Threads : request[t].kind = "progress" =>
       /\ request[t].event <= serial
       /\ request[t].event \in DOMAIN events => events[request[t].event].user = request[t].user
OwnerInv == ViewInv /\ Owned

LEMMA OwnedKept ==
  ASSUME OwnerInv, ViewInv', serial' \in {serial, serial + 1},
         \A i \in DOMAIN events' : i = serial + 1 \/ (i \in DOMAIN events /\ events'[i].user = events[i].user),
         \A t \in Threads : request'[t].kind = "progress" => request'[t] = request[t]
  PROVE  OwnerInv'
<1>1. ASSUME NEW t \in Threads, request'[t].kind = "progress"
      PROVE  /\ request'[t].event <= serial'
             /\ request'[t].event \in DOMAIN events' => events'[request'[t].event].user = request'[t].user
  <2>1. /\ request'[t] = request[t] /\ request[t].event <= serial
        /\ request[t].event \in DOMAIN events => events[request[t].event].user = request[t].user
    BY <1>1 DEF OwnerInv, Owned
  <2>2. request[t].event \in Nat /\ serial \in Nat
    BY <1>1, <2>1, KindsOfRequest DEF OwnerInv, ViewInv, TypeOK
  <2>3. QED BY <2>1, <2>2
<1>2. QED BY <1>1 DEF OwnerInv, Owned

LEMMA OwnerStep == OwnerInv /\ [Next]_vars => OwnerInv'
<1> SUFFICES ASSUME OwnerInv, [Next]_vars PROVE OwnerInv'
  OBVIOUS
<1>1. ViewInv /\ ViewInv' /\ request \in [Threads -> Request \cup {Idle}] /\ Idle.kind = "idle"
  BY ViewStep DEF OwnerInv, ViewInv, TypeOK, Idle
<1>2. ASSUME NEW t \in Threads, NEW r, LookUp(t, r), r.kind # "progress" PROVE OwnerInv'
  <2>1. /\ serial' = serial /\ events' = events
        /\ \A s \in Threads : request'[s] = IF s = t THEN r ELSE request[s]
    BY <1>1, <1>2 DEF LookUp
  <2>2. QED BY <1>1, <1>2, <2>1, OwnedKept
<1>3. ASSUME NEW t \in Threads, NEW u \in Accounts, NEW i \in DOMAIN events,
             NEW p \in 0..MaxPosition, LoadEvent(t, u, i, p)
      PROVE  OwnerInv'
  <2>1. /\ serial' = serial /\ events' = events /\ events[i].user = u /\ i <= serial
        /\ \A s \in Threads : request'[s] =
             IF s = t THEN [kind |-> "progress", user |-> u, event |-> i,
                            was |-> events[i].position, position |-> p, private |-> events[i].private]
             ELSE request[s]
    BY <1>1, <1>3 DEF LoadEvent, LookUp, ViewInv, TypeOK
  <2>2. Owned'
    BY <2>1 DEF Owned, OwnerInv
  <2>3. QED BY <1>1, <2>2 DEF OwnerInv
<1>4. ASSUME NEW t \in Threads, Answer(t), serial' = serial,
             \A i \in DOMAIN events' : i \in DOMAIN events /\ events'[i].user = events[i].user
      PROVE  OwnerInv'
  <2>1. \A s \in Threads : request'[s] = IF s = t THEN Idle ELSE request[s]
    BY <1>1, <1>4, AnswerFrees
  <2>2. QED BY <1>1, <1>4, <2>1, OwnedKept
<1>5. ASSUME NEW t \in Threads, InsertEvent(t) PROVE OwnerInv'
  <2>1. \A s \in Threads : request'[s] = IF s = t THEN Idle ELSE request[s]
    BY <1>1, <1>5, AnswerFrees DEF InsertEvent
  <2>2. serial' = serial + 1
    BY <1>5 DEF InsertEvent
  <2>3. \A i \in DOMAIN events' : i = serial + 1 \/ (i \in DOMAIN events /\ events'[i].user = events[i].user)
    BY <1>5 DEF InsertEvent
  <2>4. QED BY <1>1, <2>1, <2>2, <2>3, OwnedKept
<1>6. ASSUME NEW t \in Threads, CommitPosition(t) PROVE OwnerInv'
  <2>1. Answer(t) /\ serial' = serial
    BY <1>6 DEF CommitPosition
  <2>2. \A i \in DOMAIN events' : i \in DOMAIN events /\ events'[i].user = events[i].user
    BY <1>1, <1>6 DEF CommitPosition, ViewInv, TypeOK, WatchEvent
  <2>3. QED BY <1>4, <2>1, <2>2
<1>7. ASSUME NEW t \in Threads, CommitHidden(t) \/ InsertUser(t) PROVE OwnerInv'
  BY <1>4, <1>7 DEF CommitHidden, InsertUser
<1>8. ASSUME serial' = serial, request' = request,
             \A i \in DOMAIN events' : i \in DOMAIN events /\ events'[i].user = events[i].user
      PROVE  OwnerInv'
  BY <1>1, <1>8, OwnedKept
<1>9. ASSUME NEW u \in Accounts, ByUser(u) PROVE OwnerInv'
  <2>1. ASSUME NEW t \in Threads, NEW m \in media, LookForEvent(t, u, m) PROVE OwnerInv'
    BY <1>2, <2>1 DEF LookForEvent
  <2>2. ASSUME NEW t \in Threads, NEW f \in AllFilms, LookForHidden(t, u, f) PROVE OwnerInv'
    BY <1>2, <2>2 DEF LookForHidden
  <2>3. ASSUME NEW p \in Switches, SetPreference(u, p) PROVE OwnerInv'
    BY <1>8, <2>3 DEF SetPreference
  <2>4. ASSUME NEW fs, ClearWatchHistory(u, fs) PROVE OwnerInv'
    BY <1>8, <2>4 DEF ClearWatchHistory, Delete
  <2>5. ASSUME NEW m \in media, ResumeEvent(u, m) PROVE OwnerInv'
    BY <1>1, <1>8, <2>5, ResumeMarks
  <2>6. QED BY <1>3, <1>5, <1>6, <1>7, <1>9, <2>1, <2>2, <2>3, <2>4, <2>5 DEF ByUser
<1>10. ASSUME NEW u \in Accounts, ByAdmin(u) PROVE OwnerInv'
  <2>1. ASSUME NEW w, NEW fs, ClearWatchHistory(w, fs) PROVE OwnerInv'
    BY <1>8, <2>1 DEF ClearWatchHistory, Delete
  <2>2. ASSUME NEW w, AdminUpdateUser(u, w) PROVE OwnerInv'
    BY <1>8, <2>2 DEF AdminUpdateUser
  <2>3. QED BY <1>10, <2>1, <2>2 DEF ByAdmin, AdminClearUserStats
<1>11. ASSUME NEW t \in Threads, Registration(t) PROVE OwnerInv'
  BY <1>2, <1>7, <1>11 DEF Registration, Register, AdminCreateUser, LookForName
<1>12. ASSUME NEW m \in AllMedia, DeleteMedium(m) PROVE OwnerInv'
  BY <1>8, <1>12 DEF DeleteMedium, Delete
<1>13. CASE UNCHANGED vars
  BY <1>8, <1>13 DEF vars
<1>14. QED BY <1>9, <1>10, <1>11, <1>12, <1>13 DEF Next

LEMMA OwnerInvariant == Spec => []OwnerInv
<1>1. Init => OwnerInv
  BY ViewInit DEF Init, Idle, OwnerInv, Owned
<1>2. QED BY <1>1, OwnerStep, PTL DEF Spec

(* What one user does, the other does not see: the tables are shared, and  *)
(* every query and every update of users.py, media.py, catalog.py and      *)
(* series.py is confined to the user's rows.                               *)
THEOREM OthersSeeNothing == Spec => OthersAreUndisturbed
<1>1. ASSUME OwnerInv, [Next]_vars, NEW u \in Accounts, ByUser(u), NEW w \in Accounts \ {u}
      PROVE  SameFor(w)
  <2>1. /\ users \in Seq(User) /\ DOMAIN events \subseteq 1..serial /\ serial \in Nat
        /\ request \in [Threads -> Request \cup {Idle}]
    BY <1>1 DEF OwnerInv, ViewInv, TypeOK
  <2>2. ASSUME UNCHANGED <<users, media, events, hidden>> PROVE SameFor(w)
    BY <2>2 DEF SameFor, VisibleEvents, ListBlacklist
  <2>3. ASSUME NEW t \in Threads, InsertEvent(t), request[t].user = u PROVE SameFor(w)
    <3>1. /\ UNCHANGED <<users, media, hidden>>
          /\ DOMAIN events \subseteq DOMAIN events'
          /\ \A i \in DOMAIN events' : IF i \in DOMAIN events THEN events'[i] = events[i]
                                       ELSE events'[i].user = u
      BY <2>3 DEF InsertEvent
    <3>2. QED BY <1>1, <3>1 DEF SameFor, VisibleEvents, ListBlacklist
  <2>4. ASSUME NEW t \in Threads, CommitPosition(t), request[t].user = u PROVE SameFor(w)
    <3>1. /\ UNCHANGED <<users, media, hidden>> /\ DOMAIN events' = DOMAIN events
          /\ \A i \in DOMAIN events : i # request[t].event => events'[i] = events[i]
      BY <2>4 DEF CommitPosition
    <3>2. request[t].event \in DOMAIN events =>
            events[request[t].event].user = u /\ events'[request[t].event].user = u
      BY <1>1, <2>4 DEF CommitPosition, OwnerInv, Owned, ViewInv, TypeOK, WatchEvent
    <3>3. QED BY <1>1, <3>1, <3>2 DEF SameFor, VisibleEvents, ListBlacklist
  <2>5. ASSUME NEW t \in Threads, CommitHidden(t), request[t].user = u PROVE SameFor(w)
    <3>1. /\ UNCHANGED <<users, media, events>>
          /\ \A f : <<w, f>> \in hidden' <=> <<w, f>> \in hidden
      BY <1>1, <2>5 DEF CommitHidden
    <3>2. QED BY <3>1 DEF SameFor, VisibleEvents, ListBlacklist
  <2>6. ASSUME NEW p \in Switches, SetPreference(u, p) PROVE SameFor(w)
    <3>1. UNCHANGED <<media, events, hidden>> /\ users'[w] = users[w]
      BY <1>1, <2>1, <2>6 DEF SetPreference, Accounts
    <3>2. QED BY <3>1 DEF SameFor, VisibleEvents, ListBlacklist
  <2>7. ASSUME NEW fs, ClearWatchHistory(u, fs) PROVE SameFor(w)
    <3>1. UNCHANGED <<users, media, hidden>>
      BY <2>7 DEF ClearWatchHistory
    <3>2. /\ DOMAIN events' \subseteq DOMAIN events
          /\ \A i \in DOMAIN events' : events'[i] = events[i]
          /\ \A i \in DOMAIN events : events[i].user = w => i \in DOMAIN events'
      BY <1>1, <2>7 DEF ClearWatchHistory, Delete, VisibleEvents
    <3>3. QED BY <3>1, <3>2 DEF SameFor, VisibleEvents, ListBlacklist
  <2>8. ASSUME NEW m \in media, ResumeEvent(u, m) PROVE SameFor(w)
    <3>1. /\ UNCHANGED <<users, media, hidden>> /\ DOMAIN events' = DOMAIN events
          /\ \A i \in DOMAIN events : events'[i].user = events[i].user
          /\ \A i \in DOMAIN events : events[i].user = w => events'[i] = events[i]
      BY <1>1, <2>8, ResumeMarks DEF OwnerInv
    <3>2. QED BY <3>1 DEF SameFor, VisibleEvents, ListBlacklist
  <2>9. QED BY <1>1, <2>2, <2>3, <2>4, <2>5, <2>6, <2>7, <2>8
           DEF ByUser, LookForEvent, LoadEvent, LookForHidden, LookUp
<1>2. OwnerInv /\ [Next]_vars =>
        [\A u \in Accounts : ByUser(u) => \A w \in Accounts \ {u} : UNCHANGED Answers(w)]_vars
  BY <1>1, SameAnswers
<1>3. QED BY <1>2, OwnerInvariant, PTL DEF Spec, OthersAreUndisturbed

-----------------------------------------------------------------------------
(* Incognito mode.                                                         *)

(* A request that ends started as it was, so it is its own commit that     *)
(* ends it.                                                                *)
LEMMA EndsByItsCommit ==
  ASSUME ViewInv, [Next]_vars, NEW t \in Threads, request'[t] = Idle,
         request[t].kind \in {"start", "progress"}
  PROVE  InsertEvent(t) \/ CommitPosition(t)
<1>1. request \in [Threads -> Request \cup {Idle}] /\ Idle.kind = "idle"
  BY DEF ViewInv, TypeOK, Idle
<1>2. request'[t] # request[t]
  BY <1>1
<1>3. ASSUME NEW s \in Threads, NEW r, LookUp(s, r) PROVE FALSE
  <2>1. request[s] = Idle /\ request' = [request EXCEPT ![s] = r]
    BY <1>3 DEF LookUp
  <2>2. s # t
    BY <1>1, <2>1
  <2>3. QED BY <1>1, <1>2, <2>1, <2>2
<1>4. ASSUME NEW s \in Threads, Answer(s) PROVE s = t
  BY <1>1, <1>2, <1>4 DEF Answer
<1>5. request' # request
  BY <1>2
<1>6. ASSUME NEW u \in Accounts, ByUser(u) PROVE InsertEvent(t) \/ CommitPosition(t)
  <2>1. ASSUME NEW s \in Threads, InsertEvent(s) \/ CommitPosition(s) \/ CommitHidden(s)
        PROVE  InsertEvent(t) \/ CommitPosition(t)
    BY <1>4, <2>1 DEF InsertEvent, CommitPosition, CommitHidden
  <2>2. QED BY <1>3, <1>5, <1>6, <2>1
           DEF ByUser, ResumeEvent, LookForEvent, LoadEvent, LookForHidden, SetPreference,
               ClearWatchHistory
<1>7. ~\E u \in Accounts : ByAdmin(u)
  BY <1>5 DEF ByAdmin, AdminUpdateUser, AdminClearUserStats, ClearWatchHistory
<1>8. ASSUME NEW s \in Threads, Registration(s) PROVE FALSE
  BY <1>3, <1>4, <1>8 DEF Registration, Register, AdminCreateUser, LookForName, InsertUser
<1>9. ~\E m \in AllMedia : DeleteMedium(m)
  BY <1>5 DEF DeleteMedium
<1>10. QED BY <1>5, <1>6, <1>7, <1>8, <1>9 DEF Next, vars

(* The events that are not incognito stay as they are.                     *)
NoTrace ==
    /\ UNCHANGED <<users, media, hidden>>
    /\ {i \in DOMAIN events' : ~events'[i].incognito} = {i \in DOMAIN events : ~events[i].incognito}
    /\ \A i \in DOMAIN events : ~events[i].incognito => events'[i] = events[i]

LEMMA SameForEveryone ==
  ASSUME NoTrace
  PROVE  UNCHANGED Everyone
<1> DEFINE Open == {i \in DOMAIN events : ~events[i].incognito}
           OpenThen == {i \in DOMAIN events' : ~events'[i].incognito}
<1>1. OpenThen = Open /\ \A i \in Open : events'[i] = events[i]
  BY DEF NoTrace
<1>2. ASSUME NEW u PROVE SameFor(u)
  <2>1. VisibleEvents(u) = {i \in Open : events[i].user = u}
        /\ VisibleEvents(u)' = {i \in OpenThen : events'[i].user = u}
    BY DEF VisibleEvents
  <2>2. VisibleEvents(u)' = VisibleEvents(u)
    BY <1>1, <2>1
  <2>3. QED BY <1>1, <2>1, <2>2 DEF SameFor, NoTrace, ListBlacklist
<1>3. Accounts' = Accounts
  BY DEF Accounts, NoTrace
<1>4. [u \in Accounts |-> Answers(u)]' = [u \in Accounts |-> Answers(u)]
  BY <1>2, <1>3, SameAnswers
<1>5. ListFilms(None, AllFilms, None, FALSE)' = ListFilms(None, AllFilms, None, FALSE)
  BY DEF ListFilms
<1>6. WatchStats' = WatchStats
  BY <1>1 DEF WatchStats
<1>7. StatsSummary' = StatsSummary
  <2>1. ASSUME NEW u
        PROVE  {events'[i].medium : i \in VisibleEvents(u)'} = {events[i].medium : i \in VisibleEvents(u)}
    BY <1>2 DEF SameFor
  <2>2. QED BY <1>3, <2>1 DEF StatsSummary
<1>8. QED BY <1>4, <1>5, <1>6, <1>7 DEF Everyone

(* Nothing that anybody can ask for shows an event made in incognito mode: *)
(* neither its insert nor the positions reported for it.                   *)
THEOREM IncognitoIsUnseen == Spec => IncognitoEventsAreUnseen
<1>1. ASSUME ViewInv, [Next]_vars, NEW t \in Threads, request'[t] = Idle,
             request[t].kind = "start", request[t].incognito
      PROVE  NoTrace
  <2>1. InsertEvent(t)
    BY <1>1, EndsByItsCommit DEF CommitPosition
  <2>2. /\ UNCHANGED <<users, media, hidden>>
        /\ DOMAIN events \subseteq DOMAIN events'
        /\ \A i \in DOMAIN events' : IF i \in DOMAIN events THEN events'[i] = events[i]
                                     ELSE events'[i].incognito = request[t].incognito
    BY <2>1 DEF InsertEvent
  <2>3. QED BY <1>1, <2>2 DEF NoTrace
<1>2. ASSUME ViewInv, [Next]_vars, NEW t \in Threads, request'[t] = Idle,
             request[t].kind = "progress", request[t].event \in DOMAIN events,
             events[request[t].event].incognito
      PROVE  NoTrace
  <2>1. CommitPosition(t)
    BY <1>2, EndsByItsCommit DEF InsertEvent
  <2>2. /\ UNCHANGED <<users, media, hidden>> /\ DOMAIN events' = DOMAIN events
        /\ \A i \in DOMAIN events : i # request[t].event => events'[i] = events[i]
    BY <2>1 DEF CommitPosition
  <2>3. events'[request[t].event].incognito
    BY <1>2, <2>1 DEF CommitPosition, ViewInv, TypeOK, WatchEvent
  <2>4. QED BY <1>2, <2>2, <2>3 DEF NoTrace
<1>3. ViewInv /\ [Next]_vars =>
        [\A t \in Threads :
           (/\ request'[t] = Idle
            /\ \/ request[t].kind = "start" /\ request[t].incognito
               \/ /\ request[t].kind = "progress" /\ request[t].event \in DOMAIN events
                  /\ events[request[t].event].incognito)
           => UNCHANGED Everyone]_vars
  BY <1>1, <1>2, SameForEveryone
<1>4. QED BY <1>3, ViewInvariant, PTL DEF Spec, IncognitoEventsAreUnseen

=============================================================================
