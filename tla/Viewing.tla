------------------------------- MODULE Viewing -------------------------------
(***************************************************************************)
(* Accounts, watch events, hidden films and everything the catalogue and   *)
(* the profile show of them (api/auth.py, users.py, catalog.py, series.py, *)
(* media.py, and the users and watch statistics of api/admin.py).          *)
(*                                                                         *)
(* A request that writes first looks at the tables and then commits, in    *)
(* two steps of one of the server's threads; what its statements find at   *)
(* the commit is what the database holds then.  Requests with one writing  *)
(* statement are one step.  Requests that only read are operators: what    *)
(* they answer in the present state, before it is cut into pages.  Where a *)
(* query has no ORDER BY, the operator gives all rows it may pick.         *)
(***************************************************************************)
EXTENDS FiniteSets, Naturals, Sequences

CONSTANTS
    Threads,      \* request threads of the server
    Names,        \* user names
    AllFilms,     \* films of the library
    FilmRow,      \* their columns that no request of this module changes
    MediaRow,     \* media files: film, height, audio
    MaxUsers,     \* bound: accounts
    MaxRequests,  \* bound: requests that write
    MaxPosition,  \* bound: playback positions
    First,        \* the accounts at first
    Switches,     \* the preferences that users set
    Ages,         \* the age groups that administrators give
    None

AllMedia == DOMAIN MediaRow
Series == {FilmRow[f].series : f \in AllFilms} \ {None}
Genres == UNION {FilmRow[f].genres : f \in AllFilms}
Heights == {MediaRow[m].height : m \in AllMedia}

Roles == {"admin", "user", "child"}
AgeGroups == {"0_6", "7_12", "13_17"}
Preferences == {"incognito", "excludeFamily", "excludeWatched", "includeExternal", "byLanguage"}
User == [name: Names, role: Roles, age: AgeGroups \cup {None}, prefers: SUBSET Preferences]

ASSUME FirstAssumption ==
    /\ First \in Seq(User) /\ Len(First) <= MaxUsers
    /\ \A u, w \in DOMAIN First : First[u].name = First[w].name => u = w
ASSUME BoundAssumption ==
    IsFiniteSet(Threads) /\ MaxUsers \in Nat /\ MaxRequests \in Nat /\ MaxPosition \in Nat
ASSUME InputAssumption == Switches \subseteq Preferences /\ Ages \subseteq AgeGroups \cup {None}

VARIABLES
    users,    \* the accounts, by id
    media,    \* the media files that exist
    events,   \* the table watch_events, by id
    serial,   \* ids handed out for watch events
    hidden,   \* the table user_film_blacklist
    request,  \* what each thread's request has looked up
    made      \* how many requests were made

vars == <<users, media, events, serial, hidden, request, made>>

Accounts == DOMAIN users

(* Two columns are history: after is the last event id handed out when the *)
(* start request looked for an event, private says that the last start of  *)
(* the event was made in incognito mode (a position carries it along).     *)
WatchEvent == [user: 1..MaxUsers, medium: AllMedia, position: 0..MaxPosition,
               finished: BOOLEAN, incognito: BOOLEAN, after: 0..MaxRequests,
               private: BOOLEAN]

Idle == [kind |-> "idle"]
Request ==
    [kind: {"start"}, user: 1..MaxUsers, medium: AllMedia, incognito: BOOLEAN, after: 0..MaxRequests]
    \cup [kind: {"progress"}, user: 1..MaxUsers, event: 1..MaxRequests,
          was: 0..MaxPosition, position: 0..MaxPosition, private: BOOLEAN]
    \cup [kind: {"hide", "show"}, user: 1..MaxUsers, film: AllFilms]
    \cup [kind: {"register"}, name: Names, role: Roles, age: AgeGroups \cup {None}]

(* A new account excludes family videos from recommendations.              *)
NewUser(name, role, age) ==
    [name |-> name, role |-> role, age |-> age, prefers |-> {"excludeFamily"}]

Init ==
    /\ users = First
    /\ media = AllMedia
    /\ events = <<>> /\ serial = 0
    /\ hidden = {}
    /\ request = [t \in Threads |-> Idle]
    /\ made = 0

-----------------------------------------------------------------------------
(* What a user sees.                                                       *)

FilmOf(m) == MediaRow[m].film
MediaOf(f) == {m \in media : FilmOf(m) = f}
Last(ids) == CHOOSE i \in ids : \A j \in ids : j <= i

(* Every list of a user's events leaves out the incognito ones ...         *)
VisibleEvents(u) == {i \in DOMAIN events : events[i].user = u /\ ~events[i].incognito}
UnfinishedVisible(u) == {i \in VisibleEvents(u) : ~events[i].finished}
(* ... but the search for the event to resume does not.                    *)
(* Mutant: it does, as the lists do.                                       *)
ExistingInMode(u, m) ==
    {i \in DOMAIN events : /\ events[i].user = u /\ events[i].medium = m /\ ~events[i].finished
                           /\ events[i].incognito = ("incognito" \in users[u].prefers)}
(* Mutant: only an event with a position is resumed.                       *)
ExistingBegun(u, m) ==
    {i \in DOMAIN events : /\ events[i].user = u /\ events[i].medium = m /\ ~events[i].finished
                           /\ events[i].position > 0}
Existing(u, m) ==
    {i \in DOMAIN events : events[i].user = u /\ events[i].medium = m /\ ~events[i].finished}

Watched(u) == {FilmOf(events[i].medium) : i \in VisibleEvents(u)}
Finished(u) == {FilmOf(events[i].medium) : i \in {j \in VisibleEvents(u) : events[j].finished}}
ListBlacklist(u) == {f \in AllFilms : <<u, f>> \in hidden}

(* Ages: ratings that are not in the table (such as PG-13) are for no      *)
(* child, films without a rating are for everybody, and so is everything   *)
(* for a child without an age group.                                       *)
AgeGroupMax == [g \in AgeGroups |-> CASE g = "0_6" -> 6 [] g = "7_12" -> 12 [] g = "13_17" -> 16]
AgeRatingValue == [r \in {"0+", "6+", "12+", "16+", "18+"} |->
    CASE r = "0+" -> 0 [] r = "6+" -> 6 [] r = "12+" -> 12 [] r = "16+" -> 16 [] r = "18+" -> 18]
AgeAllows(u, f) ==
    LET rating == FilmRow[f].rating
    IN  \/ users[u].role # "child" \/ users[u].age = None \/ rating = None
        \/ rating \in DOMAIN AgeRatingValue /\ AgeRatingValue[rating] <= AgeGroupMax[users[u].age]

(* GET /films: wanted stands for the columns the client filters by; a      *)
(* resolution that the table of labels does not have (None) filters        *)
(* nothing.  u is None for a client that is not logged in.                 *)
ListFilms(u, wanted, height, includeFamily) ==
    {f \in AllFilms \cap wanted :
        /\ height # None => \E m \in MediaOf(f) : MediaRow[m].height >= height
        /\ includeFamily \/ ~FilmRow[f].family
        /\ u # None => /\ AgeAllows(u, f)
                       /\ f \notin ListBlacklist(u)
                       /\ "excludeWatched" \in users[u].prefers => f \notin Watched(u)}

(* POST /me/recommendations/by-mood without an LLM, or when it fails.      *)
KeywordMood(u, genres) ==
    {f \in AllFilms : FilmRow[f].genres \cap genres # {} /\ f \notin Watched(u) \cup ListBlacklist(u)}
(* With one, any film of the library may come back.                        *)
LlmMood(named) == AllFilms \cap named

(* The audio codecs most of a user's events have.                          *)
TopAudio(u) ==
    LET codecs == {MediaRow[events[i].medium].audio : i \in VisibleEvents(u)} \ {None}
        Count(c) == Cardinality({i \in VisibleEvents(u) : MediaRow[events[i].medium].audio = c})
    IN  {c \in codecs : \A d \in codecs : Count(d) <= Count(c)}

(* GET /me/recommendations: all films that score, with the score.          *)
Recommended(u) ==
    LET taste == UNION {FilmRow[f].genres : f \in Finished(u)}
        cast == UNION {FilmRow[f].persons : f \in Finished(u)}
        score(f) == 4 * Cardinality(FilmRow[f].genres \cap taste)
                    + 3 * Cardinality(FilmRow[f].persons \cap cast)
        spoken(f) == {MediaRow[m].audio : m \in MediaOf(f)}
    IN  {<<f, score(f)>> : f \in {g \in AllFilms \ (Watched(u) \cup ListBlacklist(u)) :
           /\ score(g) > 0
           /\ AgeAllows(u, g)
           /\ "excludeFamily" \in users[u].prefers => ~FilmRow[g].family
           /\ "byLanguage" \in users[u].prefers =>
                TopAudio(u) = {} \/ spoken(g) \cap TopAudio(u) # {}}}

(* GET /me/watch/history, newest first; GET /media/watch/continue has the  *)
(* newest event of each film that has a position.                          *)
WatchHistory(u) == {<<i, FilmOf(events[i].medium), events[i].position>> : i \in VisibleEvents(u)}
WatchContinue(u) ==
    LET begun(f) == {i \in UnfinishedVisible(u) : events[i].position > 0 /\ FilmOf(events[i].medium) = f}
    IN  {Last(begun(f)) : f \in {g \in AllFilms : begun(g) # {}}}

(* POST /media/watch/states-by-film: only one file of one edition of the   *)
(* film is looked at, and of several events of it the last that came.      *)
(* Mutant: without the filter on incognito events.                         *)
FilmStatesUnfiltered(u, f) ==
    {i \in DOMAIN events : events[i].user = u /\ FilmOf(events[i].medium) = f}
FilmStates(u, f) == {i \in UnfinishedVisible(u) : FilmOf(events[i].medium) = f}

(* GET /series/{id}/continue                                               *)
SeriesContinue(u, s) ==
    LET begun == {i \in UnfinishedVisible(u) : FilmRow[FilmOf(events[i].medium)].series = s}
    IN  IF begun = {} THEN {} ELSE {Last(begun)}

(* GET /admin/watch-stats and its summary, which counts files.             *)
WatchStats == {<<i, events[i].user, FilmOf(events[i].medium), events[i].finished>> :
                 i \in {j \in DOMAIN events : ~events[j].incognito}}
StatsSummary == [u \in Accounts |-> Cardinality({events[i].medium : i \in VisibleEvents(u)})]

-----------------------------------------------------------------------------
(* Requests that write.                                                    *)

NewRequest == made < MaxRequests /\ made' = made + 1

(* The thread's request looks something up and goes on to its commit.      *)
LookUp(t, r) ==
    /\ request[t] = Idle /\ NewRequest
    /\ request' = [request EXCEPT ![t] = r]
    /\ UNCHANGED <<users, media, events, serial, hidden>>

Answer(t) == request' = [request EXCEPT ![t] = Idle] /\ UNCHANGED made

(* POST /media/{id}/watch/start: an unfinished event is resumed, whatever  *)
(* the mode, and nothing is written ...                                    *)
ResumeEvent(u, m) ==
    /\ m \in media
    /\ \E i \in Existing(u, m) :
         events' = [events EXCEPT ![i].private = "incognito" \in users[u].prefers]
    /\ UNCHANGED <<users, media, serial, hidden, request, made>>

(* ... or there is none.                                                   *)
LookForEvent(t, u, m) ==
    /\ m \in media /\ Existing(u, m) = {}
    /\ LookUp(t, [kind |-> "start", user |-> u, medium |-> m, after |-> serial,
                  incognito |-> "incognito" \in users[u].prefers])

(* The insert; the foreign key refuses it when the file is gone.           *)
InsertEvent(t) ==
    /\ request[t].kind = "start"
    /\ events' = IF request[t].medium \notin media THEN events
                 ELSE [i \in DOMAIN events \cup {serial + 1} |->
                         IF i \in DOMAIN events THEN events[i]
                         ELSE [user |-> request[t].user, medium |-> request[t].medium, position |-> 0,
                               finished |-> FALSE, incognito |-> request[t].incognito,
                               after |-> request[t].after, private |-> request[t].incognito]]
    /\ serial' = serial + 1
    /\ Answer(t) /\ UNCHANGED <<users, media, hidden>>

(* PATCH /media/{id}/watch/{event}/progress: the file in the path is not   *)
(* compared with the event's.                                              *)
(* Mutant: nor is the owner.                                               *)
LoadAnyEvent(t, u, i, position) ==
    LookUp(t, [kind |-> "progress", user |-> u, event |-> i,
               was |-> events[i].position, position |-> position, private |-> events[i].private])
LoadEvent(t, u, i, position) ==
    /\ events[i].user = u
    /\ LookUp(t, [kind |-> "progress", user |-> u, event |-> i,
                  was |-> events[i].position, position |-> position, private |-> events[i].private])

(* A position that is not new is not written; an event deleted meanwhile   *)
(* makes the commit fail.                                                  *)
(* Mutant: the deleted event is inserted again.                            *)
MergePosition(t) ==
    /\ request[t].kind = "progress"
    /\ LET i == request[t].event
       IN  events' = IF request[t].position = request[t].was THEN events
                     ELSE IF i \in DOMAIN events
                     THEN [events EXCEPT ![i].position = request[t].position]
                     ELSE [j \in DOMAIN events \cup {i} |->
                             IF j # i THEN events[j]
                             ELSE [user |-> request[t].user, medium |-> CHOOSE m \in media : TRUE,
                                   position |-> request[t].position, finished |-> FALSE,
                                   incognito |-> FALSE, after |-> 0, private |-> FALSE]]
    /\ Answer(t) /\ UNCHANGED <<users, media, serial, hidden>>
CommitPosition(t) ==
    /\ request[t].kind = "progress"
    /\ LET i == request[t].event
       IN  events' = IF request[t].position = request[t].was \/ i \notin DOMAIN events THEN events
                     ELSE [events EXCEPT ![i].position = request[t].position]
    /\ Answer(t) /\ UNCHANGED <<users, media, serial, hidden>>

(* POST and DELETE /me/blacklist/{film_id}                                 *)
LookForHidden(t, u, f) ==
    \/ <<u, f>> \notin hidden /\ LookUp(t, [kind |-> "hide", user |-> u, film |-> f])
    \/ <<u, f>> \in hidden /\ LookUp(t, [kind |-> "show", user |-> u, film |-> f])

(* A second insert violates the primary key, and a second delete finds no  *)
(* row.                                                                    *)
CommitHidden(t) ==
    /\ request[t].kind \in {"hide", "show"}
    /\ LET row == <<request[t].user, request[t].film>>
       IN  hidden' = IF request[t].kind = "show" THEN hidden \ {row} ELSE hidden \cup {row}
    /\ Answer(t) /\ UNCHANGED <<users, media, events, serial>>

(* POST /auth/register and POST /admin/users                               *)
NameTaken(name) == \E u \in Accounts : users[u].name = name
LookForName(t, name, role, age) ==
    /\ Len(users) + Cardinality({s \in Threads : request[s].kind = "register"}) < MaxUsers
    /\ ~NameTaken(name)
    /\ LookUp(t, [kind |-> "register", name |-> name, role |-> role, age |-> age])
Register(t, name) == LookForName(t, name, "user", None)
AdminCreateUser(t, name) ==
    /\ \E a \in Accounts : users[a].role = "admin"
    /\ \E role \in {"user", "child"}, age \in Ages : LookForName(t, name, role, age)

(* Mutant: the table has no unique key on names.                           *)
InsertUserAnyway(t) ==
    /\ request[t].kind = "register"
    /\ users' = Append(users, NewUser(request[t].name, request[t].role, request[t].age))
    /\ Answer(t) /\ UNCHANGED <<media, events, serial, hidden>>
InsertUser(t) ==
    /\ request[t].kind = "register"
    /\ users' = IF NameTaken(request[t].name) THEN users
                ELSE Append(users, NewUser(request[t].name, request[t].role, request[t].age))
    /\ Answer(t) /\ UNCHANGED <<media, events, serial, hidden>>

(* PUT /me/incognito, /exclude-family, /exclude-watched, ...               *)
SetPreference(u, p) ==
    /\ NewRequest
    /\ \E on \in BOOLEAN :
         users' = [users EXCEPT ![u].prefers = IF on THEN @ \cup {p} ELSE @ \ {p}]
    /\ UNCHANGED <<media, events, serial, hidden, request>>

(* PUT /admin/users/{user_id}                                              *)
AdminUpdateUser(a, u) ==
    /\ users[a].role = "admin" /\ NewRequest
    /\ \E age \in Ages : users' = [users EXCEPT ![u].age = age]
    /\ UNCHANGED <<media, events, serial, hidden, request>>

Delete(ids) == events' = [i \in DOMAIN events \ ids |-> events[i]]

(* DELETE /me/watch/history, and with a film /me/watch/history/{film_id};  *)
(* DELETE /admin/watch-stats/{user_id} does the former for a user.         *)
ClearWatchHistory(u, fs) ==
    /\ NewRequest
    /\ Delete({i \in VisibleEvents(u) : FilmOf(events[i].medium) \in fs})
    /\ UNCHANGED <<users, media, serial, hidden, request>>
AdminClearUserStats(a, u) == users[a].role = "admin" /\ ClearWatchHistory(u, AllFilms)

(* Mutant: without ON DELETE CASCADE.                                      *)
DeleteMediumOnly(m) ==
    /\ m \in media /\ NewRequest
    /\ media' = media \ {m}
    /\ UNCHANGED <<users, events, serial, hidden, request>>

(* A file's row is deleted; its events go with it (ON DELETE CASCADE).     *)
(* Nothing deletes a film.                                                 *)
DeleteMedium(m) ==
    /\ m \in media /\ NewRequest
    /\ media' = media \ {m}
    /\ Delete({i \in DOMAIN events : events[i].medium = m})
    /\ UNCHANGED <<users, serial, hidden, request>>

-----------------------------------------------------------------------------
(* What a user's own requests do.                                          *)
ByUser(u) ==
    \/ \E m \in media : ResumeEvent(u, m)
    \/ \E t \in Threads :
         \/ \E m \in media : LookForEvent(t, u, m)
         \/ \E i \in DOMAIN events, p \in 0..MaxPosition : LoadEvent(t, u, i, p)
         \/ \E f \in AllFilms : LookForHidden(t, u, f)
         \/ /\ request[t].kind \in {"start", "progress", "hide", "show"}
            /\ request[t].user = u
            /\ InsertEvent(t) \/ CommitPosition(t) \/ CommitHidden(t)
    \/ \E p \in Switches : SetPreference(u, p)
    \/ \E fs \in {AllFilms} \cup {{f} : f \in AllFilms} : ClearWatchHistory(u, fs)

ByAdmin(a) == \E u \in Accounts : AdminUpdateUser(a, u) \/ AdminClearUserStats(a, u)

Registration(t) ==
    (\E name \in Names : Register(t, name) \/ AdminCreateUser(t, name)) \/ InsertUser(t)

Next ==
    \/ \E u \in Accounts : ByUser(u) \/ ByAdmin(u)
    \/ \E t \in Threads : Registration(t)
    \/ \E m \in AllMedia : DeleteMedium(m)

Spec == Init /\ [][Next]_vars

-----------------------------------------------------------------------------
(* Properties.                                                             *)

(* The tables and requests have their types, and the foreign keys hold: an *)
(* event's file and a hidden row's film exist (watch_history reads them    *)
(* without a test).                                                        *)
TypeOK ==
    /\ users \in Seq(User) /\ Len(users) <= MaxUsers
    /\ media \subseteq AllMedia
    /\ serial \in 0..MaxRequests /\ made \in 0..MaxRequests
    /\ DOMAIN events \subseteq 1..serial
    /\ \A i \in DOMAIN events :
         events[i] \in WatchEvent /\ events[i].user \in Accounts /\ events[i].medium \in media
    /\ hidden \subseteq Accounts \X AllFilms
    /\ request \in [Threads -> Request \cup {Idle}]

(* A name belongs to one account, whatever registrations overlap (login    *)
(* takes the first account of a name).                                     *)
OneAccountPerName == \A u, w \in Accounts : users[u].name = users[w].name => u = w

(* A user has a second unfinished event for a file only if the first was   *)
(* inserted while the request for the second was under way: "creates a new *)
(* WatchEvent if none exists for this user and media file", between modes  *)
(* too.                                                                    *)
SecondEventOnlyByRace ==
    \A i, j \in DOMAIN events :
       (/\ i < j /\ events[i].user = events[j].user /\ events[i].medium = events[j].medium
        /\ ~events[i].finished /\ ~events[j].finished)
       => i > events[j].after

(* Wherever a film is offered for resuming (the continue list, the state   *)
(* on its card, the series page), a start of that file resumes the very    *)
(* event offered, unless requests raced for it.                            *)
Offers(u) ==
    WatchContinue(u) \cup (UNION {FilmStates(u, f) : f \in AllFilms})
    \cup (UNION {SeriesContinue(u, s) : s \in Series})
Resumed(u, i) ==
    LET found == Existing(u, events[i].medium)
    IN  found = {i} \/ \E j \in found \ {i} : j > events[i].after /\ i > events[j].after
OffersAreResumed == \A u \in Accounts : \A i \in Offers(u) : Resumed(u, i)

(* An event that was cleared, or went with its file, never comes back, not *)
(* even by a position reported late.                                       *)
ClearedStaysCleared ==
    [][\A i \in 1..serial : i \notin DOMAIN events => i \notin DOMAIN events']_vars

Answers(u) ==
    <<[family \in BOOLEAN |-> [h \in Heights \cup {None} |-> ListFilms(u, AllFilms, h, family)]],
      [g \in Genres |-> KeywordMood(u, {g})], LlmMood(AllFilms), Recommended(u), ListBlacklist(u),
      WatchHistory(u), WatchContinue(u), [f \in AllFilms |-> FilmStates(u, f)],
      [s \in Series |-> SeriesContinue(u, s)]>>
Everyone == <<[u \in Accounts |-> Answers(u)], ListFilms(None, AllFilms, None, FALSE),
              WatchStats, StatsSummary>>

(* An event made in incognito mode stays out of every list for good: its   *)
(* insert and the positions reported for it, in whatever mode and however  *)
(* they overlap with changes of the mode, change no answer that anybody    *)
(* gets, be it the history, the continue lists, the cards, the catalogue,  *)
(* the recommendations or the statistics.                                  *)
IncognitoEventsAreUnseen ==
    [][\A t \in Threads :
         (/\ request'[t] = Idle
          /\ \/ request[t].kind = "start" /\ request[t].incognito
             \/ /\ request[t].kind = "progress" /\ request[t].event \in DOMAIN events
                /\ events[request[t].event].incognito)
         => UNCHANGED Everyone]_vars

(* README.md on PUT /me/incognito: viewings "are not saved" ("просмотры    *)
(* не сохраняются").  A viewing that was started in incognito mode changes *)
(* no answer: its positions do when the start has resumed an event that    *)
(* was made before the mode was on.                                        *)
IncognitoViewingsAreNotSaved ==
    [][\A t \in Threads :
         request'[t] = Idle /\ request[t].kind = "progress" /\ request[t].private
         => UNCHANGED Everyone]_vars

(* What a user's requests do changes no answer to another user, whatever   *)
(* is in flight.                                                           *)
OthersAreUndisturbed ==
    [][\A u \in Accounts :
         ByUser(u) => \A w \in Accounts \ {u} : UNCHANGED Answers(w)]_vars

=============================================================================
