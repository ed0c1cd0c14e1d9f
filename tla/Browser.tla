------------------------------ MODULE Browser ------------------------------
(***************************************************************************)
(* One browser, signed in to one account in several tabs (apps/web, lib/   *)
(* auth.ts, refresh-lock.ts, auth-store.ts, idle.ts, pending-sign-out.ts   *)
(* and api-client.ts), over a network that may be slow or lose an answer.  *)
(* The tabs share the cookie jar, which the browser writes as an answer    *)
(* arrives, two values of localStorage and a Web Lock around refreshing.   *)
(*                                                                         *)
(* What a page does between two events is one step; a request is sent,     *)
(* handled by the server (auth.controller.ts, session.service.ts; see      *)
(* Sessions for its transactions) and answered in three.                   *)
(***************************************************************************)
EXTENDS Integers, Sequences, FiniteSets

CONSTANTS
    Tabs,
    MaxCalls,      \* bound on requests under way at once
    MaxFamilies,   \* bound on sign-ins
    MaxTokens,     \* refresh tokens of a session until it expires for good
    MaxLost,       \* bound on answers that never arrive
    Grace,         \* REFRESH_GRACE_MS
    RetryDelay,    \* REFRESH_RETRY_MS
    MaxTick        \* bound on the clock

ASSUME BrowserAssumption ==
    /\ {MaxCalls, MaxFamilies, MaxLost, MaxTick, Grace} \subseteq Nat
    /\ {MaxTokens, RetryDelay} \subseteq Nat \ {0}

VARIABLES
    families,   \* session -> its state and its refresh tokens (server)
    jar,        \* the refresh cookie
    mark,       \* pallet.signOutPending.v1
    record,     \* pallet.lastActivity.v1: none, inside the idle limit, past it
    tab,        \* tab -> its page: the auth store, and when its timer is due
    calls,      \* requests under way
    out,        \* history: the user signed out, and has not signed in since
    crossed,    \* history: a sign-in was not by itself on its way, and none has been since
    lost,       \* how many answers were lost
    tick        \* the time, in ticks

browserVars == <<families, jar, mark, record, tab, calls, out, crossed, lost, tick>>

FamilyIds == 1 .. MaxFamilies
NoCookie  == [family |-> 0, token |-> 0]
Cookies   == [family : FamilyIds, token : 1 .. MaxTokens] \cup {NoCookie}

TokenStates  == {"ACTIVE", "ROTATED", "RETIRED", "REVOKED"}
FamilyStates == {"none", "live", "LOGOUT", "REUSE_DETECTED"}
Pages   == [status : {"closed", "booting", "authenticated", "anonymous"}, due : Nat]
Callers == {"boot", "timer", "request"}
CallRows ==
    [kind    : {"refresh", "logout", "signout", "login"},
     tab     : Tabs,
     stage   : {"queued", "asked", "abandoned", "answered"},
     cookie  : Cookies,                             \* what it was sent with
     sets    : Cookies,                             \* the Set-Cookie of its answer
     ok      : BOOLEAN,                             \* a success, or a refusal
     callers : SUBSET Callers,                      \* who awaits a refresh
     stale   : BOOLEAN,                             \* authStore.endings has moved on
     late    : BOOLEAN]                             \* history: asked for after a sign-out

BrowserTypeOK ==
    /\ families \in [FamilyIds -> [state : FamilyStates,
                                   tokens : Seq([status : TokenStates, at : Nat])]]
    /\ jar \in Cookies /\ mark \in BOOLEAN /\ record \in {"none", "recent", "old"}
    /\ tab \in [Tabs -> Pages]
    /\ calls \subseteq CallRows
    /\ out \in BOOLEAN /\ crossed \in BOOLEAN /\ lost \in 0 .. MaxLost /\ tick \in 0 .. MaxTick

BrowserInit ==
    /\ families = [f \in FamilyIds |-> [state |-> "none", tokens |-> <<>>]]
    /\ jar = NoCookie /\ mark = FALSE /\ record = "none"
    /\ tab = [t \in Tabs |-> [status |-> "closed", due |-> 0]]
    /\ calls = {}
    /\ out = FALSE /\ crossed = FALSE /\ lost = 0 /\ tick = 0
-----------------------------------------------------------------------------
(* The server: session.service rotate on the family its lock protects. *)
Live(f) == f # 0 /\ families[f].state = "live"
Issued(tokens) == Append(tokens, [status |-> "ACTIVE", at |-> 0])
Turn(tokens, n, status) == [tokens EXCEPT ![n] = [status |-> status, at |-> tick]]
Revoked(f, reason) ==
    [families EXCEPT ![f] = [state |-> reason,
        tokens |-> [n \in DOMAIN @.tokens |-> [@.tokens[n] EXCEPT !.status = "REVOKED"]]]]

IsWithinGraceWindow(tokens, n) ==
    /\ tokens[n].status = "ROTATED"
    /\ tick - tokens[n].at <= Grace
    /\ \A m \in DOMAIN tokens : tokens[m].status = "ROTATED" =>
          tokens[m].at < tokens[n].at \/ (tokens[m].at = tokens[n].at /\ m <= n)
Retired(tokens) ==
    [n \in DOMAIN tokens |-> IF tokens[n].status = "ACTIVE"
                             THEN [status |-> "RETIRED", at |-> tick] ELSE tokens[n]]

(* What a rotation makes of the session, and the token it hands out. *)
Rotate(f, n) ==
    LET tokens == families[f].tokens
        with(next) == [families EXCEPT ![f].tokens = Issued(next)]
    IN  IF ~Live(f) \/ Len(tokens) >= MaxTokens THEN families
        ELSE IF tokens[n].status = "ACTIVE" THEN with(Turn(tokens, n, "ROTATED"))
        ELSE IF IsWithinGraceWindow(tokens, n) THEN with(Retired(tokens))
        ELSE Revoked(f, "REUSE_DETECTED")

(* Calls under way are told apart by what they are and how far they got;   *)
(* one nobody awaits any more is only its request.                         *)
Instead(c, d) == (calls \ {c}) \cup {d}
Abandoned(c) == [c EXCEPT !.stage = "abandoned", !.callers = {}, !.stale = FALSE, !.late = FALSE]

(* The answer to call c: what it sets the cookie to, and whether it is a   *)
(* success. Whoever sent an abandoned call hears nothing of it.            *)
Answers(c, cookie, ok) ==
    /\ calls' = IF c.stage = "abandoned" THEN calls \ {c}
                ELSE Instead(c, [c EXCEPT !.stage = "answered", !.sets = cookie, !.ok = ok])
    /\ UNCHANGED <<jar, mark, record, tab, out, lost, tick>>

AtServer(c, kinds) == c.kind \in kinds /\ c.stage \in {"asked", "abandoned"}
ServeRefresh(c) ==
    /\ AtServer(c, {"refresh"})
    /\ LET f == c.cookie.family  n == c.cookie.token
       IN  \/ /\ f = 0
              /\ UNCHANGED families
              /\ Answers(c, NoCookie, FALSE)
           \/ /\ f # 0
              /\ families' = Rotate(f, n)
              /\ LET issued == Len(families'[f].tokens) > Len(families[f].tokens)
                 IN  Answers(c, IF issued THEN [family |-> f, token |-> Len(families'[f].tokens)]
                                ELSE NoCookie, issued)
ServeLogout(c) ==
    /\ AtServer(c, {"logout", "signout"})
    /\ LET f == c.cookie.family
       IN  families' = IF Live(f) THEN Revoked(f, "LOGOUT") ELSE families
    /\ Answers(c, NoCookie, TRUE)
ServeLogin(c) ==
    /\ AtServer(c, {"login"})
    /\ \E f \in FamilyIds :
          /\ families[f].state = "none" /\ \A g \in FamilyIds : g < f => families[g].state # "none"
          /\ families' = [families EXCEPT ![f] = [state |-> "live", tokens |-> Issued(<<>>)]]
          /\ Answers(c, [family |-> f, token |-> 1], TRUE)
-----------------------------------------------------------------------------
(* Pages. *)
Status(t)  == tab[t].status
Own(t)     == {c \in calls : c.tab = t /\ c.stage # "abandoned"}
Sending(t, kind) == {c \in Own(t) : c.kind = kind}
Call(t, kind, stage, callers) ==
    [kind |-> kind, tab |-> t, stage |-> stage,
     cookie |-> IF stage = "asked" THEN jar ELSE NoCookie, sets |-> NoCookie, ok |-> FALSE,
     callers |-> callers, stale |-> FALSE, late |-> kind = "refresh" /\ out]
Calling(rows, call) ==
    /\ Cardinality(rows) < MaxCalls
    /\ calls' = rows \cup {call}

(* authStore.clear: refreshes still under way drop their answers.          *)
Outdated(rows, t) ==
    {IF c.kind = "refresh" /\ c \in Own(t) THEN [c EXCEPT !.stale = TRUE] ELSE c : c \in rows}
Shows(t, status) == tab' = [tab EXCEPT ![t] = [status |-> status, due |-> 0]]

(* tellServerSignedOut on top of the calls `rows`: once at a time. *)
TellServer(t, rows) ==
    IF \E c \in rows : c.tab = t /\ c.kind = "logout" /\ c.stage # "abandoned"
    THEN calls' = rows
    ELSE calls' = rows \cup {Call(t, "logout", "asked", {})}

(* signOutForInactivity. *)
SignOutForInactivity(t, rows) ==
    /\ mark' = TRUE
    /\ TellServer(t, Outdated(rows, t))
    /\ record' = "none"
    /\ Shows(t, "anonymous")
    /\ out' = TRUE

(* hasPendingSignOut: a sign-out the server has not heard of, in any tab.  *)
NeverPending   == FALSE                                             \* mutant
PendingSignOut == mark

(* bootstrapAuth. A pending sign-out is retried and the cookie left alone; *)
(* a session left idle is ended; otherwise the cookie is tried.            *)
Bootstrap(t, rows) ==
    \/ /\ PendingSignOut
       /\ TellServer(t, Outdated(rows, t))
       /\ Shows(t, "anonymous")
       /\ UNCHANGED <<mark, record, out>>
    \/ /\ ~PendingSignOut /\ record = "old"
       /\ SignOutForInactivity(t, rows)
    \/ /\ ~PendingSignOut /\ record # "old"
       /\ Calling(rows, Call(t, "refresh", "queued", {"boot"}))
       /\ Shows(t, "booting")
       /\ UNCHANGED <<mark, record, out>>

(* A page is opened or loaded anew. Nothing of the page before it is left, *)
(* but what it asked the server is still on its way.                       *)
Left(t) == (calls \ Own(t)) \cup {Abandoned(c) : c \in {d \in Own(t) : d.stage = "asked"}}
LostWith(t) == Cardinality({c \in Sending(t, "refresh") : c.stage # "queued"})
Load(t) ==
    /\ lost + LostWith(t) <= MaxLost
    /\ lost' = lost + LostWith(t)
    /\ Bootstrap(t, Left(t))
    /\ UNCHANGED <<families, jar, tick>>
(* The Retry button of the boot error screen. *)
RetryBoot(t) ==
    /\ Status(t) = "booting" /\ Sending(t, "refresh") = {}
    /\ Bootstrap(t, calls)
    /\ UNCHANGED <<families, jar, lost, tick>>

(* refreshAccessToken for a timer or a 401: joins a refresh under way for  *)
(* the same session, or queues one at the lock.                            *)
AskRefresh(t, caller) ==
    /\ \/ \E c \in Sending(t, "refresh") :
             /\ ~c.stale
             /\ calls' = Instead(c, [c EXCEPT !.callers = @ \cup {caller}])
       \/ /\ \A c \in Sending(t, "refresh") : c.stale
          /\ Calling(calls, Call(t, "refresh", "queued", {caller}))
    /\ tab' = [tab EXCEPT ![t].due = 0]
    /\ UNCHANGED <<families, jar, mark, record, out, lost, tick>>
(* refreshQuietly: ahead of expiry, or again after one that was not made.  *)
TimerDue(t) == tab[t].due # 0 /\ tab[t].due <= tick
RefreshQuietly(t) ==
    /\ Status(t) = "authenticated" /\ record # "old"
    /\ tab[t].due = 0 \/ TimerDue(t)
    /\ AskRefresh(t, "timer")
(* withAuthRetry: a request found the access token no longer good. *)
RequestUnauthorized(t) ==
    /\ Status(t) = "authenticated"
    /\ AskRefresh(t, "request")

(* doRefresh, once the lock is granted. *)
NoLock   == TRUE                                                    \* mutant
LockFree == \A c \in calls : c.kind = "refresh" => c.stage \in {"queued", "abandoned"}
AtLock(c) == c.kind = "refresh" /\ c.stage = "queued" /\ LockFree

(* A refresh that says the session is over: a page load starts signed out, *)
(* a request sends the user to the login page, a timer says nothing.       *)
Refused(c, rows) ==
    LET t == c.tab
    IN  IF \/ "boot" \in c.callers
           \/ "request" \in c.callers /\ Status(t) = "authenticated"
        THEN /\ record' = "none"
             /\ calls' = Outdated(rows, t)
             /\ Shows(t, "anonymous")
        ELSE /\ calls' = rows
             /\ UNCHANGED <<record, tab>>
Without(c) == calls \ {c}

Send(c) ==
    /\ AtLock(c)
    /\ \/ /\ ~PendingSignOut
          /\ calls' = Instead(c, [c EXCEPT !.stage = "asked", !.cookie = jar])
          /\ UNCHANGED <<record, tab>>
       \/ /\ PendingSignOut
          /\ Refused(c, Without(c))
    /\ UNCHANGED <<families, jar, mark, out, lost, tick>>

(* An answer arrives: first its cookie, then what the page makes of it.    *)
Arrives(c, kind) == c.kind = kind /\ c.stage = "answered" /\ jar' = c.sets
RenewsAlways(c) == TRUE                                             \* mutant
Renews(c) == ~c.stale
RefreshAnswered(c) ==
    /\ Arrives(c, "refresh")
    /\ IF c.ok /\ Renews(c)
       THEN /\ calls' = Without(c)
            /\ Shows(c.tab, "authenticated")
            /\ record' = IF "boot" \in c.callers THEN "recent" ELSE record
       ELSE Refused(c, Without(c))
    /\ UNCHANGED <<families, mark, out, lost, tick>>
LogoutAnswered(c) ==
    /\ Arrives(c, "logout")
    /\ mark' = FALSE
    /\ calls' = Without(c)
    /\ UNCHANGED <<families, record, tab, out, lost, tick>>

(* logout by the user, and what it ends in whatever the server said. *)
SignOut(t) ==
    /\ Status(t) = "authenticated" /\ Sending(t, "signout") = {}
    /\ Calling(calls, Call(t, "signout", "asked", {}))
    /\ UNCHANGED <<families, jar, mark, record, tab, out, lost, tick>>
SignedOut(c) ==
    /\ record' = "none"
    /\ calls' = Outdated(Without(c), c.tab)
    /\ Shows(c.tab, "anonymous")
    /\ out' = TRUE
SignOutAnswered(c) ==
    /\ Arrives(c, "signout")
    /\ mark' = FALSE
    /\ SignedOut(c)
    /\ UNCHANGED <<families, lost, tick>>

(* login: after the sign-out this page still has under way. *)
SignIn(t) ==
    /\ Status(t) = "anonymous"
    /\ Cardinality({f \in FamilyIds : families[f].state = "none"})
          > Cardinality({c \in calls : c.kind = "login" /\ c.stage \in {"asked", "abandoned"}})
    /\ Sending(t, "logout") = {} /\ Sending(t, "login") = {}
    /\ Calling(calls, Call(t, "login", "asked", {}))
    /\ UNCHANGED <<families, jar, mark, record, tab, out, lost, tick>>
LoginAnswered(c) ==
    /\ Arrives(c, "login")
    /\ mark' = FALSE
    /\ record' = "recent"
    /\ calls' = {[d EXCEPT !.late = FALSE] : d \in Without(c)}
    /\ Shows(c.tab, "authenticated")
    /\ out' = FALSE
    /\ UNCHANGED <<families, lost, tick>>

(* No answer: the connection broke or the time ran out. The request may    *)
(* still reach the server.                                                 *)
Unanswered(c) == IF c.stage = "asked" THEN Instead(c, Abandoned(c)) ELSE calls \ {c}
Fail(c) ==
    /\ c.stage \in {"asked", "answered"}
    /\ lost < MaxLost /\ lost' = lost + 1
    /\ LET t == c.tab
       IN  \/ /\ c.kind = "signout"
              /\ mark' = TRUE
              /\ record' = "none"
              /\ calls' = Outdated(Unanswered(c), t)
              /\ Shows(t, "anonymous")
              /\ out' = TRUE
           \/ /\ c.kind # "signout"
              /\ calls' = Unanswered(c)
              /\ tab' = IF "timer" \in c.callers /\ Status(t) = "authenticated"
                        THEN [tab EXCEPT ![t].due = tick + RetryDelay] ELSE tab
              /\ UNCHANGED <<mark, record, out>>
    /\ UNCHANGED <<families, jar, tick>>
-----------------------------------------------------------------------------
(* idle.ts: a sign of life, the look at the clock, and the news that       *)
(* another tab ended the session.                                          *)
NoteActivity(t) ==
    /\ Status(t) = "authenticated" /\ record # "recent"
    /\ record' = "recent"
    /\ UNCHANGED <<families, jar, mark, tab, calls, out, lost, tick>>
IdleLimitReached(t) ==
    /\ Status(t) = "authenticated" /\ record = "old"
    /\ SignOutForInactivity(t, calls)
    /\ UNCHANGED <<families, jar, lost, tick>>
NeverGone  == FALSE                                                 \* mutant
RecordGone == record = "none"
FollowSignOutElsewhere(t) ==
    /\ Status(t) = "authenticated" /\ RecordGone
    /\ calls' = Outdated(calls, t)
    /\ Shows(t, "anonymous")
    /\ UNCHANGED <<families, jar, mark, record, out, lost, tick>>

(* The idle limit passes with nothing done in any tab. *)
GoIdle ==
    /\ record = "recent"
    /\ record' = "old"
    /\ UNCHANGED <<families, jar, mark, tab, calls, out, lost, tick>>
(* Time passes; a timer fires when it is due. *)
BrowserTick ==
    /\ tick < MaxTick
    /\ \A t \in Tabs : ~TimerDue(t)
    /\ tick' = tick + 1
    /\ UNCHANGED <<families, jar, mark, record, tab, calls, out, lost>>

Server(c)  == ServeRefresh(c) \/ ServeLogout(c) \/ ServeLogin(c)
Arrival(c) == RefreshAnswered(c) \/ LogoutAnswered(c) \/ SignOutAnswered(c) \/ LoginAnswered(c)

(* History: a sign-in crosses a sign-out, another sign-in or the refresh   *)
(* of a session when both are on their way at once.                        *)
Abreast ==
    {c \in calls : /\ c.stage \in {"asked", "answered"}
                   /\ c.kind = "refresh" => c.cookie # NoCookie}
Crossing    == \E c \in Abreast : c.kind = "login" /\ Abreast # {c}
SignsInAlone == \E c \in Abreast : LoginAnswered(c) /\ Abreast = {c}
NotesCrossing == crossed' = ((crossed /\ ~SignsInAlone) \/ Crossing')

BrowserStep ==
    \/ \E c \in calls : Server(c) \/ Send(c) \/ Arrival(c) \/ Fail(c)
    \/ \E t \in Tabs :
          \/ Load(t) \/ RetryBoot(t) \/ RefreshQuietly(t) \/ RequestUnauthorized(t)
          \/ SignOut(t) \/ SignIn(t)
          \/ NoteActivity(t) \/ IdleLimitReached(t) \/ FollowSignOutElsewhere(t)
    \/ GoIdle \/ BrowserTick
BrowserNext == BrowserStep /\ NotesCrossing

(* A user leaves for the idle limit sooner or later, and comes back too    *)
(* late for the check that runs every second.                              *)
BrowserFairness ==
    /\ WF_browserVars(GoIdle /\ NotesCrossing)
    /\ \A t \in Tabs : /\ SF_browserVars(IdleLimitReached(t) /\ NotesCrossing)
                       /\ SF_browserVars(FollowSignOutElsewhere(t) /\ NotesCrossing)
BrowserSpec == BrowserInit /\ [][BrowserNext]_browserVars /\ BrowserFairness
-----------------------------------------------------------------------------
Thief(f) == families[f].state = "REUSE_DETECTED"

(* The lock keeps the tabs from rotating one cookie at once: a session is  *)
(* ended as stolen only if an answer to a request was lost.                *)
NotTakenForThief == lost = 0 => \A f \in FamilyIds : ~Thief(f)

(* Once the user has signed out - even with the server out of reach -, no  *)
(* page loaded and no refresh asked for after that signs the browser in    *)
(* again: only a sign-in does. A sign-in that crossed another call leaves  *)
(* two sessions and one cookie; until a sign-in by itself nothing is said. *)
SignedOutStaysOut ==
    [][\A t \in Tabs : \A c \in Sending(t, "refresh") :
          out /\ out' /\ ~crossed /\ c.late /\ Status(t) # "authenticated" /\ c \notin calls'
             => tab'[t].status # "authenticated"]_browserVars

(* A sign-out in one tab takes the others with it, whatever was on its way.*)
EveryTabFollows == out ~> (\A t \in Tabs : Status(t) # "authenticated") \/ ~out

(* The grace window covers a lost answer that the client's own timer asks  *)
(* for again.                                                              *)
RetryKeepsSession ==
    [][\A c \in calls : ServeRefresh(c) /\ c.stage = "asked" /\ c.callers = {"timer"}
          => \A f \in FamilyIds : Thief(f)' => Thief(f)]_browserVars

(* An answer to a sign-out never clears the cookie of a later sign-in.     *)
SignInKeepsItsCookie ==
    [][\A c \in calls : (LogoutAnswered(c) \/ SignOutAnswered(c))
                        => ~Live(jar.family) \/ jar.family = c.cookie.family]_browserVars
=============================================================================
