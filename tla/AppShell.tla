------------------------------ MODULE AppShell ------------------------------
(***************************************************************************)
(* static/app.js in one browser tab.  Every click handler is a task of one *)
(* thread; between the awaits of a handler other handlers run, and views   *)
(* are mounted and replaced under it.  A handler keeps the view it was     *)
(* created with, so one that resumes late writes to a view nobody sees.    *)
(*                                                                         *)
(* The server is what its answers can be: a call may succeed, or be        *)
(* refused, fail or time out at any moment, so sessions expire and commits *)
(* lag as they like.  Of the document list and of the answer panel only    *)
(* whose they are is kept, and of the list how often it was appended.      *)
(***************************************************************************)
EXTENDS Naturals

CONSTANTS
  Slots,     \* bound: handlers in flight
  Anons,     \* bound: anonymous tenants minted
  Account,   \* the tenant of the user's account
  NULL

VARIABLES
  jar,         \* the tenant whose session the cookie names
  minted,      \* anonymous tenants so far
  view,        \* the mounted view
  tasks,       \* tasks[s]: the handler in slot s
  overlapped   \* history: two account handlers were in flight at once

vars == <<jar, minted, view, tasks, overlapped>>

Tenants == Anons \cup {Account}

\* The calls that change or inquire the session, and those that do not.
AccountCalls == {"whoami", "login", "anonymous_login", "logout", "logout_everywhere",
                 "delete_account", "count_auth", "count_end"}
OtherCalls == {"register", "list", "store", "delete", "ask"}
Calls == AccountCalls \cup OtherCalls

\* Calls whose button is disabled while they are in flight.
Buttons == {"login", "register", "anonymous_login", "store", "ask"}

Workspaces == {"anonymous", "registered"}
ViewNames == {"blank", "framed", "fatal", "logged_out"} \cup Workspaces

ASSUME AppShellAssumption == Account \notin Anons /\ NULL \notin Tenants

NoTask == [pc |-> "idle", call |-> NULL, cookie |-> NULL, mounted |-> FALSE]
Request(call, cookie) == [pc |-> "request", call |-> call, cookie |-> cookie, mounted |-> TRUE]

\* refreshDocs: docList.replaceChildren().
NoRows == [t \in Tenants |-> 0]

\* rows[t]: how often the list holds the documents of t.  refreshing: the last refresh
\* of the list began while another was under way.
View(name) == [name |-> name, anonDocs |-> NULL, confirmed |-> FALSE, busy |-> {},
               rows |-> NoRows, refreshing |-> FALSE, answer |-> NULL]

\* Mutated: the list is handed on in place of its length.
AuthFormsOfList(anonDocs) == [View("logged_out") EXCEPT !.anonDocs = "list"]

\* renderLoggedOut, from an anonymous session with or without documents.
AuthForms(anonDocs) == [View("logged_out") EXCEPT !.anonDocs = anonDocs]

\* A tab opened with whatever cookie an earlier visit left.
Init ==
  /\ jar \in Tenants \cup {NULL}
  /\ minted = {jar} \cap Anons
  /\ view = View("blank")
  /\ tasks = [s \in Slots |-> NoTask]
  /\ overlapped = FALSE
-----------------------------------------------------------------------------
InFlight(calls) == {s \in Slots : tasks[s].pc # "idle" /\ tasks[s].call \in calls}

\* Mutated: one workspace node is kept and filled again.
Attached == tasks

\* replaceChildren: the handlers of the view that was mounted write to it unseen.
Detached == [s \in Slots |-> [tasks[s] EXCEPT !.mounted = FALSE]]

\* Mounts v as the last step of the handler in slot s.  A workspace loads its list.
Mount(s, v, cookie) ==
  /\ view' = v
  /\ tasks' = [Detached EXCEPT
       ![s] = IF v.name \in Workspaces THEN Request("list", cookie) ELSE NoTask]

\* The handler in slot s awaits its next call, in the view it has.
Await(s, call, cookie) ==
  tasks' = [tasks EXCEPT ![s] = [@ EXCEPT !.pc = "request", !.call = call, !.cookie = cookie]]

Disabled(call) == view' = [view EXCEPT !.busy = @ \cup ({call} \cap Buttons)]

\* Mutated: a failed call leaves its button disabled.
ButtonsStay(s) == UNCHANGED view

\* The handler's button, if its view is still there.
Reenabled(s) ==
  view' = [view EXCEPT !.busy = IF tasks[s].mounted THEN @ \ {tasks[s].call} ELSE @]

Finish(s) == tasks' = [tasks EXCEPT ![s] = NoTask]

\* A click or submit starts a handler, which calls at once or asks first.
Start(call, pc) ==
  /\ \E s \in Slots :
       /\ tasks[s].pc = "idle"
       /\ tasks' = [tasks EXCEPT ![s] = [Request(call, jar) EXCEPT !.pc = pc]]
  /\ overlapped' = (overlapped \/ (call \in AccountCalls /\ InFlight(AccountCalls) # {}))
  /\ UNCHANGED <<jar, minted>>
-----------------------------------------------------------------------------
(* What the user does. *)

\* Opening or reloading the page ends every handler and boots; a tab inside a frame
\* only says so.
Load ==
  /\ overlapped' = FALSE
  /\ \/ /\ view.name # "framed"
        /\ view' = View("blank")
        /\ \E s \in Slots : tasks' = [q \in Slots |->
             IF q = s THEN Request("whoami", jar) ELSE NoTask]
     \/ /\ view.name \in {"blank", "framed"} /\ InFlight(Calls) = {}
        /\ view' = View("framed")
        /\ UNCHANGED tasks
  /\ UNCHANGED <<jar, minted>>

Retry == view.name = "fatal" /\ Start("whoami", "request") /\ UNCHANGED view

\* The login and register forms.  guarded() asks once whether the documents of the
\* anonymous session may be left behind.
SubmitCredentials(call) ==
  /\ view.name = "logged_out" /\ call \notin view.busy
  /\ IF view.anonDocs = "some" /\ ~ view.confirmed
     THEN Start(call, "dialog") /\ UNCHANGED view
     ELSE Start(call, "request") /\ Disabled(call)

ContinueAnonymously ==
  /\ view.name = "logged_out" /\ view.anonDocs = NULL
  /\ "anonymous_login" \notin view.busy
  /\ Start("anonymous_login", "request") /\ Disabled("anonymous_login")

\* "Back to your anonymous session" mounts the workspace without asking the server.
Back ==
  /\ view.name = "logged_out" /\ view.anonDocs # NULL
  /\ \E s \in Slots : tasks[s].pc = "idle" /\ Mount(s, View("anonymous"), jar)
  /\ UNCHANGED <<jar, minted, overlapped>>

\* "Create account / Log in" and "End session" count the documents first.
LeaveAnonymous(call) ==
  /\ view.name = "anonymous"
  /\ Start(call, "request") /\ UNCHANGED view

Logout == view.name = "registered" /\ Start("logout", "request") /\ UNCHANGED view

\* These ask first.
AskRegistered(call) == view.name = "registered" /\ Start(call, "dialog") /\ UNCHANGED view

Ingest ==
  /\ view.name \in Workspaces /\ "store" \notin view.busy
  /\ Start("store", "request") /\ Disabled("store")

\* The question form clears the last answer first.
AskQuestion ==
  /\ view.name \in Workspaces /\ "ask" \notin view.busy
  /\ Start("ask", "request")
  /\ view' = [view EXCEPT !.busy = @ \cup {"ask"}, !.answer = NULL]

\* The button of a row.
DeleteDocument ==
  /\ view.name \in Workspaces /\ view.rows # NoRows
  /\ Start("delete", "dialog") /\ UNCHANGED view

Confirm(s) ==
  /\ tasks[s].pc = "dialog"
  /\ Await(s, tasks[s].call, jar)
  /\ IF tasks[s].call \in {"login", "register"} /\ tasks[s].mounted
     THEN view' = [view EXCEPT !.confirmed = TRUE, !.busy = @ \cup {tasks[s].call}]
     ELSE UNCHANGED view
  /\ UNCHANGED <<jar, minted, overlapped>>

Cancel(s) ==
  /\ tasks[s].pc = "dialog"
  /\ Finish(s)
  /\ UNCHANGED <<jar, minted, view, overlapped>>
-----------------------------------------------------------------------------
(* How calls end. *)

Calling(s, calls) == tasks[s].pc = "request" /\ tasks[s].call \in calls

\* boot() mounts one of the three views by what whoami answers to the cookie it was
\* sent with.
BootView(cookie) ==
  CASE cookie = NULL -> View("logged_out")
    [] cookie = Account -> View("registered")
    [] OTHER -> View("anonymous")

WhoamiAnswered(s) ==
  /\ Calling(s, {"whoami"})
  /\ \E who \in {tasks[s].cookie, NULL} : Mount(s, BootView(who), jar)
  /\ UNCHANGED <<jar, minted, overlapped>>

\* A login mounts its view straight away, whatever is mounted by now.
LoginAnswered(s) ==
  /\ Calling(s, {"login"})
  /\ jar' = Account
  /\ Mount(s, View("registered"), Account)
  /\ UNCHANGED <<minted, overlapped>>

AnonymousLoginAnswered(s) ==
  /\ Calling(s, {"anonymous_login"})
  /\ \E a \in Anons \ minted :
       jar' = a /\ minted' = minted \cup {a} /\ Await(s, "whoami", a)
  /\ UNCHANGED <<view, overlapped>>

\* Mutated: the view is left as it is once the cookie is gone.
BootSkipped(s) == Finish(s)

\* await boot(), after the cookie was cleared.
BootAgain(s) == Await(s, "whoami", NULL)

SessionEnded(s) ==
  /\ Calling(s, {"logout", "logout_everywhere", "delete_account"})
  /\ jar' = NULL
  /\ BootAgain(s)
  /\ UNCHANGED <<minted, view, overlapped>>

\* enterAuthFromAnon: whatever is mounted is replaced by the forms.
CountedForAuth(s) ==
  /\ Calling(s, {"count_auth"}) /\ tasks[s].cookie # NULL
  /\ \E n \in {"none", "some"} : Mount(s, AuthForms(n), jar)
  /\ UNCHANGED <<jar, minted, overlapped>>

\* "End session" asks when there are documents to lose.
CountedForEnd(s) ==
  /\ Calling(s, {"count_end"}) /\ tasks[s].cookie # NULL
  /\ \/ tasks' = [tasks EXCEPT ![s].pc = "dialog", ![s].call = "logout"]
     \/ Await(s, "logout", jar)
  /\ UNCHANGED <<jar, minted, view, overlapped>>

\* switchTab: no session yet.
Registered(s) ==
  /\ Calling(s, {"register"})
  /\ Reenabled(s) /\ Finish(s)
  /\ UNCHANGED <<jar, minted, overlapped>>

\* The rows are appended to the handler's own list.
Listed(s) ==
  /\ Calling(s, {"list"}) /\ tasks[s].cookie # NULL
  /\ \/ UNCHANGED view
     \/ /\ tasks[s].mounted
        /\ view' = [view EXCEPT !.rows[tasks[s].cookie] = @ + 1]
  /\ Finish(s)
  /\ UNCHANGED <<jar, minted, overlapped>>

\* renderAnswer fills the panel of the handler's own view.
QuestionAnswered(s) ==
  /\ Calling(s, {"ask"}) /\ tasks[s].cookie # NULL
  /\ view' = IF tasks[s].mounted
             THEN [view EXCEPT !.answer = tasks[s].cookie, !.busy = @ \ {"ask"}] ELSE view
  /\ Finish(s)
  /\ UNCHANGED <<jar, minted, overlapped>>

\* Mutated: the rows of the last refresh stay.
RowsKept == view.rows

RowsCleared == NoRows

\* An upload or a removal ends with refreshDocs: the list is cleared and asked for.
DocumentsChanged(s) ==
  /\ Calling(s, {"store", "delete"}) /\ tasks[s].cookie # NULL
  /\ Await(s, "list", jar)
  /\ view' = IF tasks[s].mounted
             THEN [view EXCEPT
                     !.rows = RowsCleared, !.busy = @ \ {tasks[s].call},
                     !.refreshing = \E q \in Slots : Calling(q, {"list"}) /\ tasks[q].mounted]
             ELSE view
  /\ UNCHANGED <<jar, minted, overlapped>>

\* Mutated: fetch without AbortSignal.timeout.
NeverFails(s) == FALSE

\* Refused, unreachable, or silent for 90 seconds.  Each handler catches it its own way.
\* Left out: an answer that breaks off after its headers, which have set the cookie.
Fails(s) ==
  /\ \/ Calling(s, {"whoami"}) /\ Mount(s, View("fatal"), NULL)
     \/ Calling(s, Buttons) /\ Reenabled(s) /\ Finish(s)
     \/ Calling(s, {"logout"}) /\ Await(s, "whoami", jar) /\ UNCHANGED view
     \/ Calling(s, {"count_auth"}) /\ Mount(s, AuthForms("none"), NULL)
     \/ Calling(s, {"count_end"}) /\ Await(s, "logout", jar) /\ UNCHANGED view
     \/ /\ Calling(s, {"logout_everywhere", "delete_account", "list", "delete"})
        /\ Finish(s) /\ UNCHANGED view
  /\ UNCHANGED <<jar, minted, overlapped>>

Answered(s) ==
  \/ WhoamiAnswered(s) \/ LoginAnswered(s) \/ AnonymousLoginAnswered(s) \/ SessionEnded(s)
  \/ CountedForAuth(s) \/ CountedForEnd(s) \/ Registered(s) \/ Listed(s)
  \/ QuestionAnswered(s) \/ DocumentsChanged(s)

Next ==
  \/ Load \/ Retry
  \/ \E call \in {"login", "register"} : SubmitCredentials(call)
  \/ ContinueAnonymously \/ Back
  \/ \E call \in {"count_auth", "count_end"} : LeaveAnonymous(call)
  \/ Logout
  \/ \E call \in {"logout_everywhere", "delete_account"} : AskRegistered(call)
  \/ Ingest \/ AskQuestion \/ DeleteDocument
  \/ \E s \in Slots : Confirm(s) \/ Cancel(s) \/ Answered(s) \/ Fails(s)

Spec == Init /\ [][Next]_vars

\* The server owes no answer; the timeout of request() ends a call that nothing else
\* ends.
FairSpec == Spec /\ \A s \in Slots : WF_vars(Fails(s))
-----------------------------------------------------------------------------
TypeOK ==
  /\ jar \in Tenants \cup {NULL}
  /\ minted \subseteq Anons
  /\ view \in [name : ViewNames, anonDocs : {NULL, "none", "some"}, confirmed : BOOLEAN,
               busy : SUBSET Buttons, rows : [Tenants -> Nat], refreshing : BOOLEAN,
               answer : Tenants \cup {NULL}]
  /\ tasks \in [Slots -> [pc : {"idle", "request", "dialog"}, call : Calls \cup {NULL},
                          cookie : Tenants \cup {NULL}, mounted : BOOLEAN]]
  /\ overlapped \in BOOLEAN

\* No account handler is in flight, and since the page was loaded no two of them ever
\* were at the same time.
Settled == ~ overlapped /\ InFlight(AccountCalls) = {}

\* "mounts exactly ONE of three distinct views by session state": once the account
\* handlers have ended, a workspace is mounted only over a session of its kind.
ViewMatchesSession ==
  Settled => /\ view.name = "registered" => jar = Account
             /\ view.name = "anonymous" => jar \in Anons

\* Neither the list nor the answer panel shows anything of a session the tab has left,
\* however late the answers to the handlers of its earlier views come.
RowsAreTheSessions ==
  Settled => /\ \A t \in Tenants : view.rows[t] > 0 => t = jar
             /\ view.answer \in {NULL, jar}

\* Every row of the list is there once, unless two refreshes of it overlapped: both
\* clear it, and then both append what they were answered.
RowsAppearOnce == ~ view.refreshing => \A t \in Tenants : view.rows[t] <= 1

\* A disabled button has its handler in flight, so it is never disabled for good.
\* "Continue anonymously" stays disabled until the boot that follows.
ButtonsComeBack ==
  \A b \in view.busy : \E s \in Slots :
    /\ tasks[s].pc = "request" /\ tasks[s].mounted
    /\ tasks[s].call \in {b} \cup (IF b = "anonymous_login" THEN {"whoami"} ELSE {})

\* Every handler ends or is at a dialog, whatever the server does not answer.
EveryHandlerEnds == \A s \in Slots : tasks[s].pc = "request" ~> tasks[s].pc # "request"
=============================================================================
