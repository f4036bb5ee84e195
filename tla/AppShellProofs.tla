-------------------------- MODULE AppShellProofs --------------------------
(***************************************************************************)
(* What a tab shows belongs to the session its cookie names, proved for    *)
(* any number of handlers in flight and of anonymous tenants.              *)
(*                                                                         *)
(* The argument is that of a lock nobody takes: as long as account         *)
(* handlers do not overlap, whoever changes the cookie is the only one who *)
(* could, and asks whoami before it gives the view back.  Until whoami is  *)
(* answered the view may be wrong; afterwards it is a new one, which the   *)
(* handlers of the old one cannot write to.                                *)
(***************************************************************************)
EXTENDS AppShell, TLAPS

Task == [pc : {"idle", "request", "dialog"}, call : Calls \cup {NULL},
         cookie : Tenants \cup {NULL}, mounted : BOOLEAN]
ViewState ==
  [name : ViewNames, anonDocs : {NULL, "none", "some"}, confirmed : BOOLEAN,
   busy : SUBSET Buttons, rows : [Tenants -> Nat], refreshing : BOOLEAN,
   answer : Tenants \cup {NULL}]

Going(s, calls) == tasks[s].pc # "idle" /\ tasks[s].call \in calls
Fills(s) == Going(s, {"list"}) /\ tasks[s].mounted
NobodyAsks == \A s \in Slots : ~ Going(s, {"whoami"})

\* Only these calls are asked about first.
DialogsAsk ==
  \A s \in Slots : tasks[s].pc = "dialog" =>
    tasks[s].call \in {"login", "register", "delete", "logout", "logout_everywhere",
                       "delete_account"}

\* Unless refreshes overlapped, one handler fills the list, and it is empty until then.
ListOnce ==
  ~ view.refreshing =>
    /\ \A s, q \in Slots : Fills(s) /\ Fills(q) => s = q
    /\ \A s \in Slots : Fills(s) => view.rows = NoRows
    /\ \A t \in Tenants : view.rows[t] <= 1

\* The view is one of the session the cookie names.
Faithful ==
  /\ view.name = "registered" => jar = Account
  /\ view.name = "anonymous" => jar \in Anons
  /\ view.anonDocs # NULL => jar \in Anons
  /\ \A t \in Tenants : view.rows[t] > 0 => t = jar
  /\ view.answer \in {NULL, jar}
  /\ \A s \in Slots : Going(s, {"list", "ask"}) /\ tasks[s].mounted => tasks[s].cookie = jar

Consistent ==
  ~ overlapped =>
    /\ \A s, q \in Slots : Going(s, AccountCalls) /\ Going(q, AccountCalls) => s = q
    /\ \A s \in Slots : Going(s, {"whoami"}) => tasks[s].cookie = jar
    /\ \A s \in Slots : Going(s, {"count_auth"}) => jar \in Anons
    /\ NobodyAsks => Faithful

Inv == TypeOK /\ DialogsAsk /\ ButtonsComeBack /\ ListOnce /\ Consistent
-----------------------------------------------------------------------------
LEMMA Types ==
  TypeOK <=> /\ jar \in Tenants \cup {NULL} /\ minted \subseteq Anons
             /\ view \in ViewState /\ tasks \in [Slots -> Task] /\ overlapped \in BOOLEAN
  BY DEF TypeOK, Task, ViewState

LEMMA NoTaskIsTask ==
  /\ NoTask \in Task /\ NoTask.pc = "idle" /\ NoTask.call = NULL /\ ~ NoTask.mounted
  BY DEF NoTask, Task

LEMMA RequestIsTask ==
  ASSUME NEW call \in Calls, NEW cookie \in Tenants \cup {NULL}
  PROVE  /\ Request(call, cookie) \in Task
         /\ Request(call, cookie).pc = "request" /\ Request(call, cookie).call = call
         /\ Request(call, cookie).cookie = cookie /\ Request(call, cookie).mounted
  BY DEF Request, Task

\* A new view has no rows, no answer and no disabled button.
Fresh(v) ==
  /\ v \in ViewState /\ v.busy = {} /\ v.rows = NoRows /\ ~ v.refreshing /\ v.answer = NULL

LEMMA NoRowsAtAll ==
  NoRows \in [Tenants -> Nat] /\ \A t \in Tenants : NoRows[t] = 0
  BY DEF NoRows

LEMMA ViewIsFresh ==
  ASSUME NEW name \in ViewNames
  PROVE  Fresh(View(name)) /\ View(name).name = name /\ View(name).anonDocs = NULL
  BY NoRowsAtAll DEF View, Fresh, ViewState

LEMMA FormsAreFresh ==
  ASSUME NEW n \in {"none", "some"}
  PROVE  /\ Fresh(AuthForms(n)) /\ AuthForms(n).name = "logged_out"
         /\ AuthForms(n).anonDocs = n
  BY NoRowsAtAll DEF AuthForms, View, Fresh, ViewState, ViewNames

LEMMA InitInv == Init => Inv
<1> SUFFICES ASSUME Init PROVE Inv
  OBVIOUS
<1>1. view = View("blank") /\ tasks = [s \in Slots |-> NoTask] /\ ~ overlapped
  BY DEF Init
<1>2. Fresh(view) /\ view.name = "blank" /\ view.anonDocs = NULL
  BY <1>1, ViewIsFresh DEF ViewNames
<1>3. \A s \in Slots : tasks[s] = NoTask /\ tasks[s].pc = "idle"
  BY <1>1, NoTaskIsTask
<1>4. TypeOK
  BY <1>1, <1>2, NoTaskIsTask, Types DEF Init, Fresh, Tenants
<1>5. DialogsAsk /\ ButtonsComeBack
  BY <1>2, <1>3 DEF DialogsAsk, ButtonsComeBack, Fresh
<1>6. ListOnce
  <2>1. \A t \in Tenants : view.rows[t] <= 1
    BY <1>2, NoRowsAtAll DEF Fresh
  <2> QED BY <1>3, <2>1 DEF ListOnce, Fills, Going
<1>7. Consistent
  BY <1>2, <1>3, NoRowsAtAll DEF Consistent, Faithful, Fresh, Going
<1> QED BY <1>4, <1>5, <1>6, <1>7 DEF Inv
-----------------------------------------------------------------------------
(* A handler starts. *)

LEMMA Starting ==
  ASSUME TypeOK, NEW call \in Calls, NEW pc \in {"request", "dialog"}, Start(call, pc)
  PROVE  \E s \in Slots :
           /\ tasks[s].pc = "idle" /\ tasks' \in [Slots -> Task]
           /\ \A q \in Slots : q # s => tasks'[q] = tasks[q]
           /\ tasks'[s].pc = pc /\ tasks'[s].call = call /\ tasks'[s].cookie = jar
           /\ tasks'[s].mounted
<1>1. PICK s \in Slots : /\ tasks[s].pc = "idle"
                         /\ tasks' = [tasks EXCEPT ![s] = [Request(call, jar) EXCEPT !.pc = pc]]
  BY DEF Start
<1> DEFINE new == [Request(call, jar) EXCEPT !.pc = pc]
<1>2. /\ new \in Task /\ new.pc = pc /\ new.call = call /\ new.cookie = jar /\ new.mounted
  BY Types DEF Request, Task
<1>3. tasks' = [tasks EXCEPT ![s] = new]
  BY <1>1
<1> HIDE DEF new
<1>4. tasks' \in [Slots -> Task] /\ tasks'[s] = new /\ \A q \in Slots : q # s => tasks'[q] = tasks[q]
  BY <1>2, <1>3, Types
<1> QED BY <1>1, <1>2, <1>4

\* A click changes nothing of the view but its button and the answer it clears.
LEMMA StartInv ==
  ASSUME Inv, NEW call \in Calls \ {"list"}, NEW pc \in {"request", "dialog"}, Start(call, pc),
         view' \in ViewState,
         view'.name = view.name, view'.anonDocs = view.anonDocs, view'.rows = view.rows,
         view'.refreshing = view.refreshing, view'.answer \in {view.answer, NULL},
         view'.busy \subseteq view.busy \cup {call},
         pc = "dialog" => view'.busy = view.busy,
         pc = "dialog" => call \in {"login", "register", "delete", "logout",
                                    "logout_everywhere", "delete_account"},
         call = "count_auth" => view.name = "anonymous"
  PROVE  Inv'
<1>1. PICK s \in Slots :
        /\ tasks[s].pc = "idle" /\ tasks' \in [Slots -> Task]
        /\ \A q \in Slots : q # s => tasks'[q] = tasks[q]
        /\ tasks'[s].pc = pc /\ tasks'[s].call = call /\ tasks'[s].cookie = jar
        /\ tasks'[s].mounted
  BY Starting DEF Inv
<1>2. /\ UNCHANGED <<jar, minted>>
      /\ overlapped' \in BOOLEAN
      /\ ~ overlapped' => ~ overlapped /\ (call \in AccountCalls => InFlight(AccountCalls) = {})
  BY Types DEF Start, Inv
<1>3. TypeOK'
  BY <1>1, <1>2, Types DEF Inv, TypeOK, Task, ViewState
<1>4. DialogsAsk'
  BY <1>1 DEF DialogsAsk, Inv
<1>5. ButtonsComeBack'
  <2> SUFFICES ASSUME NEW b \in view'.busy
               PROVE  \E q \in Slots :
                        /\ tasks'[q].pc = "request" /\ tasks'[q].mounted
                        /\ tasks'[q].call \in {b} \cup (IF b = "anonymous_login"
                                                        THEN {"whoami"} ELSE {})
    BY DEF ButtonsComeBack
  <2>1. CASE b \in view.busy
    <3>1. PICK q \in Slots :
            /\ tasks[q].pc = "request" /\ tasks[q].mounted
            /\ tasks[q].call \in {b} \cup (IF b = "anonymous_login" THEN {"whoami"} ELSE {})
      BY <2>1 DEF Inv, ButtonsComeBack
    <3>2. q # s
      BY <1>1, <3>1
    <3> QED BY <1>1, <3>1, <3>2
  <2>2. CASE b \notin view.busy
    BY <1>1, <2>2
  <2> QED BY <2>1, <2>2
<1>6. ListOnce'
  BY <1>1 DEF Inv, ListOnce, Fills, Going
<1>7. Consistent'
  <2> SUFFICES ASSUME ~ overlapped' PROVE Consistent'
    BY DEF Consistent
  <2>1. Consistent /\ ~ overlapped /\ (call \in AccountCalls => \A q \in Slots : ~ Going(q, AccountCalls))
    BY <1>2 DEF Inv, InFlight, Going
  <2>2. \A q \in Slots : \A calls : Going(q, calls)' <=> Going(q, calls) \/ (q = s /\ call \in calls)
    BY <1>1 DEF Going
  <2>3. {"whoami", "count_auth"} \subseteq AccountCalls
    BY DEF AccountCalls
  <2>4. NobodyAsks' => NobodyAsks
    BY <2>2 DEF NobodyAsks
  <2>5. ASSUME call \in AccountCalls PROVE Faithful
    <3>1. NobodyAsks
      BY <2>1, <2>3, <2>5 DEF NobodyAsks, Going
    <3> QED BY <2>1, <3>1 DEF Consistent
  <2>6. ASSUME NEW p \in Slots, NEW q \in Slots, Going(p, AccountCalls)', Going(q, AccountCalls)'
        PROVE  p = q
    BY <2>1, <2>2, <2>6 DEF Consistent
  <2>7. ASSUME NEW q \in Slots, Going(q, {"whoami"})' PROVE tasks'[q].cookie = jar'
    BY <1>1, <1>2, <2>1, <2>2, <2>7 DEF Consistent
  <2>8. ASSUME NEW q \in Slots, Going(q, {"count_auth"})' PROVE jar' \in Anons
    BY <1>2, <2>1, <2>2, <2>3, <2>5, <2>8 DEF Consistent, Faithful
  <2>9. ASSUME NobodyAsks' PROVE Faithful'
    <3>1. Faithful
      BY <2>1, <2>4, <2>9 DEF Consistent
    <3> QED BY <1>1, <1>2, <2>2, <3>1 DEF Faithful
  <2> QED BY <2>6, <2>7, <2>8, <2>9 DEF Consistent
<1> QED BY <1>3, <1>4, <1>5, <1>6, <1>7 DEF Inv
-----------------------------------------------------------------------------
(* A view is mounted. *)

\* The handlers of the old view go on, unseen; of the new one only the list is asked for.
LEMMA Mounting ==
  ASSUME TypeOK, NEW s \in Slots, NEW v \in ViewState, NEW cookie \in Tenants \cup {NULL},
         Mount(s, v, cookie)
  PROVE  /\ view' = v /\ tasks' \in [Slots -> Task]
         /\ \A q \in Slots : q # s =>
              /\ tasks'[q].pc = tasks[q].pc /\ tasks'[q].call = tasks[q].call
              /\ tasks'[q].cookie = tasks[q].cookie /\ ~ tasks'[q].mounted
         /\ v.name \in Workspaces =>
              /\ tasks'[s].pc = "request" /\ tasks'[s].call = "list" /\ tasks'[s].cookie = cookie
         /\ v.name \notin Workspaces => tasks'[s].pc = "idle"
<1> DEFINE new == IF v.name \in Workspaces THEN Request("list", cookie) ELSE NoTask
<1>1. view' = v /\ tasks' = [Detached EXCEPT ![s] = new]
  BY DEF Mount
<1>2. /\ new \in Task
      /\ v.name \in Workspaces => new.pc = "request" /\ new.call = "list" /\ new.cookie = cookie
      /\ v.name \notin Workspaces => new.pc = "idle"
  <2>1. "list" \in Calls
    BY DEF Calls, OtherCalls
  <2> QED BY <2>1, RequestIsTask, NoTaskIsTask
<1> HIDE DEF new
<1>3. ASSUME NEW q \in Slots
      PROVE  /\ Detached[q] \in Task /\ Detached[q].pc = tasks[q].pc
             /\ Detached[q].call = tasks[q].call /\ Detached[q].cookie = tasks[q].cookie
             /\ ~ Detached[q].mounted
  <2>1. PICK k \in Task : k = tasks[q]
    BY Types
  <2>2. Detached[q] = [k EXCEPT !.mounted = FALSE]
    BY <2>1 DEF Detached
  <2> QED BY <2>1, <2>2 DEF Task
<1>4. Detached \in [Slots -> Task]
  BY <1>3 DEF Detached
<1>5. /\ tasks' \in [Slots -> Task] /\ tasks'[s] = new
      /\ \A q \in Slots : q # s => tasks'[q] = Detached[q]
  BY <1>1, <1>2, <1>4
<1> QED BY <1>1, <1>2, <1>3, <1>5

\* Whoever mounts a view knows whose it is, unless somebody still asks.
LEMMA MountInv ==
  ASSUME Inv, NEW s \in Slots, NEW v, Fresh(v), NEW cookie \in Tenants \cup {NULL},
         Mount(s, v, cookie),
         jar' \in Tenants \cup {NULL}, minted' \subseteq Anons, overlapped' = overlapped,
         jar' # jar => Going(s, AccountCalls),
         ~ overlapped /\ (\A q \in Slots : Going(q, {"whoami"}) => q = s) =>
           /\ v.name = "registered" => jar' = Account
           /\ v.name = "anonymous" => jar' \in Anons
           /\ v.anonDocs # NULL => jar' \in Anons
           /\ v.name \in Workspaces => cookie = jar'
  PROVE  Inv'
<1>0. v \in ViewState /\ v.busy = {} /\ v.rows = NoRows /\ ~ v.refreshing /\ v.answer = NULL
  BY DEF Fresh
<1>1. /\ view' = v /\ tasks' \in [Slots -> Task]
      /\ \A q \in Slots : q # s =>
           /\ tasks'[q].pc = tasks[q].pc /\ tasks'[q].call = tasks[q].call
           /\ tasks'[q].cookie = tasks[q].cookie /\ ~ tasks'[q].mounted
      /\ v.name \in Workspaces =>
           /\ tasks'[s].pc = "request" /\ tasks'[s].call = "list" /\ tasks'[s].cookie = cookie
      /\ v.name \notin Workspaces => tasks'[s].pc = "idle"
  BY <1>0, Mounting DEF Inv
<1>2. TypeOK'
  BY <1>0, <1>1, Types DEF Inv, TypeOK, Task, ViewState
<1>3. DialogsAsk'
  <2>1. tasks'[s].pc # "dialog"
    BY <1>1
  <2> QED BY <1>1, <2>1 DEF DialogsAsk, Inv
<1>4. ButtonsComeBack'
  BY <1>0, <1>1 DEF ButtonsComeBack
<1>5. ListOnce'
  <2>1. \A t \in Tenants : view'.rows[t] <= 1
    BY <1>0, <1>1, NoRowsAtAll
  <2>2. \A q \in Slots : Fills(q)' => q = s
    BY <1>1 DEF Fills
  <2> QED BY <1>0, <1>1, <2>1, <2>2 DEF ListOnce
<1>6. Consistent'
  <2> SUFFICES ASSUME ~ overlapped PROVE Consistent'
    BY DEF Consistent
  <2>1. /\ \A p, q \in Slots : Going(p, AccountCalls) /\ Going(q, AccountCalls) => p = q
        /\ \A q \in Slots : Going(q, {"whoami"}) => tasks[q].cookie = jar
        /\ \A q \in Slots : Going(q, {"count_auth"}) => jar \in Anons
    BY DEF Inv, Consistent
  <2>2. \A q \in Slots : \A calls : q # s => (Going(q, calls)' <=> Going(q, calls))
    BY <1>1 DEF Going
  <2>3. \A calls : Going(s, calls)' => "list" \in calls /\ v.name \in Workspaces
    BY <1>1 DEF Going
  <2>4. "list" \notin AccountCalls /\ {"whoami", "count_auth"} \subseteq AccountCalls
    BY DEF AccountCalls
  <2>5. ASSUME NEW q \in Slots, Going(q, AccountCalls)' PROVE q # s /\ Going(q, AccountCalls) /\ jar' = jar
    BY <2>1, <2>2, <2>3, <2>4, <2>5
  <2>6. ASSUME NEW q \in Slots, NEW calls \in {{"whoami"}, {"count_auth"}}, Going(q, calls)'
        PROVE  Going(q, calls) /\ jar' = jar /\ tasks'[q].cookie = tasks[q].cookie
    <3>1. Going(q, AccountCalls)'
      BY <2>4, <2>6 DEF Going
    <3>2. q # s /\ jar' = jar
      BY <2>5, <3>1
    <3> QED BY <1>1, <2>2, <2>6, <3>2
  <2>7. ASSUME NobodyAsks' PROVE Faithful'
    <3>1. \A q \in Slots : Going(q, {"whoami"}) => q = s
      BY <2>2, <2>7 DEF NobodyAsks
    <3>2. /\ v.name = "registered" => jar' = Account
          /\ v.name = "anonymous" => jar' \in Anons
          /\ v.anonDocs # NULL => jar' \in Anons
          /\ v.name \in Workspaces => cookie = jar'
      BY <3>1
    <3>3. \A t \in Tenants : ~ view'.rows[t] > 0
      BY <1>0, <1>1, NoRowsAtAll
    <3>4. \A q \in Slots : Going(q, {"list", "ask"})' /\ tasks'[q].mounted => tasks'[q].cookie = jar'
      BY <1>1, <2>3, <3>2
    <3> QED BY <1>0, <1>1, <3>2, <3>3, <3>4 DEF Faithful
  <2> QED BY <2>1, <2>5, <2>6, <2>7 DEF Consistent
<1> QED BY <1>2, <1>3, <1>4, <1>5, <1>6 DEF Inv
-----------------------------------------------------------------------------
(* A handler goes on in its view. *)

\* The shape of every other step: one handler and, if it is still there, its view.
Handles(s) ==
  /\ tasks' \in [Slots -> Task] /\ view' \in ViewState
  /\ \A q \in Slots : q # s => tasks'[q] = tasks[q]
  /\ view'.name = view.name /\ view'.anonDocs = view.anonDocs
  /\ jar' \in Tenants \cup {NULL} /\ minted' \subseteq Anons /\ overlapped' = overlapped

\* What a handler may not do to the consistency of the tab.
LEMMA HandlerConsistent ==
  ASSUME TypeOK, Consistent, NEW s \in Slots, Handles(s),
         Going(s, AccountCalls)' => Going(s, AccountCalls),
         Going(s, {"whoami"}) => Going(s, {"whoami"})' /\ tasks'[s].cookie = tasks[s].cookie,
         Going(s, {"whoami"})' => tasks'[s].cookie = jar',
         Going(s, {"count_auth"})' => Going(s, {"count_auth"}),
         jar' # jar => Going(s, AccountCalls) /\ Going(s, {"whoami"})',
         Going(s, {"list", "ask"})' => tasks'[s].cookie = jar',
         \A t \in Tenants : view'.rows[t] > 0 =>
           \/ view.rows[t] > 0
           \/ Going(s, {"list"}) /\ tasks[s].mounted /\ t = tasks[s].cookie,
         \/ view'.answer \in {view.answer, NULL}
         \/ Going(s, {"ask"}) /\ tasks[s].mounted /\ view'.answer = tasks[s].cookie
  PROVE  Consistent'
<1> SUFFICES ASSUME ~ overlapped PROVE Consistent'
  BY DEF Consistent, Handles
<1>1. /\ \A p, q \in Slots : Going(p, AccountCalls) /\ Going(q, AccountCalls) => p = q
      /\ \A q \in Slots : Going(q, {"whoami"}) => tasks[q].cookie = jar
      /\ \A q \in Slots : Going(q, {"count_auth"}) => jar \in Anons
      /\ NobodyAsks => Faithful
  BY DEF Consistent
<1>2. \A q \in Slots : \A calls : q # s => (Going(q, calls)' <=> Going(q, calls))
  BY DEF Handles, Going
<1>3. ASSUME NEW q \in Slots, Going(q, AccountCalls)'
      PROVE  Going(q, AccountCalls) /\ (q # s => jar' = jar)
  BY <1>1, <1>2, <1>3
<1>4. \A q \in Slots : \A c \in {"whoami", "count_auth"} :
        Going(q, {c})' => Going(q, AccountCalls)'
  BY DEF Going, AccountCalls
<1>5. ASSUME NEW q \in Slots, Going(q, {"whoami"})' PROVE tasks'[q].cookie = jar'
  BY <1>1, <1>2, <1>3, <1>4, <1>5 DEF Handles
<1>6. ASSUME NEW q \in Slots, Going(q, {"count_auth"})' PROVE jar' \in Anons
  <2>1. CASE q # s
    BY <1>1, <1>2, <1>3, <1>4, <1>6, <2>1
  <2>2. CASE q = s
    <3>1. Going(s, {"count_auth"})' /\ ~ Going(s, {"whoami"})'
      BY <1>6, <2>2 DEF Going
    <3> QED BY <1>1, <3>1
  <2> QED BY <2>1, <2>2
<1>7. ASSUME NobodyAsks' PROVE Faithful'
  <2>1. NobodyAsks
    BY <1>2, <1>7 DEF NobodyAsks
  <2>2. Faithful /\ jar' = jar
    BY <1>1, <1>7, <2>1 DEF NobodyAsks
  <2>3. \A t \in Tenants : view'.rows[t] > 0 => t = jar'
    BY <2>2 DEF Faithful, Going
  <2>4. view'.answer \in {NULL, jar'}
    BY <2>2 DEF Faithful, Going
  <2>5. \A q \in Slots : Going(q, {"list", "ask"})' /\ tasks'[q].mounted => tasks'[q].cookie = jar'
    BY <1>2, <2>2 DEF Faithful, Handles
  <2> QED BY <2>2, <2>3, <2>4, <2>5 DEF Faithful, Handles
<1> QED BY <1>1, <1>3, <1>5, <1>6, <1>7 DEF Consistent

\* A handler keeps the buttons of the others disabled, and only those.
LEMMA HandlerButtons ==
  ASSUME ButtonsComeBack, NEW s \in Slots, Handles(s),
         \A b \in view'.busy :
           \/ /\ b \in view.busy
              /\ ~ (/\ tasks[s].pc = "request" /\ tasks[s].mounted
                    /\ tasks[s].call \in {b} \cup (IF b = "anonymous_login"
                                                   THEN {"whoami"} ELSE {}))
           \/ /\ tasks'[s].pc = "request" /\ tasks'[s].mounted
              /\ tasks'[s].call \in {b} \cup (IF b = "anonymous_login" THEN {"whoami"} ELSE {})
  PROVE  ButtonsComeBack'
<1> SUFFICES ASSUME NEW b \in view'.busy
             PROVE  \E q \in Slots :
                      /\ tasks'[q].pc = "request" /\ tasks'[q].mounted
                      /\ tasks'[q].call \in {b} \cup (IF b = "anonymous_login"
                                                      THEN {"whoami"} ELSE {})
  BY DEF ButtonsComeBack
<1>1. CASE /\ b \in view.busy
           /\ ~ (/\ tasks[s].pc = "request" /\ tasks[s].mounted
                 /\ tasks[s].call \in {b} \cup (IF b = "anonymous_login"
                                                THEN {"whoami"} ELSE {}))
  <2>1. PICK q \in Slots :
          /\ tasks[q].pc = "request" /\ tasks[q].mounted
          /\ tasks[q].call \in {b} \cup (IF b = "anonymous_login" THEN {"whoami"} ELSE {})
    BY <1>1 DEF ButtonsComeBack
  <2>2. q # s
    BY <1>1, <2>1
  <2> QED BY <2>1, <2>2 DEF Handles
<1> QED BY <1>1

\* A handler that neither asks for the list nor answers it leaves it as it is.
LEMMA HandlerList ==
  ASSUME ListOnce, NEW s \in Slots, Handles(s),
         view'.rows = view.rows, view'.refreshing = view.refreshing,
         Fills(s)' => Fills(s)
  PROVE  ListOnce'
<1>1. \A q \in Slots : Fills(q)' => Fills(q)
  BY DEF Handles, Going, Fills
<1> QED BY <1>1 DEF ListOnce

LEMMA HandlerInv ==
  ASSUME Inv, NEW s \in Slots, Handles(s),
         tasks'[s].pc = "dialog" => tasks'[s].call \in {"login", "register", "delete", "logout",
                                                        "logout_everywhere", "delete_account"},
         ButtonsComeBack', ListOnce', Consistent'
  PROVE  Inv'
<1>1. TypeOK'
  BY Types DEF Inv, Handles, TypeOK, Task, ViewState
<1>2. DialogsAsk'
  BY DEF Inv, DialogsAsk, Handles
<1> QED BY <1>1, <1>2 DEF Inv
-----------------------------------------------------------------------------
(* The user's actions. *)

\* Only the button of the view changes.
LEMMA BusyChanges ==
  ASSUME TypeOK, NEW busy \in SUBSET Buttons, view' = [view EXCEPT !.busy = busy]
  PROVE  /\ view' \in ViewState /\ view'.busy = busy
         /\ view'.name = view.name /\ view'.anonDocs = view.anonDocs /\ view'.rows = view.rows
         /\ view'.refreshing = view.refreshing /\ view'.answer = view.answer
         /\ view'.confirmed = view.confirmed
<1>1. PICK v \in ViewState : v = view
  BY Types
<1>2. view' = [v EXCEPT !.busy = busy]
  BY <1>1
<1> QED BY <1>1, <1>2 DEF ViewState

LEMMA DisabledInv ==
  ASSUME Inv, NEW call \in Buttons, call # "ask", Start(call, "request"), Disabled(call)
  PROVE  Inv'
<1>1. view.busy \subseteq Buttons
  BY Types DEF Inv, ViewState
<1>2. view' = [view EXCEPT !.busy = view.busy \cup {call}]
  BY DEF Disabled
<1>3. call \in Calls \ {"list"} /\ call # "count_auth"
  BY DEF Buttons, Calls, AccountCalls, OtherCalls
<1> QED BY <1>1, <1>2, <1>3, BusyChanges, StartInv DEF Inv

\* A click that leaves the view as it is.
LEMMA ClickInv ==
  ASSUME Inv, NEW call \in Calls \ {"list"}, NEW pc \in {"request", "dialog"}, Start(call, pc),
         UNCHANGED view,
         pc = "dialog" => call \in {"login", "register", "delete", "logout",
                                    "logout_everywhere", "delete_account"},
         call = "count_auth" => view.name = "anonymous"
  PROVE  Inv'
<1>1. view \in ViewState
  BY Types DEF Inv
<1> QED BY <1>1, StartInv

LEMMA AskQuestionInv == ASSUME Inv, AskQuestion PROVE Inv'
<1>1. PICK v \in ViewState : v = view
  BY Types DEF Inv
<1>2. view' = [v EXCEPT !.busy = v.busy \cup {"ask"}, !.answer = NULL]
  BY <1>1 DEF AskQuestion
<1>3. /\ view' \in ViewState /\ view'.busy = v.busy \cup {"ask"} /\ view'.answer = NULL
      /\ view'.name = v.name /\ view'.anonDocs = v.anonDocs /\ view'.rows = v.rows
      /\ view'.refreshing = v.refreshing
  BY <1>2 DEF ViewState, Buttons
<1>4. "ask" \in Calls \ {"list"} /\ Start("ask", "request")
  BY DEF AskQuestion, Calls, OtherCalls
<1> QED BY <1>1, <1>3, <1>4, StartInv

LEMMA UserInv ==
  ASSUME Inv,
         \/ Retry \/ (\E call \in {"login", "register"} : SubmitCredentials(call))
         \/ ContinueAnonymously
         \/ (\E call \in {"count_auth", "count_end"} : LeaveAnonymous(call))
         \/ Logout
         \/ (\E call \in {"logout_everywhere", "delete_account"} : AskRegistered(call))
         \/ Ingest \/ AskQuestion \/ DeleteDocument
  PROVE  Inv'
<1> USE DEF Calls, AccountCalls, OtherCalls, Buttons
<1>1. Retry => Inv'
  BY ClickInv DEF Retry
<1>2. ASSUME NEW call \in {"login", "register"}, SubmitCredentials(call) PROVE Inv'
  BY <1>2, ClickInv, DisabledInv DEF SubmitCredentials
<1>3. ContinueAnonymously => Inv'
  BY DisabledInv DEF ContinueAnonymously
<1>4. ASSUME NEW call \in {"count_auth", "count_end"}, LeaveAnonymous(call) PROVE Inv'
  BY <1>4, ClickInv DEF LeaveAnonymous
<1>5. Logout => Inv'
  BY ClickInv DEF Logout
<1>6. ASSUME NEW call \in {"logout_everywhere", "delete_account"}, AskRegistered(call) PROVE Inv'
  BY <1>6, ClickInv DEF AskRegistered
<1>7. Ingest => Inv'
  BY DisabledInv DEF Ingest
<1>8. DeleteDocument => Inv'
  BY ClickInv DEF DeleteDocument
<1> QED BY <1>1, <1>2, <1>3, <1>4, <1>5, <1>6, <1>7, <1>8, AskQuestionInv

\* Loading ends every handler, and boot() asks whose session the cookie is.
LEMMA LoadInv == ASSUME Inv, Load PROVE Inv'
<1>1. UNCHANGED <<jar, minted>> /\ overlapped' = FALSE
  BY DEF Load
<1>2. CASE /\ view' = View("blank")
           /\ \E s \in Slots : tasks' = [q \in Slots |->
                IF q = s THEN Request("whoami", jar) ELSE NoTask]
  <2>1. PICK s \in Slots : tasks' = [q \in Slots |->
                             IF q = s THEN Request("whoami", jar) ELSE NoTask]
    BY <1>2
  <2>2. /\ Request("whoami", jar) \in Task /\ Request("whoami", jar).cookie = jar
        /\ Request("whoami", jar).pc = "request" /\ Request("whoami", jar).call = "whoami"
    BY RequestIsTask, Types DEF Inv, Calls, AccountCalls
  <2>3. /\ tasks' \in [Slots -> Task] /\ tasks'[s].pc = "request" /\ tasks'[s].call = "whoami"
        /\ tasks'[s].cookie = jar /\ \A q \in Slots : q # s => tasks'[q].pc = "idle"
    BY <2>1, <2>2, NoTaskIsTask
  <2>4. Fresh(view)' /\ view'.name = "blank" /\ view'.anonDocs = NULL
    BY <1>2, ViewIsFresh DEF ViewNames, Fresh
  <2>5. TypeOK'
    BY <1>1, <2>3, <2>4, Types DEF Inv, TypeOK, Task, ViewState, Fresh
  <2>6. DialogsAsk' /\ ButtonsComeBack'
    BY <2>3, <2>4 DEF DialogsAsk, ButtonsComeBack, Fresh
  <2>7. ListOnce'
    <3>1. \A t \in Tenants : view'.rows[t] <= 1
      BY <2>4, NoRowsAtAll DEF Fresh
    <3>2. \A q \in Slots : ~ Fills(q)'
      BY <2>3 DEF Fills, Going
    <3> QED BY <3>1, <3>2 DEF ListOnce
  <2>8. Consistent'
    BY <1>1, <2>3 DEF Consistent, Going, NobodyAsks
  <2> QED BY <2>5, <2>6, <2>7, <2>8 DEF Inv
<1>3. CASE InFlight(Calls) = {} /\ view' = View("framed") /\ UNCHANGED tasks
  <2>1. \A s \in Slots : \A calls : calls \subseteq Calls => ~ Going(s, calls)'
    BY <1>3 DEF InFlight, Going
  <2>2. Fresh(view)' /\ view'.name = "framed" /\ view'.anonDocs = NULL
    BY <1>3, ViewIsFresh DEF ViewNames, Fresh
  <2>3. TypeOK'
    BY <1>1, <1>3, <2>2, Types DEF Inv, TypeOK, Task, ViewState, Fresh
  <2>4. DialogsAsk' /\ ButtonsComeBack'
    BY <1>3, <2>2 DEF DialogsAsk, ButtonsComeBack, Fresh, Inv
  <2>5. /\ {"list"} \subseteq Calls /\ {"list", "ask"} \subseteq Calls /\ AccountCalls \subseteq Calls
        /\ {"whoami"} \subseteq Calls /\ {"count_auth"} \subseteq Calls
    BY DEF Calls, OtherCalls, AccountCalls
  <2>6. ListOnce'
    <3>1. \A t \in Tenants : view'.rows[t] <= 1
      BY <2>2, NoRowsAtAll DEF Fresh
    <3>2. \A q \in Slots : ~ Fills(q)'
      BY <2>1, <2>5 DEF Fills
    <3> QED BY <3>1, <3>2 DEF ListOnce
  <2>7. Consistent'
    <3>1. \A t \in Tenants : ~ view'.rows[t] > 0
      BY <2>2, NoRowsAtAll DEF Fresh
    <3>2. Faithful'
      BY <2>1, <2>2, <2>5, <3>1 DEF Faithful, Fresh
    <3> QED BY <2>1, <2>5, <3>2 DEF Consistent
  <2> QED BY <2>3, <2>4, <2>6, <2>7 DEF Inv
<1> QED BY <1>2, <1>3 DEF Load
-----------------------------------------------------------------------------
(* Views that are mounted. *)

LEMMA BackInv == ASSUME Inv, Back PROVE Inv'
<1>1. PICK s \in Slots : tasks[s].pc = "idle" /\ Mount(s, View("anonymous"), jar)
  BY DEF Back
<1>2. view.anonDocs # NULL /\ UNCHANGED <<jar, minted, overlapped>>
  BY DEF Back
<1>3. Fresh(View("anonymous")) /\ View("anonymous").name = "anonymous"
      /\ View("anonymous").anonDocs = NULL
  BY ViewIsFresh DEF ViewNames, Workspaces
<1>4. ASSUME ~ overlapped, \A q \in Slots : Going(q, {"whoami"}) => q = s PROVE jar \in Anons
  <2>1. NobodyAsks
    BY <1>1, <1>4 DEF NobodyAsks, Going
  <2> QED BY <1>2, <1>4, <2>1 DEF Inv, Consistent, Faithful
<1>5. jar \in Tenants \cup {NULL} /\ minted \subseteq Anons
  BY Types DEF Inv
<1> QED BY <1>1, <1>2, <1>3, <1>4, <1>5, MountInv

\* boot() mounts the view of the session whoami was asked about, or the forms.
LEMMA WhoamiInv == ASSUME Inv, NEW s \in Slots, WhoamiAnswered(s) PROVE Inv'
<1>1. PICK who \in {tasks[s].cookie, NULL} : Mount(s, BootView(who), jar)
  BY DEF WhoamiAnswered
<1>2. Going(s, {"whoami"}) /\ UNCHANGED <<jar, minted, overlapped>>
  BY DEF WhoamiAnswered, Calling, Going
<1>3. jar \in Tenants \cup {NULL} /\ minted \subseteq Anons /\ who \in Tenants \cup {NULL}
  BY Types DEF Inv, Task
<1>4. /\ Fresh(BootView(who)) /\ BootView(who).anonDocs = NULL
      /\ BootView(who).name = "registered" => who = Account
      /\ BootView(who).name = "anonymous" => who \in Anons
      /\ BootView(who).name \in Workspaces => who \in Tenants
  <2>1. CASE who = NULL
    <3>1. BootView(who) = View("logged_out")
      BY <2>1, AppShellAssumption DEF BootView, Tenants
    <3> QED BY <3>1, ViewIsFresh DEF ViewNames, Workspaces
  <2>2. CASE who = Account
    <3>1. BootView(who) = View("registered") /\ who # NULL
      BY <2>2, AppShellAssumption DEF BootView, Tenants
    <3> QED BY <2>2, <3>1, ViewIsFresh DEF ViewNames, Workspaces, Tenants
  <2>3. CASE who # NULL /\ who # Account
    <3>1. BootView(who) = View("anonymous") /\ who \in Anons
      BY <1>3, <2>3 DEF BootView, Tenants
    <3> QED BY <3>1, ViewIsFresh DEF ViewNames, Workspaces, Tenants
  <2> QED BY <2>1, <2>2, <2>3
<1>5. ~ overlapped /\ who # NULL => who = jar
  BY <1>1, <1>2 DEF Inv, Consistent
<1>6. NULL \notin Tenants
  BY AppShellAssumption
<1>7. BootView(who).name \in {"registered", "anonymous"} => who # NULL
  BY <1>4, <1>6 DEF Workspaces
<1> QED BY <1>1, <1>2, <1>3, <1>4, <1>5, <1>7, MountInv

LEMMA LoginInv == ASSUME Inv, NEW s \in Slots, LoginAnswered(s) PROVE Inv'
<1>1. /\ Going(s, AccountCalls) /\ jar' = Account /\ UNCHANGED <<minted, overlapped>>
      /\ Mount(s, View("registered"), Account)
  BY DEF LoginAnswered, Calling, Going, AccountCalls
<1>2. Fresh(View("registered")) /\ View("registered").name = "registered"
      /\ View("registered").anonDocs = NULL
  BY ViewIsFresh DEF ViewNames, Workspaces
<1>3. Account \in Tenants \cup {NULL} /\ minted \subseteq Anons
  BY Types DEF Inv, Tenants
<1> QED BY <1>1, <1>2, <1>3, MountInv

\* enterAuthFromAnon: the documents counted are those of the session still held.
LEMMA AuthFormsInv ==
  ASSUME Inv, NEW s \in Slots, Going(s, {"count_auth"}), NEW n \in {"none", "some"},
         NEW cookie \in Tenants \cup {NULL},
         Mount(s, AuthForms(n), cookie), UNCHANGED <<jar, minted, overlapped>>
  PROVE  Inv'
<1>1. Fresh(AuthForms(n)) /\ AuthForms(n).name = "logged_out"
  BY FormsAreFresh
<1>2. jar \in Tenants \cup {NULL} /\ minted \subseteq Anons
  BY Types DEF Inv
<1>3. ~ overlapped => jar \in Anons
  BY DEF Inv, Consistent
<1>4. AuthForms(n).name \notin Workspaces \cup {"registered", "anonymous"}
  BY <1>1 DEF Workspaces
<1> QED BY <1>1, <1>2, <1>3, <1>4, MountInv

LEMMA FatalInv ==
  ASSUME Inv, NEW s \in Slots, Mount(s, View("fatal"), NULL), UNCHANGED <<jar, minted, overlapped>>
  PROVE  Inv'
<1>1. /\ Fresh(View("fatal")) /\ View("fatal").anonDocs = NULL
      /\ View("fatal").name \notin Workspaces \cup {"registered", "anonymous"}
  BY ViewIsFresh DEF ViewNames, Workspaces
<1>2. jar \in Tenants \cup {NULL} /\ minted \subseteq Anons
  BY Types DEF Inv
<1> QED BY <1>1, <1>2, MountInv
-----------------------------------------------------------------------------
(* Handlers that go on or end. *)

LEMMA Awaiting ==
  ASSUME TypeOK, NEW s \in Slots, NEW call \in Calls, NEW cookie \in Tenants \cup {NULL},
         Await(s, call, cookie)
  PROVE  /\ tasks' \in [Slots -> Task]
         /\ \A q \in Slots : q # s => tasks'[q] = tasks[q]
         /\ tasks'[s].pc = "request" /\ tasks'[s].call = call /\ tasks'[s].cookie = cookie
         /\ tasks'[s].mounted = tasks[s].mounted
<1>1. PICK k \in Task : k = tasks[s]
  BY Types
<1> DEFINE new == [k EXCEPT !.pc = "request", !.call = call, !.cookie = cookie]
<1>2. /\ new \in Task /\ new.pc = "request" /\ new.call = call /\ new.cookie = cookie
      /\ new.mounted = k.mounted
  BY DEF Task
<1>3. tasks' = [tasks EXCEPT ![s] = new]
  BY <1>1 DEF Await
<1> HIDE DEF new
<1> QED BY <1>1, <1>2, <1>3, Types

LEMMA Finishing ==
  ASSUME TypeOK, NEW s \in Slots, Finish(s)
  PROVE  /\ tasks' \in [Slots -> Task]
         /\ \A q \in Slots : q # s => tasks'[q] = tasks[q]
         /\ tasks'[s].pc = "idle"
  BY NoTaskIsTask, Types DEF Finish

LEMMA Reenabling ==
  ASSUME TypeOK, NEW s \in Slots, Reenabled(s)
  PROVE  /\ view' \in ViewState
         /\ view'.busy = (IF tasks[s].mounted THEN view.busy \ {tasks[s].call} ELSE view.busy)
         /\ view'.name = view.name /\ view'.anonDocs = view.anonDocs /\ view'.rows = view.rows
         /\ view'.refreshing = view.refreshing /\ view'.answer = view.answer
<1> DEFINE busy == IF tasks[s].mounted THEN view.busy \ {tasks[s].call} ELSE view.busy
<1>1. busy \in SUBSET Buttons
  BY Types DEF ViewState
<1>2. view' = [view EXCEPT !.busy = busy]
  BY DEF Reenabled
<1> HIDE DEF busy
<1>3. view'.busy = busy /\ view' \in ViewState
  BY <1>1, <1>2, BusyChanges
<1> QED BY <1>1, <1>2, <1>3, BusyChanges DEF busy

\* The handler ends, and its button comes back if its view is still there.
LEMMA EndsInv ==
  ASSUME Inv, NEW s \in Slots, Finish(s), UNCHANGED <<jar, minted, overlapped>>,
         ~ Going(s, {"whoami"}),
         \/ Reenabled(s)
         \/ UNCHANGED view /\ (tasks[s].pc = "dialog" \/ tasks[s].call \notin Buttons)
  PROVE  Inv'
<1>1. /\ tasks' \in [Slots -> Task] /\ \A q \in Slots : q # s => tasks'[q] = tasks[q]
      /\ tasks'[s].pc = "idle"
  BY Finishing DEF Inv
<1>2. /\ view' \in ViewState /\ view'.name = view.name /\ view'.anonDocs = view.anonDocs
      /\ view'.rows = view.rows /\ view'.refreshing = view.refreshing /\ view'.answer = view.answer
      /\ view'.busy \subseteq view.busy
      /\ tasks[s].pc = "request" /\ tasks[s].mounted /\ tasks[s].call \in Buttons
           => tasks[s].call \notin view'.busy
  <2>1. CASE Reenabled(s)
    BY <2>1, Reenabling DEF Inv
  <2>2. CASE UNCHANGED view /\ (tasks[s].pc = "dialog" \/ tasks[s].call \notin Buttons)
    BY <2>2, Types DEF Inv
  <2> QED BY <2>1, <2>2
<1>3. Handles(s)
  BY <1>1, <1>2, Types DEF Handles, Inv
<1>4. ButtonsComeBack'
  <2>1. \A b \in view.busy : b \in Buttons
    BY Types DEF Inv, ViewState
  <2>2. tasks[s].pc = "request" => tasks[s].call # "whoami"
    BY DEF Going
  <2> QED BY <1>2, <1>3, <2>1, <2>2, HandlerButtons DEF Inv
<1>5. \A calls : ~ Going(s, calls)'
  BY <1>1 DEF Going
<1>6. ListOnce'
  BY <1>2, <1>3, <1>5, HandlerList DEF Inv, Fills
<1>7. Consistent'
  BY <1>2, <1>3, <1>5, HandlerConsistent DEF Inv
<1> QED BY <1>1, <1>3, <1>4, <1>6, <1>7, HandlerInv

\* The handler awaits another call and leaves the view as it is.
LEMMA AwaitsInv ==
  ASSUME Inv, NEW s \in Slots, NEW call \in Calls \ {"list"}, NEW cookie \in Tenants \cup {NULL},
         Await(s, call, cookie), UNCHANGED <<view, minted, overlapped>>,
         jar' \in Tenants \cup {NULL}, cookie = jar', jar' # jar => call = "whoami",
         Going(s, AccountCalls \ {"whoami", "count_auth"}), call \in AccountCalls \ {"count_auth"},
         tasks[s].call \in Buttons => tasks[s].call = "anonymous_login" /\ call = "whoami"
  PROVE  Inv'
<1>1. /\ tasks' \in [Slots -> Task] /\ \A q \in Slots : q # s => tasks'[q] = tasks[q]
      /\ tasks'[s].pc = "request" /\ tasks'[s].call = call /\ tasks'[s].cookie = cookie
      /\ tasks'[s].mounted = tasks[s].mounted
  BY Awaiting DEF Inv
<1>2. Handles(s)
  BY <1>1, Types DEF Handles, Inv
<1>3. ButtonsComeBack'
  <2>1. \A b \in view.busy : b \in Buttons
    BY Types DEF Inv, ViewState
  <2> QED BY <1>1, <1>2, <2>1, HandlerButtons DEF Inv, Going
<1>4. ListOnce'
  BY <1>1, <1>2, HandlerList DEF Inv, Fills, Going
<1>5. Consistent'
  <2>1. {"list", "ask"} \cap AccountCalls = {}
    BY DEF AccountCalls
  <2> QED BY <1>1, <1>2, <2>1, HandlerConsistent DEF Inv, Going
<1> QED BY <1>1, <1>2, <1>3, <1>4, <1>5, HandlerInv

\* A dialog is confirmed: the call is sent with the cookie of now.
LEMMA ConfirmInv == ASSUME Inv, NEW s \in Slots, Confirm(s) PROVE Inv'
<1>1. /\ tasks[s].pc = "dialog" /\ Await(s, tasks[s].call, jar)
      /\ UNCHANGED <<jar, minted, overlapped>>
      /\ tasks[s].call \in {"login", "register", "delete", "logout", "logout_everywhere",
                            "delete_account"}
  BY DEF Confirm, Inv, DialogsAsk
<1>2. jar \in Tenants \cup {NULL} /\ tasks[s].call \in Calls
  BY <1>1, Types DEF Inv, Calls, AccountCalls, OtherCalls
<1>3. /\ tasks' \in [Slots -> Task] /\ \A q \in Slots : q # s => tasks'[q] = tasks[q]
      /\ tasks'[s].pc = "request" /\ tasks'[s].call = tasks[s].call /\ tasks'[s].cookie = jar
      /\ tasks'[s].mounted = tasks[s].mounted
  BY <1>1, <1>2, Awaiting DEF Inv
<1>4. /\ view' \in ViewState /\ view'.name = view.name /\ view'.anonDocs = view.anonDocs
      /\ view'.rows = view.rows /\ view'.refreshing = view.refreshing /\ view'.answer = view.answer
      /\ view'.busy \subseteq view.busy \cup {b \in {tasks[s].call} : tasks[s].mounted}
  <2>1. CASE UNCHANGED view
    BY <2>1, Types DEF Inv
  <2>2. CASE /\ tasks[s].call \in {"login", "register"} /\ tasks[s].mounted
             /\ view' = [view EXCEPT !.confirmed = TRUE, !.busy = @ \cup {tasks[s].call}]
    <3>1. PICK v \in ViewState : v = view
      BY Types DEF Inv
    <3>2. view' = [v EXCEPT !.confirmed = TRUE, !.busy = v.busy \cup {tasks[s].call}]
      BY <2>2, <3>1
    <3>3. tasks[s].call \in Buttons
      BY <2>2 DEF Buttons
    <3> DEFINE busy == v.busy \cup {tasks[s].call}
    <3>4. busy \in SUBSET Buttons
      BY <3>3 DEF ViewState
    <3>5. view' = [v EXCEPT !.confirmed = TRUE, !.busy = busy]
      BY <3>2
    <3>6. busy \subseteq v.busy \cup {b \in {tasks[s].call} : tasks[s].mounted}
      BY <2>2
    <3> HIDE DEF busy
    <3> QED BY <3>1, <3>4, <3>5, <3>6 DEF ViewState
  <2> QED BY <2>1, <2>2 DEF Confirm
<1>5. Handles(s)
  BY <1>1, <1>2, <1>3, <1>4, Types DEF Handles, Inv
<1>6. ButtonsComeBack'
  BY <1>1, <1>3, <1>4, <1>5, HandlerButtons DEF Inv
<1>7. ListOnce'
  BY <1>1, <1>3, <1>4, <1>5, HandlerList DEF Inv, Fills, Going
<1>8. Consistent'
  BY <1>1, <1>3, <1>4, <1>5, HandlerConsistent DEF Inv, Going
<1> QED BY <1>3, <1>5, <1>6, <1>7, <1>8, HandlerInv
LEMMA AnonymousLoginInv == ASSUME Inv, NEW s \in Slots, AnonymousLoginAnswered(s) PROVE Inv'
<1>1. PICK a \in Anons \ minted :
        jar' = a /\ minted' = minted \cup {a} /\ Await(s, "whoami", a)
  BY DEF AnonymousLoginAnswered
<1>2. /\ tasks[s].pc = "request" /\ tasks[s].call = "anonymous_login"
      /\ UNCHANGED <<view, overlapped>>
  BY DEF AnonymousLoginAnswered, Calling
<1>3. a \in Tenants \cup {NULL} /\ "whoami" \in Calls \ {"list"}
  BY DEF Tenants, Calls, AccountCalls
<1>4. /\ tasks' \in [Slots -> Task] /\ \A q \in Slots : q # s => tasks'[q] = tasks[q]
      /\ tasks'[s].pc = "request" /\ tasks'[s].call = "whoami" /\ tasks'[s].cookie = a
      /\ tasks'[s].mounted = tasks[s].mounted
  BY <1>1, <1>3, Awaiting DEF Inv
<1>5. Handles(s)
  BY <1>1, <1>2, <1>3, <1>4, Types DEF Handles, Inv
<1>6. ButtonsComeBack'
  BY <1>2, <1>4, <1>5, HandlerButtons DEF Inv
<1>7. ListOnce'
  BY <1>2, <1>4, <1>5, HandlerList DEF Inv, Fills, Going
<1>8. Consistent'
  BY <1>1, <1>2, <1>4, <1>5, HandlerConsistent DEF Inv, Going, AccountCalls
<1> QED BY <1>4, <1>5, <1>6, <1>7, <1>8, HandlerInv

\* Once the cookie is gone, the view is boot()'s to replace.
LEMMA SessionEndedInv == ASSUME Inv, NEW s \in Slots, SessionEnded(s) PROVE Inv'
<1>1. /\ tasks[s].pc = "request"
      /\ tasks[s].call \in {"logout", "logout_everywhere", "delete_account"}
      /\ jar' = NULL /\ Await(s, "whoami", NULL) /\ UNCHANGED <<minted, view, overlapped>>
  BY DEF SessionEnded, Calling, BootAgain
<1>2. /\ Going(s, AccountCalls \ {"whoami", "count_auth"}) /\ tasks[s].call \notin Buttons
      /\ "whoami" \in Calls \ {"list"} /\ "whoami" \in AccountCalls \ {"count_auth"}
  BY <1>1 DEF Going, AccountCalls, Buttons, Calls
<1> QED BY <1>1, <1>2, AwaitsInv

LEMMA CountedForEndInv == ASSUME Inv, NEW s \in Slots, CountedForEnd(s) PROVE Inv'
<1>1. /\ tasks[s].pc = "request" /\ tasks[s].call = "count_end"
      /\ UNCHANGED <<jar, minted, view, overlapped>> /\ jar \in Tenants \cup {NULL}
  BY Types DEF CountedForEnd, Calling, Inv
<1>2. /\ Going(s, AccountCalls \ {"whoami", "count_auth"}) /\ tasks[s].call \notin Buttons
      /\ "logout" \in Calls \ {"list"} /\ "logout" \in AccountCalls \ {"count_auth"}
  BY <1>1 DEF Going, AccountCalls, Buttons, Calls
<1>3. CASE Await(s, "logout", jar)
  BY <1>1, <1>2, <1>3, AwaitsInv
<1>4. CASE tasks' = [tasks EXCEPT ![s].pc = "dialog", ![s].call = "logout"]
  <2>1. PICK k \in Task : k = tasks[s]
    BY Types DEF Inv
  <2> DEFINE new == [k EXCEPT !.pc = "dialog", !.call = "logout"]
  <2>2. /\ new \in Task /\ new.pc = "dialog" /\ new.call = "logout" /\ new.cookie = k.cookie
        /\ new.mounted = k.mounted
    BY <1>2 DEF Task
  <2>3. tasks' = [tasks EXCEPT ![s] = new]
    BY <1>4, <2>1
  <2> HIDE DEF new
  <2>4. /\ tasks' \in [Slots -> Task] /\ \A q \in Slots : q # s => tasks'[q] = tasks[q]
        /\ tasks'[s] = new
    BY <2>2, <2>3, Types DEF Inv
  <2>5. Handles(s)
    BY <1>1, <2>4, Types DEF Handles, Inv
  <2>6. ButtonsComeBack'
    <3>1. \A b \in view.busy : b \in Buttons
      BY Types DEF Inv, ViewState
    <3> QED BY <1>1, <1>2, <2>5, <3>1, HandlerButtons DEF Inv
  <2>7. ListOnce'
    BY <1>1, <2>2, <2>4, <2>5, HandlerList DEF Inv, Fills, Going
  <2>8. Consistent'
    BY <1>1, <1>2, <2>2, <2>4, <2>5, HandlerConsistent DEF Inv, Going
  <2> QED BY <2>2, <2>4, <2>5, <2>6, <2>7, <2>8, HandlerInv
<1> QED BY <1>3, <1>4 DEF CountedForEnd

\* The only handler that fills the list fills it once.
LEMMA ListedInv == ASSUME Inv, NEW s \in Slots, Listed(s) PROVE Inv'
<1>1. /\ tasks[s].pc = "request" /\ tasks[s].call = "list" /\ tasks[s].cookie # NULL
      /\ Finish(s) /\ UNCHANGED <<jar, minted, overlapped>>
  BY DEF Listed, Calling
<1>2. ~ Going(s, {"whoami"}) /\ tasks[s].call \notin Buttons
  BY <1>1 DEF Going, Buttons
<1>3. CASE UNCHANGED view
  BY <1>1, <1>2, <1>3, EndsInv
<1>4. CASE tasks[s].mounted /\ view' = [view EXCEPT !.rows[tasks[s].cookie] = @ + 1]
  <2>1. /\ tasks' \in [Slots -> Task] /\ \A q \in Slots : q # s => tasks'[q] = tasks[q]
        /\ tasks'[s].pc = "idle"
    BY <1>1, Finishing DEF Inv
  <2>2. PICK v \in ViewState : v = view
    BY Types DEF Inv
  <2>3. PICK c \in Tenants : c = tasks[s].cookie
    BY <1>1, Types DEF Inv, Task
  <2> DEFINE rows == [v.rows EXCEPT ![c] = v.rows[c] + 1]
  <2>4. rows \in [Tenants -> Nat] /\ rows[c] = v.rows[c] + 1
        /\ \A t \in Tenants : t # c => rows[t] = v.rows[t]
    BY <2>2 DEF ViewState
  <2>5. view' = [v EXCEPT !.rows = rows]
    BY <1>4, <2>2, <2>3
  <2> HIDE DEF rows
  <2>6. /\ view' \in ViewState /\ view'.rows = rows /\ view'.name = v.name
        /\ view'.anonDocs = v.anonDocs /\ view'.refreshing = v.refreshing
        /\ view'.answer = v.answer /\ view'.busy = v.busy
    BY <2>4, <2>5 DEF ViewState
  <2>7. Handles(s)
    BY <1>1, <2>1, <2>2, <2>6, Types DEF Handles, Inv
  <2>8. \A calls : ~ Going(s, calls)'
    BY <2>1 DEF Going
  <2>9. ButtonsComeBack'
    <3>1. \A b \in view.busy : b \in Buttons
      BY Types DEF Inv, ViewState
    <3> QED BY <1>1, <1>2, <2>2, <2>6, <2>7, <3>1, HandlerButtons DEF Inv
  <2>10. ListOnce'
    <3> SUFFICES ASSUME ~ view.refreshing
                 PROVE  /\ \A q \in Slots : ~ Fills(q)'
                        /\ \A t \in Tenants : view'.rows[t] <= 1
      BY <2>2, <2>6 DEF ListOnce
    <3>1. /\ Fills(s) /\ view.rows = NoRows /\ \A q \in Slots : Fills(q) => q = s
      BY <1>1, <1>4 DEF Inv, ListOnce, Fills, Going
    <3>2. \A q \in Slots : ~ Fills(q)'
      BY <2>1, <2>8, <3>1 DEF Fills, Going
    <3>3. \A t \in Tenants : v.rows[t] = 0
      BY <2>2, <3>1, NoRowsAtAll
    <3> QED BY <2>4, <2>6, <3>2, <3>3
  <2>11. Consistent'
    <3>1. \A t \in Tenants : view'.rows[t] > 0 => view.rows[t] > 0 \/ t = tasks[s].cookie
      BY <2>2, <2>3, <2>4, <2>6
    <3>2. Going(s, {"list"})
      BY <1>1 DEF Going
    <3> QED BY <1>1, <1>2, <1>4, <2>2, <2>6, <2>7, <2>8, <3>1, <3>2, HandlerConsistent DEF Inv
  <2> QED BY <2>1, <2>7, <2>9, <2>10, <2>11, HandlerInv
<1> QED BY <1>3, <1>4 DEF Listed

LEMMA QuestionAnsweredInv == ASSUME Inv, NEW s \in Slots, QuestionAnswered(s) PROVE Inv'
<1>1. /\ tasks[s].pc = "request" /\ tasks[s].call = "ask"
      /\ Finish(s) /\ UNCHANGED <<jar, minted, overlapped>>
  BY DEF QuestionAnswered, Calling
<1>2. /\ tasks' \in [Slots -> Task] /\ \A q \in Slots : q # s => tasks'[q] = tasks[q]
      /\ tasks'[s].pc = "idle"
  BY <1>1, Finishing DEF Inv
<1>3. PICK v \in ViewState : v = view
  BY Types DEF Inv
<1>4. tasks[s].cookie \in Tenants \cup {NULL}
  BY Types DEF Inv, Task
<1>5. /\ view' \in ViewState /\ view'.name = v.name /\ view'.anonDocs = v.anonDocs
      /\ view'.rows = v.rows /\ view'.refreshing = v.refreshing /\ view'.busy \subseteq v.busy
      /\ tasks[s].mounted => "ask" \notin view'.busy
      /\ view'.answer = v.answer \/ (tasks[s].mounted /\ view'.answer = tasks[s].cookie)
  <2>1. CASE tasks[s].mounted
    <3>1. view' = [v EXCEPT !.answer = tasks[s].cookie, !.busy = v.busy \ {"ask"}]
      BY <1>3, <2>1 DEF QuestionAnswered
    <3> QED BY <1>4, <2>1, <3>1 DEF ViewState
  <2>2. CASE ~ tasks[s].mounted
    BY <1>3, <2>2 DEF QuestionAnswered
  <2> QED BY <2>1, <2>2
<1>6. Handles(s)
  BY <1>1, <1>2, <1>3, <1>5, Types DEF Handles, Inv
<1>7. \A calls : ~ Going(s, calls)'
  BY <1>2 DEF Going
<1>8. ButtonsComeBack'
  <2>1. \A b \in view'.busy : tasks[s].mounted => b # "ask"
    BY <1>5
  <2> QED BY <1>1, <1>3, <1>5, <1>6, <2>1, HandlerButtons DEF Inv
<1>9. ListOnce'
  BY <1>3, <1>5, <1>6, <1>7, HandlerList DEF Inv, Fills
<1>10. Consistent'
  <2>1. Going(s, {"ask"}) /\ ~ Going(s, {"whoami"})
    BY <1>1 DEF Going
  <2> QED BY <1>1, <1>3, <1>5, <1>6, <1>7, <2>1, HandlerConsistent DEF Inv
<1> QED BY <1>2, <1>6, <1>8, <1>9, <1>10, HandlerInv

\* refreshDocs clears the list it is about to fill.
LEMMA DocumentsChangedInv == ASSUME Inv, NEW s \in Slots, DocumentsChanged(s) PROVE Inv'
<1> DEFINE busy == view.busy \ {tasks[s].call}
           overlap == \E q \in Slots : Calling(q, {"list"}) /\ tasks[q].mounted
<1>1. /\ tasks[s].pc = "request" /\ tasks[s].call \in {"store", "delete"}
      /\ Await(s, "list", jar) /\ UNCHANGED <<jar, minted, overlapped>>
  BY DEF DocumentsChanged, Calling
<1>2. "list" \in Calls /\ jar \in Tenants \cup {NULL}
  BY Types DEF Calls, OtherCalls, Inv
<1>3. /\ tasks' \in [Slots -> Task] /\ \A q \in Slots : q # s => tasks'[q] = tasks[q]
      /\ tasks'[s].pc = "request" /\ tasks'[s].call = "list" /\ tasks'[s].cookie = jar
      /\ tasks'[s].mounted = tasks[s].mounted
  BY <1>1, <1>2, Awaiting DEF Inv
<1>4. PICK v \in ViewState : v = view
  BY Types DEF Inv
<1>5. busy \in SUBSET Buttons /\ overlap \in BOOLEAN
  BY Types DEF Inv, ViewState
<1>6. /\ view' \in ViewState /\ view'.name = v.name /\ view'.anonDocs = v.anonDocs
      /\ view'.answer = v.answer
      /\ tasks[s].mounted => view'.busy = busy /\ view'.rows = NoRows /\ view'.refreshing = overlap
      /\ ~ tasks[s].mounted => view' = view
  <2>1. CASE tasks[s].mounted
    <3>1. view' = [v EXCEPT !.rows = NoRows, !.busy = busy, !.refreshing = overlap]
      BY <1>4, <2>1 DEF DocumentsChanged, RowsCleared
    <3> HIDE DEF busy, overlap
    <3> QED BY <1>5, <2>1, <3>1, NoRowsAtAll DEF ViewState
  <2>2. CASE ~ tasks[s].mounted
    BY <1>4, <2>2 DEF DocumentsChanged
  <2> QED BY <2>1, <2>2
<1>7. Handles(s)
  BY <1>1, <1>3, <1>4, <1>6, Types DEF Handles, Inv
<1>8. ButtonsComeBack'
  <2>1. \A b \in view'.busy : b \in view.busy /\ b \in Buttons /\ (tasks[s].mounted => b # tasks[s].call)
    BY <1>6, Types DEF Inv, ViewState
  <2> QED BY <1>1, <1>7, <2>1, HandlerButtons DEF Inv
<1>9. ListOnce'
  <2>1. CASE tasks[s].mounted
    <3>1. \A t \in Tenants : view'.rows[t] <= 1
      BY <1>6, <2>1, NoRowsAtAll
    <3>2. ASSUME ~ overlap, NEW q \in Slots, Fills(q)' PROVE q = s
      <4> SUFFICES ASSUME q # s PROVE FALSE
        OBVIOUS
      <4>1. tasks'[q] = tasks[q] /\ Fills(q)
        BY <1>3, <3>2 DEF Fills, Going
      <4>2. tasks[q].pc = "request"
        <5>1. tasks[q].pc \in {"idle", "request", "dialog"}
          BY Types DEF Inv, Task
        <5> QED BY <4>1, <5>1 DEF Fills, Going, Inv, DialogsAsk
      <4> QED BY <3>2, <4>1, <4>2 DEF Calling, Fills, Going
    <3> HIDE DEF overlap
    <3> QED BY <1>6, <2>1, <3>1, <3>2 DEF ListOnce
  <2>2. CASE ~ tasks[s].mounted
    BY <1>3, <1>6, <1>7, <2>2, HandlerList DEF Inv, Fills
  <2> QED BY <2>1, <2>2
<1>10. Consistent'
  <2>1. ASSUME NEW t \in Tenants, view'.rows[t] > 0 PROVE view.rows[t] > 0
    <3>1. ~ NoRows[t] > 0
      BY NoRowsAtAll
    <3>2. ~ tasks[s].mounted
      BY <1>6, <2>1, <3>1
    <3> QED BY <1>6, <2>1, <3>2
  <2>2. ~ Going(s, {"whoami"})
    BY <1>1 DEF Going
  <2> QED BY <1>1, <1>3, <1>4, <1>6, <1>7, <2>1, <2>2, HandlerConsistent DEF Inv, Going, AccountCalls
<1> QED BY <1>3, <1>7, <1>8, <1>9, <1>10, HandlerInv

\* Each way a call can fail.
LEMMA FailsInv == ASSUME Inv, NEW s \in Slots, Fails(s) PROVE Inv'
<1>1. UNCHANGED <<jar, minted, overlapped>> /\ jar \in Tenants \cup {NULL}
  BY Types DEF Fails, Inv
<1>2. ASSUME Calling(s, {"whoami"}), Mount(s, View("fatal"), NULL) PROVE Inv'
  BY <1>1, <1>2, FatalInv
<1>3. ASSUME Calling(s, Buttons), Reenabled(s), Finish(s) PROVE Inv'
  <2>1. ~ Going(s, {"whoami"})
    BY <1>3 DEF Calling, Going, Buttons
  <2> QED BY <1>1, <1>3, <2>1, EndsInv
<1>4. ASSUME Calling(s, {"logout"}), Await(s, "whoami", jar), UNCHANGED view PROVE Inv'
  <2>1. /\ Going(s, AccountCalls \ {"whoami", "count_auth"}) /\ tasks[s].call \notin Buttons
        /\ "whoami" \in Calls \ {"list"} /\ "whoami" \in AccountCalls \ {"count_auth"}
    BY <1>4 DEF Calling, Going, AccountCalls, Buttons, Calls
  <2> QED BY <1>1, <1>4, <2>1, AwaitsInv
<1>5. ASSUME Calling(s, {"count_auth"}), Mount(s, AuthForms("none"), NULL) PROVE Inv'
  BY <1>1, <1>5, AuthFormsInv DEF Calling, Going
<1>6. ASSUME Calling(s, {"count_end"}), Await(s, "logout", jar), UNCHANGED view PROVE Inv'
  <2>1. /\ Going(s, AccountCalls \ {"whoami", "count_auth"}) /\ tasks[s].call \notin Buttons
        /\ "logout" \in Calls \ {"list"} /\ "logout" \in AccountCalls \ {"count_auth"}
    BY <1>6 DEF Calling, Going, AccountCalls, Buttons, Calls
  <2> QED BY <1>1, <1>6, <2>1, AwaitsInv
<1>7. ASSUME Calling(s, {"logout_everywhere", "delete_account", "list", "delete"}), Finish(s),
             UNCHANGED view
      PROVE  Inv'
  <2>1. ~ Going(s, {"whoami"}) /\ tasks[s].call \notin Buttons
    BY <1>7 DEF Calling, Going, Buttons
  <2> QED BY <1>1, <1>7, <2>1, EndsInv
<1> QED BY <1>2, <1>3, <1>4, <1>5, <1>6, <1>7 DEF Fails

LEMMA NextInv == Inv /\ [Next]_vars => Inv'
<1> SUFFICES ASSUME Inv, [Next]_vars PROVE Inv'
  OBVIOUS
<1>1. ASSUME NEW s \in Slots, Cancel(s) PROVE Inv'
  <2>1. ~ Going(s, {"whoami"}) /\ tasks[s].pc = "dialog"
    BY <1>1 DEF Cancel, Going, Inv, DialogsAsk
  <2> QED BY <1>1, <2>1, EndsInv DEF Cancel
<1>2. ASSUME NEW s \in Slots, Registered(s) PROVE Inv'
  <2>1. ~ Going(s, {"whoami"})
    BY <1>2 DEF Registered, Calling, Going
  <2> QED BY <1>2, <2>1, EndsInv DEF Registered
<1>3. ASSUME NEW s \in Slots, CountedForAuth(s) PROVE Inv'
  <2>1. PICK n \in {"none", "some"} : Mount(s, AuthForms(n), jar)
    BY <1>3 DEF CountedForAuth
  <2>2. /\ Going(s, {"count_auth"}) /\ UNCHANGED <<jar, minted, overlapped>>
        /\ jar \in Tenants \cup {NULL}
    BY <1>3, Types DEF CountedForAuth, Calling, Going, Inv
  <2> QED BY <2>1, <2>2, AuthFormsInv
<1>4. ASSUME NEW s \in Slots, Answered(s) PROVE Inv'
  BY <1>2, <1>3, <1>4, WhoamiInv, LoginInv, AnonymousLoginInv, SessionEndedInv,
     CountedForEndInv, ListedInv, QuestionAnsweredInv, DocumentsChangedInv
  DEF Answered
<1>5. CASE UNCHANGED vars
  <2>1. UNCHANGED <<jar, minted, view, tasks, overlapped>>
    BY <1>5 DEF vars
  <2> QED BY <2>1 DEF Inv, TypeOK, DialogsAsk, ButtonsComeBack, ListOnce, Consistent, Faithful,
                      NobodyAsks, Fills, Going
<1> QED BY <1>1, <1>4, <1>5, UserInv, LoadInv, BackInv, ConfirmInv, FailsInv DEF Next
-----------------------------------------------------------------------------
\* The invariant holds in every state of the tab.
THEOREM Invariance == Spec => []Inv
  BY InitInv, NextInv, PTL DEF Spec

\* The tab keeps its types.
THEOREM TypeCorrect == Spec => []TypeOK
  BY Invariance, PTL DEF Inv

\* A disabled button always has a handler in flight that will enable it.
THEOREM NoButtonIsLost == Spec => []ButtonsComeBack
  BY Invariance, PTL DEF Inv

\* Rows are listed once, unless refreshes overlapped.
THEOREM RowsOnce == Spec => []RowsAppearOnce
<1>1. Inv => RowsAppearOnce
  BY DEF Inv, ListOnce, RowsAppearOnce
<1> QED BY <1>1, Invariance, PTL

\* When no account handler is in flight nobody asks whoami.
LEMMA SettledIsFaithful == Inv /\ Settled => Faithful
<1> SUFFICES ASSUME Inv, Settled PROVE Faithful
  OBVIOUS
<1>1. NobodyAsks /\ ~ overlapped
  BY DEF Settled, InFlight, NobodyAsks, Going, AccountCalls
<1> QED BY <1>1 DEF Inv, Consistent

\* A workspace is mounted only over a session of its kind.
THEOREM ViewsMatch == Spec => []ViewMatchesSession
<1>1. Inv => ViewMatchesSession
  BY SettledIsFaithful DEF ViewMatchesSession, Faithful
<1> QED BY <1>1, Invariance, PTL

\* Neither the list nor the answer panel shows anything of a session the tab has left.
THEOREM NothingOfOthersShown == Spec => []RowsAreTheSessions
<1>1. Inv => RowsAreTheSessions
  BY SettledIsFaithful DEF RowsAreTheSessions, Faithful
<1> QED BY <1>1, Invariance, PTL
=============================================================================
