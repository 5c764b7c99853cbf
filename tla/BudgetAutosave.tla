--------------------------- MODULE BudgetAutosave ---------------------------
(***************************************************************************)
(* The budget table of a fund source allocation saves itself: leaving a    *)
(* cell starts a timer, the timer sends all rows, a newer save makes the   *)
(* page forget the older one (`switchMap'), and the answer reloads the     *)
(* table, replacing every row.  Nothing waits for anything: the user types *)
(* on, other parts of the page reload the table too, and a save the page   *)
(* has forgotten may still reach the database, even after a newer one.     *)
(*                                                                         *)
(* Edits are numbered; a cell holds the number of the edit it shows.       *)
(***************************************************************************)
EXTENDS Naturals, FiniteSets

CONSTANTS
    Cells,        \* amounts and notes of the table
    MaxEdits,     \* bound: edits typed
    MaxSaves,     \* bound: saves sent
    MaxRefreshes  \* bound: reloads started by the rest of the page

ASSUME BoundsAssumption ==
    MaxEdits \in Nat /\ MaxSaves \in Nat \ {0} /\ MaxRefreshes \in Nat

Contents == [Cells -> 0..MaxEdits]
Saves == 1..MaxSaves
Unedited == [c \in Cells |-> 0]

VARIABLES
    page,       \* "open" or "left"
    edits,      \* how many edits were typed
    latest,     \* of each cell: the last edit typed into it
    rows,       \* what the table shows (budgetLineItemRows)
    focus,      \* the cell the user is in, if any
    timer,      \* debounceTime is running
    alive,      \* budgetSave$ still has its subscriber
    sent,       \* how many saves were sent
    content,    \* of each save: the rows it carries
    state,      \* of each save: "unsent", "sent", "applied", "refused", "lost"
    listening,  \* the save whose answer the page waits for, 0 if none
    told,       \* the save of the last "Saved successfully.", 0 if none
    stored,     \* the rows in the database
    reload,     \* "none", "sent", "read"
    fetched,    \* what the reload read
    loading,    \* budgetLineItems$ still has its subscriber
    refreshes,  \* how often the rest of the page reloaded the table
    clobbered,  \* cells whose last edit a reload took out of the table
    overtaken   \* a save was applied after a newer one

user     == <<page, edits, latest, focus>>
table    == <<rows, clobbered>>
saver    == <<timer, alive, listening, told>>
requests == <<sent, content, state>>
server   == <<stored, overtaken>>
reloads  == <<reload, fetched, loading, refreshes>>
vars == <<user, table, saver, requests, server, reloads>>

\* The page after its first load.
Init ==
    /\ page = "open" /\ edits = 0 /\ latest = Unedited /\ focus = {}
    /\ rows = Unedited /\ clobbered = {}
    /\ timer = FALSE /\ alive = TRUE /\ listening = 0 /\ told = 0
    /\ sent = 0
    /\ content = [i \in Saves |-> Unedited]
    /\ state = [i \in Saves |-> "unsent"]
    /\ stored = Unedited /\ overtaken = FALSE
    /\ reload = "none" /\ fetched = Unedited /\ loading = TRUE /\ refreshes = 0

-----------------------------------------------------------------------------
\* The user.

Focus(c) ==
    /\ page = "open" /\ focus = {}
    /\ focus' = {c}
    /\ UNCHANGED <<page, edits, latest, table, saver, requests, server, reloads>>

Type(c) ==
    /\ focus = {c} /\ edits < MaxEdits
    /\ edits' = edits + 1
    /\ latest' = [latest EXCEPT ![c] = edits']
    /\ rows' = [rows EXCEPT ![c] = edits']
    /\ clobbered' = clobbered \ {c}
    /\ UNCHANGED <<page, focus, saver, requests, server, reloads>>

\* Mutant: a save in flight keeps the timer from starting.
StartTimerIfIdle == timer' = (alive /\ listening = 0)
\* budgetSave$.next(); without a subscriber nothing happens.
StartTimer == timer' = alive

\* onBudgetLineItemBlur, on every focusout.
Blur(c) ==
    /\ focus = {c}
    /\ focus' = {}
    /\ StartTimer
    /\ UNCHANGED <<page, edits, latest, table, alive, listening, told, requests,
                   server, reloads>>

\* The subscriptions end with the page; requests already sent do not.
Leave ==
    /\ page = "open"
    /\ page' = "left" /\ focus' = {}
    /\ timer' = FALSE /\ listening' = 0 /\ reload' = "none"
    /\ UNCHANGED <<edits, latest, table, alive, told, requests, server, fetched,
                   loading, refreshes>>

-----------------------------------------------------------------------------
\* Saving.

\* The timer runs out: all rows are sent, an older save is forgotten.
Send ==
    /\ timer /\ sent < MaxSaves
    /\ timer' = FALSE
    /\ sent' = sent + 1 /\ listening' = sent'
    /\ content' = [content EXCEPT ![sent'] = rows]
    /\ state' = [state EXCEPT ![sent'] = "sent"]
    /\ UNCHANGED <<user, table, alive, told, server, reloads>>

\* Mutant: rows that exist are not updated.
WrittenIfNew(i) == [c \in Cells |-> IF stored[c] = 0 THEN content[i][c] ELSE stored[c]]
\* SaveBudgetLineItemsAsync writes all rows of the request.
Written(i) == content[i]

Apply(i) ==
    /\ state[i] = "sent"
    /\ state' = [state EXCEPT ![i] = "applied"]
    /\ stored' = Written(i)
    /\ overtaken' = (overtaken \/ \E j \in Saves : j > i /\ state[j] = "applied")
    /\ UNCHANGED <<user, table, saver, sent, content, reloads>>

Refuse(i) ==
    /\ state[i] = "sent"
    /\ state' = [state EXCEPT ![i] = "refused"]
    /\ UNCHANGED <<user, table, saver, sent, content, server, reloads>>

\* A request the page has forgotten does not reach the server.
Abort(i) ==
    /\ state[i] = "sent" /\ listening # i
    /\ state' = [state EXCEPT ![i] = "lost"]
    /\ UNCHANGED <<user, table, saver, sent, content, server, reloads>>

\* Every reload replaces the one in flight (`switchMap').
Reload ==
    /\ reload' = IF loading THEN "sent" ELSE "none"
    /\ fetched' = Unedited
    /\ UNCHANGED loading

\* Mutant: a success does not reload the table.
NoReload == UNCHANGED <<reload, fetched, loading>>
ReloadAfterSave == Reload

\* Mutant: a success is announced before the answer.
AnsweredEarly(i) == state[i] \in {"sent", "applied"}
Answered(i) == state[i] = "applied"

Succeed(i) ==
    /\ listening = i /\ Answered(i)
    /\ listening' = 0 /\ told' = i
    /\ ReloadAfterSave
    /\ UNCHANGED <<user, table, timer, alive, requests, server, refreshes>>

\* Refused, or the connection fails: the stream of saves ends for good, and
\* with it a timer that is running.
Fail(i) ==
    /\ listening = i
    /\ listening' = 0
    /\ alive' = FALSE /\ timer' = FALSE
    /\ UNCHANGED <<user, table, told, requests, server, reloads>>

-----------------------------------------------------------------------------
\* Reloading.

\* A note, a file or the allocation itself was edited: everything reloads.
Refresh ==
    /\ page = "open" /\ refreshes < MaxRefreshes
    /\ refreshes' = refreshes + 1
    /\ Reload
    /\ UNCHANGED <<user, table, saver, requests, server>>

Read ==
    /\ reload = "sent"
    /\ reload' = "read" /\ fetched' = stored
    /\ UNCHANGED <<user, table, saver, requests, server, loading, refreshes>>

\* Mutant: the table is emptied.
DropRows == rows' = [c \in {} |-> 0]
\* New form controls for every row, also where the user has typed.
ReplaceRows == rows' = fetched

Arrive ==
    /\ reload = "read"
    /\ reload' = "none" /\ fetched' = Unedited
    /\ ReplaceRows
    /\ clobbered' = clobbered \cup {c \in Cells : rows[c] = latest[c] /\ fetched[c] # latest[c]}
    /\ UNCHANGED <<user, saver, requests, server, loading, refreshes>>

\* One failed reload ends that stream too: the table is not replaced again.
ReloadFails ==
    /\ reload # "none"
    /\ reload' = "none" /\ fetched' = Unedited
    /\ loading' = FALSE
    /\ UNCHANGED <<user, table, saver, requests, server, refreshes>>

Reach(i) == Apply(i) \/ Refuse(i)
Answer(i) == Succeed(i) \/ Fail(i)

Next ==
    \/ \E c \in Cells : Focus(c) \/ Type(c) \/ Blur(c)
    \/ Leave
    \/ Send
    \/ \E i \in Saves : Reach(i) \/ Abort(i) \/ Answer(i)
    \/ Refresh \/ Read \/ Arrive \/ ReloadFails

\* The timer runs out, and the browser ends every request it waits for.
Fairness ==
    /\ WF_vars(Send)
    /\ \A i \in Saves : WF_vars(listening = i /\ Reach(i)) /\ WF_vars(Answer(i))
    /\ WF_vars(Read) /\ WF_vars(Arrive \/ ReloadFails)

Spec == Init /\ [][Next]_vars /\ Fairness
-----------------------------------------------------------------------------
\* Properties.

TypeOK ==
    /\ page \in {"open", "left"}
    /\ edits \in 0..MaxEdits /\ latest \in Contents /\ rows \in Contents
    /\ focus \subseteq Cells
    /\ timer \in BOOLEAN /\ alive \in BOOLEAN
    /\ sent \in 0..MaxSaves
    /\ content \in [Saves -> Contents]
    /\ state \in [Saves -> {"unsent", "sent", "applied", "refused", "lost"}]
    /\ listening \in 0..MaxSaves /\ told \in 0..MaxSaves
    /\ stored \in Contents /\ fetched \in Contents
    /\ reload \in {"none", "sent", "read"} /\ loading \in BOOLEAN
    /\ refreshes \in 0..MaxRefreshes
    /\ clobbered \subseteq Cells /\ overtaken \in BOOLEAN

\* "Saved successfully." is true: what the save carried is in the database,
\* until a newer save, or an older one that was forgotten, writes over it.
SavedMeansStored ==
    told # 0 /\ told = sent /\ ~overtaken => stored = content[told]

Quiet ==
    /\ page = "open" /\ focus = {} /\ ~timer /\ listening = 0 /\ reload = "none"
    /\ \A i \in Saves : state[i] # "sent"

\* Once all is quiet and nothing has failed, what the user last typed is in
\* the database, unless a reload took it out of the table first, or a
\* forgotten save arrived late.
NoEditLost ==
    Quiet /\ alive /\ ~overtaken =>
        \A c \in Cells : stored[c] = latest[c] \/ c \in clobbered

\* Once all is quiet and nothing has failed, the table shows what is stored,
\* unless a forgotten save arrived late.
TableIsStored ==
    Quiet /\ alive /\ loading /\ ~overtaken => rows = stored

\* An edit whose cell was left reaches the database, unless a newer one
\* replaces it, a reload takes it out of the table, a save fails or the
\* page is left.
EditSettles ==
    \A c \in Cells, k \in 1..MaxEdits :
        (latest[c] = k /\ timer /\ sent < MaxSaves)
            ~> (stored[c] = k \/ latest[c] # k \/ c \in clobbered \/ ~alive \/ page = "left")
=============================================================================
