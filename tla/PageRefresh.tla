---------------------------- MODULE PageRefresh ----------------------------
(***************************************************************************)
(* One section of a page of the web client: a grid, a panel or a list that *)
(* an observable of the page fetches, and fetches again whenever one of    *)
(* the page's refresh subjects fires.  The page's handlers write through   *)
(* a dialog or a request behind a confirmation, and fire subjects when     *)
(* they hear of a success.  Sections do not influence each other, so a     *)
(* behaviour follows one of them, of one page of PageTable.                *)
(*                                                                         *)
(* A request is refused, or applied and answered, or applied with its      *)
(* answer lost.                                                            *)
(***************************************************************************)
EXTENDS Naturals

CONSTANTS
    Pages,        \* rows, see PageType
    MaxPresses    \* bound: how many handlers run

SectionType == [name : STRING, reads : SUBSET STRING, hears : SUBSET STRING,
                ends : BOOLEAN, gaps : SUBSET STRING]
HandlerType == [name : STRING, modal : BOOLEAN,
                writes : SUBSET STRING, fires : SUBSET STRING]
PageType == [name : STRING, sections : SUBSET SectionType, handlers : SUBSET HandlerType]

ASSUME PagesAssumption == Pages \subseteq PageType
ASSUME PressesAssumption == MaxPresses \in Nat

\* A row names the handlers that write what a section reads, but fire
\* nothing that it hears.
ASSUME GapsAssumption ==
    \A page \in Pages : \A s \in page.sections : \A h \in page.handlers :
        h.writes \cap s.reads # {} /\ h.fires \cap s.hears = {} => h.name \in s.gaps

VARIABLES
    section,    \* the section that is followed
    handlers,   \* those of its page that write what it reads or refetch it
    fetch,      \* its request: "none", "sent", "read"
    alive,      \* FALSE: an error ended the observable
    stale,      \* handlers whose writes the section does not show
    coming,     \* handlers whose writes the answer under way lacks
    calls,      \* the handlers that run: [handler, phase, heard]
    unheard     \* handlers that were applied, but the page never heard of it

constants == <<section, handlers>>
vars == <<section, handlers, fetch, alive, stale, coming, calls, unheard>>

Presses == 1..MaxPresses
NoHandler == [name |-> "none", modal |-> FALSE, writes |-> {}, fires |-> {}]
Writes(h) == h.writes \cap section.reads # {}
Refetches(h) == h.fires \cap section.hears # {}
Busy(i) == calls[i].phase \in {"sent", "applied"}
\* A dialog covers the page until it is closed.
Covered == \E i \in Presses : Busy(i) /\ calls[i].handler.modal /\ calls[i].heard

Init ==
    /\ \E page \in Pages :
           /\ section \in page.sections
           /\ handlers = {h \in page.handlers : Writes(h) \/ Refetches(h)}
    /\ fetch = "sent" /\ alive = TRUE
    /\ stale = {} /\ coming = {} /\ unheard = {}
    /\ calls = [i \in Presses |-> [handler |-> NoHandler, phase |-> "idle", heard |-> TRUE]]

-----------------------------------------------------------------------------
\* The section's observable.

ReadSection ==
    /\ fetch = "sent"
    /\ fetch' = "read" /\ coming' = {}
    /\ UNCHANGED <<constants, alive, stale, calls, unheard>>

\* Mutant: the request ends in a phase no section knows.
NoFetchUnknown == fetch' = "shown"
NoFetch == fetch' = "none"

ShowSection ==
    /\ fetch = "read"
    /\ NoFetch
    /\ stale' = coming /\ coming' = {}
    /\ UNCHANGED <<constants, alive, calls, unheard>>

\* An error ends the observable, unless it is caught or the page makes a new
\* one for every refresh: then the section is empty until the next refresh.
FailSection ==
    /\ fetch # "none"
    /\ NoFetch
    /\ alive' = ~section.ends
    /\ stale' = IF section.ends THEN stale ELSE {}
    /\ coming' = {}
    /\ UNCHANGED <<constants, calls, unheard>>

\* Mutants: exhaustMap for switchMap; the callback forgets the subject.
RefetchIfIdle(h) ==
    fetch' = IF alive /\ Refetches(h) /\ fetch = "none" THEN "sent" ELSE fetch
RefetchForgotten(h) == UNCHANGED fetch
\* switchMap: a fetch under way is replaced.
Refetch(h) == fetch' = IF alive /\ Refetches(h) THEN "sent" ELSE fetch

-----------------------------------------------------------------------------
\* The handlers.

Press(h) ==
    /\ ~Covered
    /\ \E i \in Presses :
        /\ calls[i].phase = "idle" /\ \A j \in 1..(i - 1) : calls[j].phase # "idle"
        /\ calls' = [calls EXCEPT ![i] = [handler |-> h, phase |-> "sent", heard |-> TRUE]]
    /\ UNCHANGED <<constants, fetch, alive, stale, coming, unheard>>

Dismiss(i) ==
    /\ Busy(i) /\ calls[i].handler.modal /\ calls[i].heard
    /\ calls' = [calls EXCEPT ![i].heard = FALSE]
    /\ UNCHANGED <<constants, fetch, alive, stale, coming, unheard>>

Apply(i) ==
    LET new == IF Writes(calls[i].handler) THEN {calls[i].handler.name} ELSE {}
    IN  /\ calls[i].phase = "sent"
        /\ calls' = [calls EXCEPT ![i].phase = "applied"]
        /\ stale' = stale \cup new
        /\ coming' = IF fetch = "read" THEN coming \cup new ELSE coming
        /\ UNCHANGED <<constants, fetch, alive, unheard>>

Ended(i) == calls' = [calls EXCEPT ![i] = [handler |-> NoHandler, phase |-> "done", heard |-> TRUE]]

Succeed(i) ==
    /\ calls[i].phase = "applied" /\ calls[i].heard
    /\ Ended(i)
    /\ Refetch(calls[i].handler)
    /\ UNCHANGED <<constants, alive, stale, coming, unheard>>

\* The answer is lost, or nobody waits for it any more.
EndUnheard(i) ==
    /\ calls[i].phase = "applied"
    /\ Ended(i)
    /\ unheard' = unheard \cup {calls[i].handler.name}
    /\ UNCHANGED <<constants, fetch, alive, stale, coming>>

Refuse(i) ==
    /\ calls[i].phase = "sent"
    /\ Ended(i)
    /\ UNCHANGED <<constants, fetch, alive, stale, coming, unheard>>

Fetches == ReadSection \/ ShowSection \/ FailSection
Responds(i) == Apply(i) \/ Succeed(i) \/ EndUnheard(i) \/ Refuse(i)

Next ==
    \/ Fetches
    \/ \E h \in handlers : Press(h)
    \/ \E i \in Presses : Dismiss(i) \/ Responds(i)

\* The browser ends every request with an answer or with an error.
Fairness == WF_vars(Fetches) /\ \A i \in Presses : WF_vars(Responds(i))

Spec == Init /\ [][Next]_vars /\ Fairness
-----------------------------------------------------------------------------
\* Properties.

Names == {h.name : h \in handlers}
CallType == [handler : handlers \cup {NoHandler},
             phase : {"idle", "sent", "applied", "done"}, heard : BOOLEAN]
TypeOK ==
    /\ fetch \in {"none", "sent", "read"} /\ alive \in BOOLEAN
    /\ stale \subseteq Names /\ coming \subseteq Names /\ unheard \subseteq Names
    /\ calls \in [Presses -> CallType]

Applied == {calls[i].handler.name : i \in {j \in Presses : calls[j].phase = "applied"}}

\* A section that is not being fetched shows every write the page was told
\* of, whatever the order of requests, answers and refetches: but for the
\* writes whose handlers do not fire what the section hears, which the
\* section's row names.
UpToDate == alive /\ fetch = "none" => stale \subseteq section.gaps \cup unheard \cup Applied

\* So every write is shown in the end, unless an error ended the section.
WritesAreShown ==
    ~(stale \subseteq section.gaps \cup unheard) ~>
        (stale \subseteq section.gaps \cup unheard) \/ ~alive
=============================================================================
