------------------------- MODULE PageRefreshProofs -------------------------
(* Safety of PageRefresh, for any pages and any number of presses.  The    *)
(* invariant says what a section will show once the request under way is   *)
(* shown: every applied write that the request was read without.           *)
EXTENDS PageRefresh, TLAPS

\* What a section may still miss.
Excused == section.gaps \cup unheard \cup Applied

\* The answer under way, once it is shown, will satisfy UpToDate.
ComingIsExcused == fetch = "read" => coming \subseteq Excused

\* An ended section is not fetched any more.
EndedIsQuiet == ~alive => fetch = "none"

\* A handler that runs is one of the page's.
RunningIsHandler ==
    \A i \in Presses : calls[i].phase \in {"sent", "applied"} => calls[i].handler \in handlers

\* Handlers that do not refetch the section are its gaps.
QuietIsGap == \A h \in handlers : ~Refetches(h) => h.name \in section.gaps

IInv ==
    /\ TypeOK
    /\ RunningIsHandler
    /\ QuietIsGap
    /\ EndedIsQuiet
    /\ ComingIsExcused
    /\ UpToDate

LEMMA InitHolds == Init => IInv
<1> SUFFICES ASSUME Init PROVE IInv
    OBVIOUS
<1> USE DEF Init, Presses
<1>1. TypeOK
    BY DEF TypeOK, CallType
<1>2. RunningIsHandler
    BY DEF RunningIsHandler
<1>3. QuietIsGap
    BY GapsAssumption DEF QuietIsGap, Writes, Refetches
<1>4. EndedIsQuiet /\ ComingIsExcused /\ UpToDate
    BY DEF EndedIsQuiet, ComingIsExcused, UpToDate
<1> QED BY <1>1, <1>2, <1>3, <1>4 DEF IInv

\* Steps that leave handlers, section and the running calls alone.
LEMMA FetchHolds == IInv /\ Fetches => IInv'
<1> SUFFICES ASSUME IInv, Fetches PROVE IInv'
    OBVIOUS
<1> USE DEF IInv, constants
<1>1. UNCHANGED <<section, handlers, calls, unheard>>
    BY DEF Fetches, ReadSection, ShowSection, FailSection
<1>2. RunningIsHandler' /\ QuietIsGap'
    BY <1>1 DEF RunningIsHandler, QuietIsGap, Presses, Refetches
<1>3. Excused' = Excused /\ Applied' = Applied /\ Names' = Names /\ CallType' = CallType
    BY <1>1 DEF Excused, Applied, Presses, Names, CallType
<1>4. CASE ReadSection
    <2> USE DEF ReadSection
    <2>1. TypeOK'
        BY <1>1, <1>3, <1>4 DEF TypeOK, Presses, CallType
    <2>2. EndedIsQuiet' /\ ComingIsExcused' /\ UpToDate'
        BY <1>4 DEF EndedIsQuiet, ComingIsExcused, UpToDate
    <2> QED BY <1>2, <2>1, <2>2
<1>5. CASE ShowSection
    <2> USE DEF ShowSection, NoFetch
    <2>1. TypeOK'
        BY <1>1, <1>3, <1>5 DEF TypeOK, Presses, CallType
    <2>2. stale' \subseteq Excused'
        BY <1>3, <1>5 DEF ComingIsExcused
    <2>3. EndedIsQuiet' /\ ComingIsExcused' /\ UpToDate'
        BY <1>5, <2>2 DEF EndedIsQuiet, ComingIsExcused, UpToDate, Excused
    <2> QED BY <1>2, <2>1, <2>3
<1>6. CASE FailSection
    <2> USE DEF FailSection, NoFetch
    <2>1. alive' \in BOOLEAN
        BY <1>6
    <2>2. TypeOK'
        BY <1>1, <1>3, <1>6, <2>1 DEF TypeOK, Presses, CallType
    <2>3. EndedIsQuiet' /\ ComingIsExcused' /\ UpToDate'
        BY <1>6 DEF EndedIsQuiet, ComingIsExcused, UpToDate
    <2> QED BY <1>2, <2>2, <2>3
<1> QED BY <1>4, <1>5, <1>6 DEF Fetches

\* What follows when one call changes and the section is not fetched: only
\* the end of an applied call can take a name from what is excused.
LEMMA CallHolds ==
    ASSUME IInv, NEW i \in Presses, NEW c \in CallType,
           calls' = [calls EXCEPT ![i] = c],
           c.phase \in {"sent", "applied"} => c.handler \in handlers,
           UNCHANGED <<section, handlers, fetch, alive, stale, coming>>,
           unheard' \subseteq Names, unheard \subseteq unheard',
           calls[i].phase = "applied" =>
               (c.phase = "applied" /\ c.handler = calls[i].handler)
               \/ calls[i].handler.name \in section.gaps \cup unheard'
    PROVE  IInv'
<1> USE DEF IInv
<1>1. TypeOK'
    BY DEF TypeOK, CallType, Names, Presses
<1>2. RunningIsHandler' /\ QuietIsGap'
    BY DEF RunningIsHandler, QuietIsGap, Refetches, TypeOK
<1>3. Excused \subseteq Excused'
    <2>1. \A j \in Presses \ {i} : calls'[j] = calls[j]
        BY DEF TypeOK
    <2>2. calls'[i] = c
        BY DEF TypeOK
    <2>3. ASSUME NEW j \in Presses, calls[j].phase = "applied"
          PROVE  calls[j].handler.name \in Excused'
        <3>1. CASE j # i
            BY <2>1, <2>3, <3>1 DEF Excused, Applied, Presses
        <3>2. CASE j = i
            BY <2>2, <2>3, <3>2 DEF Excused, Applied, Presses
        <3> QED BY <3>1, <3>2
    <2> QED BY <2>3 DEF Excused, Applied
<1>4. EndedIsQuiet' /\ ComingIsExcused' /\ UpToDate'
    BY <1>3 DEF EndedIsQuiet, ComingIsExcused, UpToDate, Excused
<1> QED BY <1>1, <1>2, <1>4

LEMMA PressHolds == ASSUME IInv, NEW h \in handlers, Press(h) PROVE IInv'
<1> USE DEF IInv, constants, Press
<1> DEFINE c == [handler |-> h, phase |-> "sent", heard |-> TRUE]
<1>1. PICK i \in Presses : calls[i].phase = "idle" /\ calls' = [calls EXCEPT ![i] = c]
    OBVIOUS
<1>2. c \in CallType
    BY DEF CallType
<1>3. unheard' \subseteq Names
    BY DEF TypeOK
<1> QED BY <1>1, <1>2, <1>3, CallHolds

LEMMA DismissHolds == ASSUME IInv, NEW i \in Presses, Dismiss(i) PROVE IInv'
<1> USE DEF IInv, constants, Dismiss
<1> DEFINE c == [calls[i] EXCEPT !.heard = FALSE]
<1>1. calls[i] \in CallType
    BY DEF TypeOK
<1>2. c \in CallType /\ c.phase = calls[i].phase /\ c.handler = calls[i].handler
    BY <1>1 DEF CallType
<1>3. calls' = [calls EXCEPT ![i] = c] /\ unheard' \subseteq Names
    BY DEF TypeOK
<1>4. c.phase \in {"sent", "applied"} => c.handler \in handlers
    BY <1>2 DEF RunningIsHandler
<1> QED BY <1>2, <1>3, <1>4, CallHolds

LEMMA RefuseHolds == ASSUME IInv, NEW i \in Presses, Refuse(i) PROVE IInv'
<1> USE DEF IInv, constants, Refuse, Ended
<1> DEFINE c == [handler |-> NoHandler, phase |-> "done", heard |-> TRUE]
<1>1. c \in CallType /\ unheard' \subseteq Names
    BY DEF CallType, TypeOK
<1> QED BY <1>1, CallHolds

LEMMA EndUnheardHolds == ASSUME IInv, NEW i \in Presses, EndUnheard(i) PROVE IInv'
<1> USE DEF IInv, constants, EndUnheard, Ended
<1> DEFINE c == [handler |-> NoHandler, phase |-> "done", heard |-> TRUE]
<1>1. calls[i].handler.name \in Names
    BY DEF RunningIsHandler, Names
<1>2. c \in CallType /\ unheard' \subseteq Names
    BY <1>1 DEF CallType, TypeOK
<1>3. calls[i].handler.name \in section.gaps \cup unheard'
    OBVIOUS
<1> QED BY <1>2, <1>3, CallHolds

\* The write becomes excused together with becoming stale.
LEMMA ApplyHolds == ASSUME IInv, NEW i \in Presses, Apply(i) PROVE IInv'
<1> USE DEF IInv, constants, Apply
<1>1. calls[i] \in CallType /\ calls[i].handler.name \in Names
    BY DEF TypeOK, RunningIsHandler, Names
<1>2. /\ calls'[i].phase = "applied" /\ calls'[i].handler = calls[i].handler
      /\ \A j \in Presses \ {i} : calls'[j] = calls[j]
      /\ calls' \in [Presses -> CallType]
    BY <1>1 DEF TypeOK, CallType
<1>3. Names' = Names /\ CallType' = CallType /\ Presses' = Presses
    BY DEF Names, CallType, Presses
<1>4. TypeOK'
    BY <1>1, <1>2, <1>3 DEF TypeOK
<1>5. RunningIsHandler' /\ QuietIsGap'
    BY <1>2, <1>3 DEF RunningIsHandler, QuietIsGap, Refetches
<1>6. Excused \cup {calls[i].handler.name} \subseteq Excused'
    <2>1. Applied \subseteq Applied' /\ calls[i].handler.name \in Applied'
        BY <1>2, <1>3 DEF Applied
    <2> QED BY <2>1 DEF Excused
<1>7. EndedIsQuiet' /\ ComingIsExcused' /\ UpToDate'
    BY <1>6 DEF EndedIsQuiet, ComingIsExcused, UpToDate, Excused
<1> QED BY <1>4, <1>5, <1>7

\* A handler that fires what the section hears starts a fetch; another one
\* is a gap.
LEMMA SucceedHolds == ASSUME IInv, NEW i \in Presses, Succeed(i) PROVE IInv'
<1> USE DEF IInv, constants, Succeed, Ended
<1> DEFINE c == [handler |-> NoHandler, phase |-> "done", heard |-> TRUE]
           h == calls[i].handler
<1>1. c \in CallType /\ unheard' \subseteq Names /\ h \in handlers
    BY DEF CallType, TypeOK, RunningIsHandler
<1>2. CASE alive /\ Refetches(h)
    <2>1. fetch' = "sent"
        BY <1>2 DEF Refetch
    <2>2. calls' \in [Presses -> CallType]
        BY <1>1 DEF TypeOK
    <2>3. TypeOK'
        BY <1>1, <2>1, <2>2 DEF TypeOK, Names, CallType, Presses
    <2>4. RunningIsHandler' /\ QuietIsGap'
        BY DEF RunningIsHandler, QuietIsGap, Refetches, TypeOK
    <2>5. EndedIsQuiet' /\ ComingIsExcused' /\ UpToDate'
        BY <1>2, <2>1 DEF EndedIsQuiet, ComingIsExcused, UpToDate
    <2> QED BY <2>3, <2>4, <2>5
<1>3. CASE alive /\ ~Refetches(h)
    <2>1. fetch' = fetch
        BY <1>3 DEF Refetch
    <2>2. h.name \in section.gaps
        BY <1>1, <1>3 DEF QuietIsGap
    <2> QED BY <1>1, <2>1, <2>2, CallHolds
<1>4. CASE ~alive
    <2>1. fetch' = "none" /\ fetch = "none"
        BY <1>4 DEF Refetch, EndedIsQuiet
    <2>2. calls' \in [Presses -> CallType]
        BY <1>1 DEF TypeOK
    <2>3. TypeOK'
        BY <1>1, <2>1, <2>2 DEF TypeOK, Names, CallType, Presses
    <2>4. RunningIsHandler' /\ QuietIsGap'
        BY DEF RunningIsHandler, QuietIsGap, Refetches, TypeOK
    <2>5. EndedIsQuiet' /\ ComingIsExcused' /\ UpToDate'
        BY <1>4, <2>1 DEF EndedIsQuiet, ComingIsExcused, UpToDate
    <2> QED BY <2>3, <2>4, <2>5
<1> QED BY <1>2, <1>3, <1>4

LEMMA StutterHolds == IInv /\ UNCHANGED vars => IInv'
<1> SUFFICES ASSUME IInv, UNCHANGED vars PROVE IInv'
    OBVIOUS
<1> QED BY DEF IInv, vars, constants, TypeOK, Names, CallType, Presses, RunningIsHandler,
               QuietIsGap, Refetches, EndedIsQuiet, ComingIsExcused, Excused, Applied, UpToDate

LEMMA StepHolds == IInv /\ [Next]_vars => IInv'
<1> SUFFICES ASSUME IInv, [Next]_vars PROVE IInv'
    OBVIOUS
<1>1. CASE Fetches
    BY <1>1, FetchHolds
<1>2. CASE \E h \in handlers : Press(h)
    BY <1>2, PressHolds
<1>3. ASSUME NEW i \in Presses, Dismiss(i) \/ Responds(i) PROVE IInv'
    BY <1>3, DismissHolds, ApplyHolds, SucceedHolds, EndUnheardHolds, RefuseHolds DEF Responds
<1>4. CASE UNCHANGED vars
    BY <1>4, StutterHolds
<1> QED BY <1>1, <1>2, <1>3, <1>4 DEF Next

\* The state of a page's section keeps its types (page components and their
\* observables).
THEOREM TypeCorrect == Spec => []TypeOK
<1>1. IInv => TypeOK
    BY DEF IInv
<1> QED BY <1>1, InitHolds, StepHolds, PTL DEF Spec

\* For any pages, handlers and number of presses: a section that is not being
\* fetched misses no write the page was told of, but its gaps (switchMap on
\* the refresh subjects of the pages).
THEOREM SectionUpToDate == Spec => []UpToDate
<1>1. IInv => UpToDate
    BY DEF IInv
<1> QED BY <1>1, InitHolds, StepHolds, PTL DEF Spec
=============================================================================
