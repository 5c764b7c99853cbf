------------------------ MODULE BudgetAutosaveProofs ------------------------
(***************************************************************************)
(* The safety properties of BudgetAutosave, for any table and any number   *)
(* of edits, saves and reloads.                                            *)
(*                                                                         *)
(* While the page is open and no save has failed, the last save sent is    *)
(* waited for or applied, and what was last typed into a cell is either in *)
(* that save, or waits for the timer, or was taken out of the table.       *)
(***************************************************************************)
EXTENDS BudgetAutosave, TLAPS

Live == page = "open" /\ alive
Resting(c) == ~timer /\ focus # {c}

\* Saves are sent in order, and the last one is pending or applied.
SavesOK ==
    /\ \A i \in Saves : i > sent => state[i] = "unsent"
    /\ listening # 0 => listening = sent
    /\ told <= sent
    /\ Live /\ sent > 0 => listening = sent \/ state[sent] = "applied"
    /\ told # 0 /\ told = sent => state[sent] = "applied"
    /\ page = "left" => ~timer /\ listening = 0 /\ reload = "none" /\ focus = {}

\* The database holds the last save that was applied.
StoredOK ==
    /\ sent = 0 => stored = Unedited
    /\ sent > 0 /\ state[sent] = "applied" /\ ~overtaken => stored = content[sent]

\* What was last typed and is still in the table was sent or will be.
EditsOK ==
    \A c \in Cells :
        /\ c \notin clobbered => rows[c] = latest[c]
        /\ Live /\ Resting(c) /\ c \notin clobbered =>
              IF sent = 0 THEN latest[c] = 0 ELSE content[sent][c] = latest[c]

\* With no save to wait for, what was fetched, and then the table, is what
\* is stored.
TableOK ==
    Live /\ loading /\ ~overtaken /\ listening = 0 =>
        /\ reload = "read" => fetched = stored
        /\ reload = "none" => \A c \in Cells : Resting(c) => rows[c] = stored[c]

IInv == TypeOK /\ SavesOK /\ StoredOK /\ EditsOK /\ TableOK

-----------------------------------------------------------------------------
LEMMA InitInvariant == Init => IInv
<1> SUFFICES ASSUME Init PROVE IInv
  OBVIOUS
<1> USE BoundsAssumption
<1>1. Unedited \in Contents /\ \A c \in Cells : Unedited[c] = 0
  BY DEF Unedited, Contents
<1>2. TypeOK
  <2>1. timer \in BOOLEAN /\ alive \in BOOLEAN /\ loading \in BOOLEAN /\ overtaken \in BOOLEAN
    BY DEF Init
  <2>q. QED BY <1>1, <2>1 DEF Init, TypeOK, Saves
<1>3. SavesOK /\ StoredOK
  BY DEF Init, SavesOK, StoredOK, Live
<1>4. EditsOK
  BY <1>1 DEF Init, EditsOK
<1>5. TableOK
  BY DEF Init, TableOK
<1>q. QED BY <1>2, <1>3, <1>4, <1>5 DEF IInv

\* Every action keeps the types.
LEMMA TypeStep ==
    ASSUME TypeOK, [Next]_vars
    PROVE  TypeOK'
<1> USE BoundsAssumption DEF TypeOK, user, table, saver, requests, server, reloads
<1>0. Unedited \in Contents
  BY DEF Unedited, Contents
<1>1. ASSUME NEW c \in Cells, Focus(c) \/ Type(c) \/ Blur(c) PROVE TypeOK'
  <2>1. CASE Focus(c)
    BY <2>1 DEF Focus
  <2>2. CASE Type(c)
    <3>1. edits' \in 0..MaxEdits
      BY <2>2 DEF Type
    <3>2. latest' \in Contents /\ rows' \in Contents
      BY <2>2, <3>1 DEF Type, Contents
    <3>q. QED BY <2>2, <3>1, <3>2 DEF Type
  <2>3. CASE Blur(c)
    BY <2>3 DEF Blur, StartTimer
  <2>q. QED BY <1>1, <2>1, <2>2, <2>3
<1>2. CASE Leave
  <2>1. timer' \in BOOLEAN
    BY <1>2 DEF Leave
  <2>q. QED BY <1>2, <2>1 DEF Leave
<1>3. CASE Send
  <2>1. sent' \in 0..MaxSaves /\ sent' \in Saves
    BY <1>3 DEF Send, Saves
  <2>2. content' \in [Saves -> Contents] /\ state' \in [Saves -> {"unsent", "sent", "applied", "refused", "lost"}]
    BY <1>3, <2>1 DEF Send
  <2>q. QED BY <1>3, <2>1, <2>2 DEF Send
<1>4. ASSUME NEW i \in Saves, Reach(i) \/ Abort(i) \/ Answer(i) PROVE TypeOK'
  <2>1. CASE Apply(i)
    <3>1. stored' \in Contents
      BY <2>1 DEF Apply, Written
    <3>2. overtaken' \in BOOLEAN
      BY <2>1 DEF Apply
    <3>q. QED BY <2>1, <3>1, <3>2 DEF Apply
  <2>2. CASE Refuse(i)
    BY <2>2 DEF Refuse
  <2>3. CASE Abort(i)
    BY <2>3 DEF Abort
  <2>4. CASE Succeed(i)
    BY <1>0, <2>4 DEF Succeed, ReloadAfterSave, Reload, Saves
  <2>5. CASE Fail(i)
    <3>1. timer' \in BOOLEAN /\ alive' \in BOOLEAN
      BY <2>5 DEF Fail
    <3>q. QED BY <2>5, <3>1 DEF Fail
  <2>q. QED BY <1>4, <2>1, <2>2, <2>3, <2>4, <2>5 DEF Reach, Answer
<1>5. CASE Refresh
  BY <1>0, <1>5 DEF Refresh, Reload
<1>6. CASE Read
  BY <1>6 DEF Read
<1>7. CASE Arrive
  BY <1>0, <1>7 DEF Arrive, ReplaceRows
<1>8. CASE ReloadFails
  BY <1>0, <1>8 DEF ReloadFails
<1>9. CASE UNCHANGED vars
  BY <1>9 DEF vars
<1>q. QED BY <1>1, <1>2, <1>3, <1>4, <1>5, <1>6, <1>7, <1>8, <1>9 DEF Next

-----------------------------------------------------------------------------
\* The steps that leave the saves and the database alone.
LEMMA Elsewhere ==
    ASSUME IInv, UNCHANGED <<requests, server>>, listening' \in {listening, 0}, told' = told,
           listening' = 0 => listening = 0 \/ ~Live',
           page' = page \/ page' = "left", alive' = alive \/ ~alive',
           page' = "left" => ~timer' /\ listening' = 0 /\ reload' = "none" /\ focus' = {}
    PROVE  SavesOK' /\ StoredOK'
<1> USE DEF IInv, requests, server
<1>1. SavesOK'
  BY DEF SavesOK, Live
<1>2. StoredOK'
  BY DEF StoredOK
<1>q. QED BY <1>1, <1>2

LEMMA UserInvariant ==
    ASSUME IInv, NEW c \in Cells, Focus(c) \/ Type(c) \/ Blur(c)
    PROVE  SavesOK' /\ StoredOK' /\ EditsOK' /\ TableOK'
<1> USE DEF IInv
<1>0. page = "open" /\ page' = page
  BY DEF Focus, Type, Blur, user, SavesOK, TypeOK
<1>1. SavesOK' /\ StoredOK'
  <2>1. CASE Focus(c)
    BY <1>0, <2>1, Elsewhere DEF Focus, saver
  <2>2. CASE Type(c)
    BY <1>0, <2>2, Elsewhere DEF Type, saver
  <2>3. CASE Blur(c)
    BY <1>0, <2>3, Elsewhere DEF Blur
  <2>q. QED BY <2>1, <2>2, <2>3
<1>2. CASE Focus(c)
  <2>1. \A d \in Cells : Resting(d)' => Resting(d)
    BY <1>2 DEF Focus, Resting, saver
  <2>2. EditsOK'
    BY <1>2, <2>1 DEF Focus, EditsOK, Live, table, saver, requests
  <2>3. TableOK'
    BY <1>2, <2>1 DEF Focus, TableOK, Live, table, saver, server, reloads
  <2>q. QED BY <1>1, <2>2, <2>3
<1>3. CASE Type(c)
  <2>1. \A d \in Cells : Resting(d)' => Resting(d) /\ d # c
    BY <1>3 DEF Type, Resting, saver
  <2>2. /\ rows'[c] = latest'[c]
        /\ \A d \in Cells : d # c => rows'[d] = rows[d] /\ latest'[d] = latest[d]
                                     /\ (d \in clobbered' <=> d \in clobbered)
    BY <1>3 DEF Type, TypeOK, Contents
  <2>3. EditsOK'
    <3>1. ASSUME NEW d \in Cells PROVE (d \notin clobbered => rows[d] = latest[d])'
      BY <2>2 DEF EditsOK
    <3>2. ASSUME NEW d \in Cells, (Live /\ Resting(d) /\ d \notin clobbered)'
          PROVE  (IF sent = 0 THEN latest[d] = 0 ELSE content[sent][d] = latest[d])'
      <4>1. Live /\ Resting(d) /\ d # c /\ d \notin clobbered /\ latest'[d] = latest[d]
        BY <1>3, <2>1, <2>2, <3>2 DEF Type, Live, saver
      <4>q. QED BY <1>3, <4>1 DEF EditsOK, Type, requests
    <3>q. QED BY <3>1, <3>2 DEF EditsOK
  <2>4. TableOK'
    BY <1>3, <2>1, <2>2 DEF Type, TableOK, Live, saver, server, reloads
  <2>q. QED BY <1>1, <2>3, <2>4
<1>4. CASE Blur(c)
  <2>1. alive => \A d \in Cells : ~Resting(d)'
    BY <1>4 DEF Blur, StartTimer, Resting
  <2>2. EditsOK'
    BY <1>4, <2>1 DEF Blur, EditsOK, Live, table
  <2>3. TableOK'
    BY <1>4, <2>1 DEF Blur, TableOK, Live, server, reloads, table
  <2>q. QED BY <1>1, <2>2, <2>3
<1>q. QED BY <1>2, <1>3, <1>4

LEMMA LeaveInvariant ==
    ASSUME IInv, Leave
    PROVE  SavesOK' /\ StoredOK' /\ EditsOK' /\ TableOK'
<1> USE DEF IInv
<1>1. ~Live'
  BY DEF Leave, Live
<1>2. SavesOK' /\ StoredOK'
  BY <1>1, Elsewhere DEF Leave, Live
<1>3. EditsOK'
  BY <1>1 DEF Leave, EditsOK, table
<1>4. TableOK'
  BY <1>1 DEF TableOK
<1>q. QED BY <1>2, <1>3, <1>4

LEMMA SendInvariant ==
    ASSUME IInv, Send
    PROVE  SavesOK' /\ StoredOK' /\ EditsOK' /\ TableOK'
<1> USE BoundsAssumption DEF IInv
<1>1. /\ sent \in Nat /\ sent' = sent + 1 /\ sent' \in Saves /\ listening' = sent'
      /\ content'[sent'] = rows /\ state'[sent'] = "sent"
      /\ \A i \in Saves : i # sent' => state'[i] = state[i]
      /\ told' = told /\ told \in Nat /\ page = "open" /\ page' = page
  BY DEF Send, TypeOK, Saves, user, SavesOK
<1>2. SavesOK'
  BY <1>1 DEF SavesOK, Saves
<1>3. StoredOK'
  BY <1>1 DEF StoredOK
<1>4. EditsOK'
  BY <1>1 DEF Send, EditsOK, table, user
<1>5. TableOK'
  BY <1>1 DEF TableOK
<1>q. QED BY <1>2, <1>3, <1>4, <1>5

LEMMA ApplyInvariant ==
    ASSUME IInv, NEW i \in Saves, Apply(i)
    PROVE  SavesOK' /\ StoredOK' /\ EditsOK' /\ TableOK'
<1> USE BoundsAssumption DEF IInv
<1>1. /\ state[i] = "sent" /\ state'[i] = "applied"
      /\ \A j \in Saves : j # i => state'[j] = state[j]
      /\ stored' = content[i]
      /\ UNCHANGED <<user, table, saver, sent, content, reloads>>
      /\ overtaken' = (overtaken \/ \E j \in Saves : j > i /\ state[j] = "applied")
  BY DEF Apply, Written, TypeOK
<1>2. i \in Nat /\ sent \in Nat /\ i <= sent /\ sent > 0 /\ sent \in Saves
  BY <1>1 DEF SavesOK, Saves, TypeOK
<1>3. SavesOK'
  BY <1>1, <1>2 DEF SavesOK, Live, saver, user, reloads
<1>4. i # sent /\ state[sent] = "applied" => overtaken'
  <2>1. SUFFICES ASSUME i # sent, state[sent] = "applied"
                 PROVE  \E j \in Saves : j > i /\ state[j] = "applied"
    BY <1>1
  <2>2. sent > i
    BY <1>2, <2>1
  <2>q. QED BY <1>2, <2>1, <2>2
<1>5. StoredOK'
  BY <1>1, <1>2, <1>4 DEF StoredOK
<1>6. EditsOK'
  BY <1>1 DEF EditsOK, Live, Resting, user, table, saver
<1>7. TableOK'
  <2>1. Live /\ listening = 0 => overtaken'
    BY <1>1, <1>2, <1>4 DEF SavesOK
  <2>q. QED BY <1>1, <2>1 DEF TableOK, Live, user, saver
<1>q. QED BY <1>3, <1>5, <1>6, <1>7

LEMMA DropInvariant ==
    ASSUME IInv, NEW i \in Saves, Refuse(i) \/ Abort(i)
    PROVE  SavesOK' /\ StoredOK' /\ EditsOK' /\ TableOK'
<1> USE BoundsAssumption DEF IInv
<1>1. /\ state[i] = "sent" /\ state'[i] \in {"refused", "lost"}
      /\ \A j \in Saves : j # i => state'[j] = state[j]
      /\ UNCHANGED <<user, table, saver, sent, content, server, reloads>>
  BY DEF Refuse, Abort, TypeOK
<1>2. i \in Nat /\ sent \in Nat /\ i <= sent /\ sent \in Saves
  BY <1>1 DEF SavesOK, Saves, TypeOK
<1>3. SavesOK'
  BY <1>1, <1>2 DEF SavesOK, Live, saver, user, reloads
<1>4. StoredOK'
  BY <1>1, <1>2 DEF StoredOK, server
<1>5. EditsOK' /\ TableOK'
  BY <1>1 DEF EditsOK, TableOK, Live, Resting, user, table, saver, server, reloads
<1>q. QED BY <1>3, <1>4, <1>5

LEMMA AnswerInvariant ==
    ASSUME IInv, NEW i \in Saves, Answer(i)
    PROVE  SavesOK' /\ StoredOK' /\ EditsOK' /\ TableOK'
<1> USE BoundsAssumption DEF IInv
<1>1. CASE Succeed(i)
  <2>1. /\ i = sent /\ state[sent] = "applied" /\ listening' = 0 /\ told' = sent
        /\ UNCHANGED <<user, table, timer, alive, requests, server>>
    BY <1>1 DEF Succeed, SavesOK, Answered, Saves
  <2>2. page = "open"
    BY <1>1 DEF Succeed, SavesOK, TypeOK, Saves
  <2>3. SavesOK'
    BY <2>1, <2>2 DEF SavesOK, Live, user, requests, TypeOK
  <2>4. StoredOK'
    BY <2>1 DEF StoredOK, requests, server
  <2>5. EditsOK'
    BY <2>1 DEF EditsOK, Live, Resting, user, table, requests
  <2>6. TableOK'
    <3>1. loading' => reload' = "sent"
      BY <1>1 DEF Succeed, ReloadAfterSave, Reload
    <3>q. QED BY <3>1 DEF TableOK
  <2>q. QED BY <2>3, <2>4, <2>5, <2>6
<1>2. CASE Fail(i)
  <2>1. ~Live'
    BY <1>2 DEF Fail, Live
  <2>2. SavesOK' /\ StoredOK'
    BY <1>2, <2>1, Elsewhere DEF Fail, user, reloads, SavesOK
  <2>3. EditsOK' /\ TableOK'
    BY <1>2, <2>1 DEF Fail, EditsOK, TableOK, user, table
  <2>q. QED BY <2>2, <2>3
<1>q. QED BY <1>1, <1>2 DEF Answer

LEMMA ReloadInvariant ==
    ASSUME IInv, Refresh \/ Read \/ Arrive \/ ReloadFails
    PROVE  SavesOK' /\ StoredOK' /\ EditsOK' /\ TableOK'
<1> USE DEF IInv
<1>0. page = "open" /\ UNCHANGED <<user, saver, requests, server>>
  BY DEF Refresh, Read, Arrive, ReloadFails, SavesOK, TypeOK
<1>1. SavesOK' /\ StoredOK'
  BY <1>0, Elsewhere DEF user, saver
<1>2. \A c \in Cells : (Resting(c)' <=> Resting(c)) /\ (Live' <=> Live)
  BY <1>0 DEF Resting, Live, user, saver
<1>3. CASE Refresh
  <2>1. EditsOK'
    BY <1>0, <1>2, <1>3 DEF Refresh, EditsOK, table, user, requests
  <2>2. loading' => reload' = "sent"
    BY <1>3 DEF Refresh, Reload
  <2>q. QED BY <1>1, <2>1, <2>2 DEF TableOK
<1>4. CASE Read
  <2>1. EditsOK'
    BY <1>0, <1>2, <1>4 DEF Read, EditsOK, table, user, requests
  <2>2. TableOK'
    BY <1>0, <1>4 DEF Read, TableOK, server
  <2>q. QED BY <1>1, <2>1, <2>2
<1>5. CASE Arrive
  <2>1. /\ rows' = fetched /\ reload = "read" /\ loading' = loading
        /\ clobbered' = clobbered \cup {c \in Cells : rows[c] = latest[c] /\ fetched[c] # latest[c]}
    BY <1>5 DEF Arrive, ReplaceRows
  <2>2. EditsOK'
    <3>1. ASSUME NEW c \in Cells PROVE (c \notin clobbered => rows[c] = latest[c])'
      BY <1>0, <2>1 DEF EditsOK, user
    <3>2. ASSUME NEW c \in Cells, (Live /\ Resting(c) /\ c \notin clobbered)'
          PROVE  (IF sent = 0 THEN latest[c] = 0 ELSE content[sent][c] = latest[c])'
      <4>1. Live /\ Resting(c) /\ c \notin clobbered
        BY <1>2, <2>1, <3>2
      <4>q. QED BY <1>0, <4>1 DEF EditsOK, user, requests
    <3>q. QED BY <3>1, <3>2 DEF EditsOK
  <2>3. TableOK'
    <3> SUFFICES ASSUME (Live /\ loading /\ ~overtaken /\ listening = 0)'
                 PROVE  \A c \in Cells : rows'[c] = stored'[c]
      BY <1>5 DEF TableOK, Arrive
    <3>1. fetched = stored
      BY <1>0, <2>1 DEF TableOK, Live, user, saver, server
    <3>q. QED BY <1>0, <2>1, <3>1 DEF server
  <2>q. QED BY <1>1, <2>2, <2>3
<1>6. CASE ReloadFails
  <2>1. EditsOK'
    BY <1>0, <1>2, <1>6 DEF ReloadFails, EditsOK, table, user, requests
  <2>2. ~loading'
    BY <1>6 DEF ReloadFails
  <2>q. QED BY <1>1, <2>1, <2>2 DEF TableOK
<1>q. QED BY <1>3, <1>4, <1>5, <1>6

-----------------------------------------------------------------------------
LEMMA NextInvariant == IInv /\ [Next]_vars => IInv'
<1> SUFFICES ASSUME IInv, [Next]_vars PROVE IInv'
  OBVIOUS
<1>1. TypeOK'
  BY TypeStep DEF IInv
<1>2. ASSUME NEW c \in Cells, Focus(c) \/ Type(c) \/ Blur(c) PROVE IInv'
  BY <1>1, <1>2, UserInvariant DEF IInv
<1>3. CASE Leave
  BY <1>1, <1>3, LeaveInvariant DEF IInv
<1>4. CASE Send
  BY <1>1, <1>4, SendInvariant DEF IInv
<1>5. ASSUME NEW i \in Saves, Reach(i) \/ Abort(i) \/ Answer(i) PROVE IInv'
  <2>1. CASE Apply(i)
    BY <1>1, <2>1, ApplyInvariant DEF IInv
  <2>2. CASE Refuse(i) \/ Abort(i)
    BY <1>1, <2>2, DropInvariant DEF IInv
  <2>3. CASE Answer(i)
    BY <1>1, <2>3, AnswerInvariant DEF IInv
  <2>q. QED BY <1>5, <2>1, <2>2, <2>3 DEF Reach
<1>6. CASE Refresh \/ Read \/ Arrive \/ ReloadFails
  BY <1>1, <1>6, ReloadInvariant DEF IInv
<1>7. CASE UNCHANGED vars
  BY <1>7 DEF vars, user, table, saver, requests, server, reloads, IInv, TypeOK,
              SavesOK, StoredOK, EditsOK, TableOK, Live, Resting
<1>q. QED BY <1>2, <1>3, <1>4, <1>5, <1>6, <1>7 DEF Next

THEOREM Invariant == Spec => []IInv
BY InitInvariant, NextInvariant, PTL DEF Spec

\* Every reachable state is one of the types the module declares.
THEOREM TypeCorrect == Spec => []TypeOK
<1>1. IInv => TypeOK
  BY DEF IInv
<1>q. QED BY Invariant, <1>1, PTL

\* "Saved successfully." is true of the newest save, unless a forgotten one
\* was applied after it.
THEOREM Saved == Spec => []SavedMeansStored
<1>1. IInv => SavedMeansStored
  BY DEF IInv, SavesOK, StoredOK, SavedMeansStored, TypeOK
<1>q. QED BY Invariant, <1>1, PTL

\* Nothing the user typed is lost but by a reload, a failed save, a late
\* one, or leaving the page.
THEOREM Edits == Spec => []NoEditLost
<1>1. IInv => NoEditLost
  <2> SUFFICES ASSUME IInv, Quiet, alive, ~overtaken, NEW c \in Cells, c \notin clobbered
               PROVE  stored[c] = latest[c]
    BY DEF NoEditLost
  <2>1. Live /\ Resting(c) /\ listening = 0
    BY DEF Quiet, Live, Resting
  <2>2. CASE sent = 0
    BY <2>1, <2>2 DEF IInv, StoredOK, EditsOK, Unedited
  <2>3. CASE sent # 0
    <3>1. sent > 0 /\ state[sent] = "applied"
      BY <2>1, <2>3 DEF IInv, SavesOK, TypeOK
    <3>q. QED BY <2>1, <2>3, <3>1 DEF IInv, StoredOK, EditsOK
  <2>q. QED BY <2>2, <2>3
<1>q. QED BY Invariant, <1>1, PTL

\* The table shows what is stored once all is quiet.
THEOREM Table == Spec => []TableIsStored
<1>1. IInv => TableIsStored
  <2> SUFFICES ASSUME IInv, Quiet, alive, loading, ~overtaken PROVE rows = stored
    BY DEF TableIsStored
  <2>1. \A c \in Cells : rows[c] = stored[c]
    BY DEF IInv, TableOK, Quiet, Live, Resting
  <2>2. rows \in Contents /\ stored \in Contents
    BY DEF IInv, TypeOK
  <2>q. QED BY <2>1, <2>2 DEF Contents
<1>q. QED BY Invariant, <1>1, PTL
=============================================================================
