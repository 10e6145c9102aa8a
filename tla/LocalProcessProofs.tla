------------------------- MODULE LocalProcessProofs -------------------------
(***************************************************************************)
(* Safety of LocalProcess for any number of callers, kernels and codes.    *)
(***************************************************************************)
EXTENDS LocalProcess, TLAPS

(* Reaching the type of an answer is a matter of its constructor only. *)
LEMMA AnswerTyping ==
    /\ \A t \in {"none", "created", "ok", "notFound", "errRuntime"} : Reply(t) \in Answer
    /\ Running \in Answer
    /\ \A x \in ExitStatus : Exited(x) \in Answer
BY DEF Answer, Status

(* The values that mean "no status" and "killed" are not exit codes. *)
LEMMA StatusValues ==
    /\ NoCode \notin ExitStatus
    /\ KilledCode \in ExitStatus
    /\ Code \subseteq ExitStatus
BY CodeAssumption DEF NoCode, KilledCode, ExitStatus

(* Typing.  An ID that is being inserted is an ID that was drawn. *)
LEMMA TypeStep ==
    ASSUME TypeOK, InsertInv, CallerInv, [Next]_vars
    PROVE  TypeOK'
<1> USE DEF TypeOK, InsertInv, Label, OSState, child, entries, callers
<1>1. ASSUME NEW c \in Caller, Enter(c) PROVE TypeOK'
    <2>1. CASE CallCreate(c)
        BY <2>1, AnswerTyping DEF CallCreate, Call, Goto
    <2>2. ASSUME NEW k \in Kernel \cup {Unknown}, CallDestroy(c, k) PROVE TypeOK'
        BY <2>2, AnswerTyping DEF CallDestroy, Call, Goto
    <2>3. ASSUME NEW k \in Kernel \cup {Unknown}, CallStatus(c, k) PROVE TypeOK'
        BY <2>3, AnswerTyping DEF CallStatus, Call, Goto
    <2> QED BY <1>1, <2>1, <2>2, <2>3 DEF Enter
<1>2. ASSUME NEW c \in Caller, Proceed(c) PROVE TypeOK'
    <2>1. CASE CreateFails(c)
        BY <2>1, AnswerTyping DEF CreateFails, Return, Goto
    <2>2. ASSUME NEW k \in Kernel, CreateStart(c, k) PROVE TypeOK'
        BY <2>2 DEF CreateStart, Goto
    <2>3. CASE CreateInsert(c)
        BY <2>3, AnswerTyping DEF CreateInsert, Return, Goto
    <2>4. CASE DestroyNotFound(c)
        BY <2>4, AnswerTyping DEF DestroyNotFound, Return, Goto
    <2>5. CASE DestroyFound(c)
        BY <2>5 DEF DestroyFound, Goto
    <2>6. CASE DestroyKill(c)
        BY <2>6, CallerInv DEF DestroyKill, Goto, CallerInv, Held, Issued
    <2>7. CASE DestroyKillFails(c)
        BY <2>7 DEF DestroyKillFails, Goto
    <2>8. CASE DestroyAlreadyExited(c)
        BY <2>8 DEF DestroyAlreadyExited, Goto
    <2>9. CASE DestroyError(c)
        BY <2>9, AnswerTyping DEF DestroyError, Return, Goto
    <2>10. CASE DestroyWait(c)
        BY <2>10 DEF DestroyWait, Goto
    <2>11. CASE DestroyDelete(c)
        BY <2>11, AnswerTyping DEF DestroyDelete, Return, Goto
    <2>12. CASE StatusNotFound(c)
        BY <2>12, AnswerTyping DEF StatusNotFound, Return, Goto
    <2>13. CASE StatusFound(c)
        BY <2>13 DEF StatusFound, Goto
    <2>14. CASE StatusExited(c)
        BY <2>14, AnswerTyping, StatusValues DEF StatusExited, Return, Goto
    <2>15. CASE StatusRunning(c)
        BY <2>15, AnswerTyping DEF StatusRunning, Return, Goto
    <2> QED BY <1>2, <2>1, <2>2, <2>3, <2>4, <2>5, <2>6, <2>7, <2>8,
               <2>9, <2>10, <2>11, <2>12, <2>13, <2>14, <2>15
        DEF Proceed
<1>3. ASSUME NEW k \in Kernel,
             Reaper(k) \/ ChildExits(k) \/ ChildKilled(k) \/ CancelContext(k) \/ WatchContext(k)
      PROVE TypeOK'
    <2>1. CASE ReaperWait(k)
        BY <2>1 DEF ReaperWait
    <2>2. CASE ReaperClose(k)
        BY <2>2 DEF ReaperClose
    <2>3. CASE ChildExits(k)
        BY <2>3, StatusValues DEF ChildExits, ChildEnds
    <2>4. CASE ChildKilled(k)
        BY <2>4, StatusValues DEF ChildKilled, ChildEnds
    <2>5. CASE CancelContext(k)
        BY <2>5 DEF CancelContext
    <2>6. CASE WatchContext(k)
        BY <2>6 DEF WatchContext
    <2> QED BY <1>3, <2>1, <2>2, <2>3, <2>4, <2>5, <2>6 DEF Reaper
<1>4. CASE UNCHANGED vars
    BY <1>4 DEF vars
<1> QED BY <1>1, <1>2, <1>3, <1>4 DEF Next

(* IDs on their way into the table are fresh. *)
LEMMA InsertStep ==
    ASSUME TypeOK, InsertInv, [Next]_vars
    PROVE  InsertInv'
<1> USE DEF TypeOK, InsertInv, Label, OSState, child, entries, callers
<1>1. ASSUME NEW c \in Caller, Enter(c) PROVE InsertInv'
    <2>1. CASE CallCreate(c)
        BY <2>1 DEF CallCreate, Call, Goto
    <2>2. ASSUME NEW k \in Kernel \cup {Unknown}, CallDestroy(c, k) PROVE InsertInv'
        BY <2>2 DEF CallDestroy, Call, Goto
    <2>3. ASSUME NEW k \in Kernel \cup {Unknown}, CallStatus(c, k) PROVE InsertInv'
        BY <2>3 DEF CallStatus, Call, Goto
    <2> QED BY <1>1, <2>1, <2>2, <2>3 DEF Enter
<1>2. ASSUME NEW c \in Caller, Proceed(c) PROVE InsertInv'
    <2>1. CASE CreateFails(c)
        BY <2>1 DEF CreateFails, Return, Goto
    <2>2. ASSUME NEW k \in Kernel, CreateStart(c, k) PROVE InsertInv'
        BY <2>2 DEF CreateStart, Goto
    <2>3. CASE CreateInsert(c)
        BY <2>3 DEF CreateInsert, Return, Goto
    <2>4. CASE DestroyNotFound(c)
        BY <2>4 DEF DestroyNotFound, Return, Goto
    <2>5. CASE DestroyFound(c)
        BY <2>5 DEF DestroyFound, Goto
    <2>6. CASE DestroyKill(c)
        BY <2>6 DEF DestroyKill, Goto
    <2>7. CASE DestroyKillFails(c)
        BY <2>7 DEF DestroyKillFails, Goto
    <2>8. CASE DestroyAlreadyExited(c)
        BY <2>8 DEF DestroyAlreadyExited, Goto
    <2>9. CASE DestroyError(c)
        BY <2>9 DEF DestroyError, Return, Goto
    <2>10. CASE DestroyWait(c)
        BY <2>10 DEF DestroyWait, Goto
    <2>11. CASE DestroyDelete(c)
        BY <2>11 DEF DestroyDelete, Return, Goto
    <2>12. CASE StatusNotFound(c)
        BY <2>12 DEF StatusNotFound, Return, Goto
    <2>13. CASE StatusFound(c)
        BY <2>13 DEF StatusFound, Goto
    <2>14. CASE StatusExited(c)
        BY <2>14 DEF StatusExited, Return, Goto
    <2>15. CASE StatusRunning(c)
        BY <2>15 DEF StatusRunning, Return, Goto
    <2> QED BY <1>2, <2>1, <2>2, <2>3, <2>4, <2>5, <2>6, <2>7, <2>8,
               <2>9, <2>10, <2>11, <2>12, <2>13, <2>14, <2>15
        DEF Proceed
<1>3. ASSUME NEW k \in Kernel,
             Reaper(k) \/ ChildExits(k) \/ ChildKilled(k) \/ CancelContext(k) \/ WatchContext(k)
      PROVE InsertInv'
    <2>1. CASE ReaperWait(k)
        BY <2>1 DEF ReaperWait
    <2>2. CASE ReaperClose(k)
        BY <2>2 DEF ReaperClose
    <2>3. CASE ChildExits(k)
        BY <2>3 DEF ChildExits, ChildEnds
    <2>4. CASE ChildKilled(k)
        BY <2>4 DEF ChildKilled, ChildEnds
    <2>5. CASE CancelContext(k)
        BY <2>5 DEF CancelContext
    <2>6. CASE WatchContext(k)
        BY <2>6 DEF WatchContext
    <2> QED BY <1>3, <2>1, <2>2, <2>3, <2>4, <2>5, <2>6 DEF Reaper
<1>4. CASE UNCHANGED vars
    BY <1>4 DEF vars
<1> QED BY <1>1, <1>2, <1>3, <1>4 DEF Next

(* A child, its reaper and its entry move in step. *)
LEMMA ChildStep ==
    ASSUME TypeOK, InsertInv, ChildInv, [Next]_vars
    PROVE  ChildInv'
<1> USE DEF TypeOK, InsertInv, ChildInv, Pending, Label, OSState, child, entries, callers
<1>1. ASSUME NEW c \in Caller, Enter(c) PROVE ChildInv'
    <2>1. CASE CallCreate(c)
        BY <2>1 DEF CallCreate, Call, Goto
    <2>2. ASSUME NEW k \in Kernel \cup {Unknown}, CallDestroy(c, k) PROVE ChildInv'
        BY <2>2 DEF CallDestroy, Call, Goto
    <2>3. ASSUME NEW k \in Kernel \cup {Unknown}, CallStatus(c, k) PROVE ChildInv'
        BY <2>3 DEF CallStatus, Call, Goto
    <2> QED BY <1>1, <2>1, <2>2, <2>3 DEF Enter
<1>2. ASSUME NEW c \in Caller, Proceed(c) PROVE ChildInv'
    <2>1. CASE CreateFails(c)
        BY <2>1 DEF CreateFails, Return, Goto
    <2>2. ASSUME NEW k \in Kernel, CreateStart(c, k) PROVE ChildInv'
        BY <2>2 DEF CreateStart, Goto
    <2>3. CASE CreateInsert(c)
        BY <2>3 DEF CreateInsert, Return, Goto
    <2>4. CASE DestroyNotFound(c)
        BY <2>4 DEF DestroyNotFound, Return, Goto
    <2>5. CASE DestroyFound(c)
        BY <2>5 DEF DestroyFound, Goto
    <2>6. CASE DestroyKill(c)
        BY <2>6 DEF DestroyKill, Goto
    <2>7. CASE DestroyKillFails(c)
        BY <2>7 DEF DestroyKillFails, Goto
    <2>8. CASE DestroyAlreadyExited(c)
        BY <2>8 DEF DestroyAlreadyExited, Goto
    <2>9. CASE DestroyError(c)
        BY <2>9 DEF DestroyError, Return, Goto
    <2>10. CASE DestroyWait(c)
        BY <2>10 DEF DestroyWait, Goto
    <2>11. CASE DestroyDelete(c)
        BY <2>11 DEF DestroyDelete, Return, Goto
    <2>12. CASE StatusNotFound(c)
        BY <2>12 DEF StatusNotFound, Return, Goto
    <2>13. CASE StatusFound(c)
        BY <2>13 DEF StatusFound, Goto
    <2>14. CASE StatusExited(c)
        BY <2>14 DEF StatusExited, Return, Goto
    <2>15. CASE StatusRunning(c)
        BY <2>15 DEF StatusRunning, Return, Goto
    <2> QED BY <1>2, <2>1, <2>2, <2>3, <2>4, <2>5, <2>6, <2>7, <2>8,
               <2>9, <2>10, <2>11, <2>12, <2>13, <2>14, <2>15
        DEF Proceed
<1>3. ASSUME NEW k \in Kernel,
             Reaper(k) \/ ChildExits(k) \/ ChildKilled(k) \/ CancelContext(k) \/ WatchContext(k)
      PROVE ChildInv'
    <2>1. CASE ReaperWait(k)
        BY <2>1 DEF ReaperWait
    <2>2. CASE ReaperClose(k)
        BY <2>2 DEF ReaperClose
    <2>3. CASE ChildExits(k)
        BY <2>3, StatusValues DEF ChildExits, ChildEnds
    <2>4. CASE ChildKilled(k)
        BY <2>4, StatusValues DEF ChildKilled, ChildEnds
    <2>5. CASE CancelContext(k)
        BY <2>5 DEF CancelContext
    <2>6. CASE WatchContext(k)
        BY <2>6 DEF WatchContext
    <2> QED BY <1>3, <2>1, <2>2, <2>3, <2>4, <2>5, <2>6 DEF Reaper
<1>4. CASE UNCHANGED vars
    BY <1>4 DEF vars
<1> QED BY <1>1, <1>2, <1>3, <1>4 DEF Next

(* What a caller has learnt about its target stays true. *)
LEMMA CallerStep ==
    ASSUME TypeOK, InsertInv, ChildInv, CallerInv, [Next]_vars
    PROVE  CallerInv'
<1> USE DEF TypeOK, InsertInv, ChildInv, CallerInv, Issued, Pending, Held, Label, OSState,
            child, entries, callers
<1>1. ASSUME NEW c \in Caller, Enter(c) PROVE CallerInv'
    <2>1. CASE CallCreate(c)
        BY <2>1 DEF CallCreate, Call, Goto, Reply, Running, Exited
    <2>2. ASSUME NEW k \in Kernel \cup {Unknown}, CallDestroy(c, k) PROVE CallerInv'
        BY <2>2 DEF CallDestroy, Call, Goto, Reply, Running, Exited
    <2>3. ASSUME NEW k \in Kernel \cup {Unknown}, CallStatus(c, k) PROVE CallerInv'
        BY <2>3 DEF CallStatus, Call, Goto, Reply, Running, Exited
    <2> QED BY <1>1, <2>1, <2>2, <2>3 DEF Enter
<1>2. ASSUME NEW c \in Caller, Proceed(c) PROVE CallerInv'
    <2>1. CASE CreateFails(c)
        BY <2>1 DEF CreateFails, Return, Goto, Reply, Running, Exited
    <2>2. ASSUME NEW k \in Kernel, CreateStart(c, k) PROVE CallerInv'
        BY <2>2 DEF CreateStart, Goto, Reply, Running, Exited
    <2>3. CASE CreateInsert(c)
        BY <2>3 DEF CreateInsert, Return, Goto, Reply, Running, Exited
    <2>4. CASE DestroyNotFound(c)
        BY <2>4 DEF DestroyNotFound, Return, Goto, Reply, Running, Exited
    <2>5. CASE DestroyFound(c)
        BY <2>5 DEF DestroyFound, Goto, Reply, Running, Exited
    <2>6. CASE DestroyKill(c)
        BY <2>6 DEF DestroyKill, Goto, Reply, Running, Exited
    <2>7. CASE DestroyKillFails(c)
        BY <2>7 DEF DestroyKillFails, Goto, Reply, Running, Exited
    <2>8. CASE DestroyAlreadyExited(c)
        BY <2>8 DEF DestroyAlreadyExited, Goto, Reply, Running, Exited
    <2>9. CASE DestroyError(c)
        BY <2>9 DEF DestroyError, Return, Goto, Reply, Running, Exited
    <2>10. CASE DestroyWait(c)
        BY <2>10 DEF DestroyWait, Goto, Reply, Running, Exited
    <2>11. CASE DestroyDelete(c)
        BY <2>11 DEF DestroyDelete, Return, Goto, Reply, Running, Exited
    <2>12. CASE StatusNotFound(c)
        BY <2>12 DEF StatusNotFound, Return, Goto, Reply, Running, Exited
    <2>13. CASE StatusFound(c)
        BY <2>13 DEF StatusFound, Goto, Reply, Running, Exited
    <2>14. CASE StatusExited(c)
        BY <2>14, StatusValues DEF StatusExited, Return, Goto, Reply, Running, Exited
    <2>15. CASE StatusRunning(c)
        BY <2>15 DEF StatusRunning, Return, Goto, Reply, Running, Exited
    <2> QED BY <1>2, <2>1, <2>2, <2>3, <2>4, <2>5, <2>6, <2>7, <2>8,
               <2>9, <2>10, <2>11, <2>12, <2>13, <2>14, <2>15
        DEF Proceed
<1>3. ASSUME NEW k \in Kernel,
             Reaper(k) \/ ChildExits(k) \/ ChildKilled(k) \/ CancelContext(k) \/ WatchContext(k)
      PROVE CallerInv'
    <2>1. CASE ReaperWait(k)
        BY <2>1 DEF ReaperWait, Reply, Running, Exited
    <2>2. CASE ReaperClose(k)
        BY <2>2 DEF ReaperClose, Reply, Running, Exited
    <2>3. CASE ChildExits(k)
        BY <2>3 DEF ChildExits, ChildEnds, Reply, Running, Exited
    <2>4. CASE ChildKilled(k)
        BY <2>4 DEF ChildKilled, ChildEnds, Reply, Running, Exited
    <2>5. CASE CancelContext(k)
        BY <2>5 DEF CancelContext, Reply, Running, Exited
    <2>6. CASE WatchContext(k)
        BY <2>6 DEF WatchContext, Reply, Running, Exited
    <2> QED BY <1>3, <2>1, <2>2, <2>3, <2>4, <2>5, <2>6 DEF Reaper
<1>4. CASE UNCHANGED vars
    BY <1>4 DEF vars, Reply, Running, Exited
<1> QED BY <1>1, <1>2, <1>3, <1>4 DEF Next

(* A child the reaper has not finished with is not forgotten. *)
LEMMA NoOrphanStep ==
    ASSUME TypeOK, ChildInv, InsertInv, CallerInv, NoOrphan, [Next]_vars
    PROVE  NoOrphan'
<1> USE DEF TypeOK, ChildInv, InsertInv, CallerInv, Issued, Pending, Held, NoOrphan, Label, OSState,
            child, entries, callers
<1>1. ASSUME NEW c \in Caller, Enter(c) PROVE NoOrphan'
    <2>1. CASE CallCreate(c)
        BY <2>1 DEF CallCreate, Call, Goto
    <2>2. ASSUME NEW k \in Kernel \cup {Unknown}, CallDestroy(c, k) PROVE NoOrphan'
        BY <2>2 DEF CallDestroy, Call, Goto
    <2>3. ASSUME NEW k \in Kernel \cup {Unknown}, CallStatus(c, k) PROVE NoOrphan'
        BY <2>3 DEF CallStatus, Call, Goto
    <2> QED BY <1>1, <2>1, <2>2, <2>3 DEF Enter
<1>2. ASSUME NEW c \in Caller, Proceed(c) PROVE NoOrphan'
    <2>1. CASE CreateFails(c)
        BY <2>1 DEF CreateFails, Return, Goto
    <2>2. ASSUME NEW k \in Kernel, CreateStart(c, k) PROVE NoOrphan'
        BY <2>2 DEF CreateStart, Goto
    <2>3. CASE CreateInsert(c)
        BY <2>3 DEF CreateInsert, Return, Goto
    <2>4. CASE DestroyNotFound(c)
        BY <2>4 DEF DestroyNotFound, Return, Goto
    <2>5. CASE DestroyFound(c)
        BY <2>5 DEF DestroyFound, Goto
    <2>6. CASE DestroyKill(c)
        BY <2>6 DEF DestroyKill, Goto
    <2>7. CASE DestroyKillFails(c)
        BY <2>7 DEF DestroyKillFails, Goto
    <2>8. CASE DestroyAlreadyExited(c)
        BY <2>8 DEF DestroyAlreadyExited, Goto
    <2>9. CASE DestroyError(c)
        BY <2>9 DEF DestroyError, Return, Goto
    <2>10. CASE DestroyWait(c)
        BY <2>10 DEF DestroyWait, Goto
    <2>11. CASE DestroyDelete(c)
        BY <2>11 DEF DestroyDelete, Return, Goto
    <2>12. CASE StatusNotFound(c)
        BY <2>12 DEF StatusNotFound, Return, Goto
    <2>13. CASE StatusFound(c)
        BY <2>13 DEF StatusFound, Goto
    <2>14. CASE StatusExited(c)
        BY <2>14 DEF StatusExited, Return, Goto
    <2>15. CASE StatusRunning(c)
        BY <2>15 DEF StatusRunning, Return, Goto
    <2> QED BY <1>2, <2>1, <2>2, <2>3, <2>4, <2>5, <2>6, <2>7, <2>8,
               <2>9, <2>10, <2>11, <2>12, <2>13, <2>14, <2>15
        DEF Proceed
<1>3. ASSUME NEW k \in Kernel,
             Reaper(k) \/ ChildExits(k) \/ ChildKilled(k) \/ CancelContext(k) \/ WatchContext(k)
      PROVE NoOrphan'
    <2>1. CASE ReaperWait(k)
        BY <2>1 DEF ReaperWait
    <2>2. CASE ReaperClose(k)
        BY <2>2 DEF ReaperClose
    <2>3. CASE ChildExits(k)
        BY <2>3 DEF ChildExits, ChildEnds
    <2>4. CASE ChildKilled(k)
        BY <2>4 DEF ChildKilled, ChildEnds
    <2>5. CASE CancelContext(k)
        BY <2>5 DEF CancelContext
    <2>6. CASE WatchContext(k)
        BY <2>6 DEF WatchContext
    <2> QED BY <1>3, <2>1, <2>2, <2>3, <2>4, <2>5, <2>6 DEF Reaper
<1>4. CASE UNCHANGED vars
    BY <1>4 DEF vars
<1> QED BY <1>1, <1>2, <1>3, <1>4 DEF Next

(* The answers callers have been given stay true. *)
LEMMA AnswersStep ==
    ASSUME TypeOK, ChildInv, InsertInv, CallerInv, ExitCodeTrue, DestroyedIsGone, [Next]_vars
    PROVE  ExitCodeTrue' /\ DestroyedIsGone'
<1> USE DEF TypeOK, ChildInv, InsertInv, CallerInv, Issued, Pending, Held, Label, OSState,
            ExitCodeTrue, DestroyedIsGone, child, entries, callers
<1>1. ASSUME NEW c \in Caller, Enter(c) PROVE ExitCodeTrue' /\ DestroyedIsGone'
    <2>1. CASE CallCreate(c)
        BY <2>1 DEF CallCreate, Call, Goto, Reply, Running, Exited
    <2>2. ASSUME NEW k \in Kernel \cup {Unknown}, CallDestroy(c, k)
         PROVE  ExitCodeTrue' /\ DestroyedIsGone'
        BY <2>2 DEF CallDestroy, Call, Goto, Reply, Running, Exited
    <2>3. ASSUME NEW k \in Kernel \cup {Unknown}, CallStatus(c, k)
         PROVE  ExitCodeTrue' /\ DestroyedIsGone'
        BY <2>3 DEF CallStatus, Call, Goto, Reply, Running, Exited
    <2> QED BY <1>1, <2>1, <2>2, <2>3 DEF Enter
<1>2. ASSUME NEW c \in Caller, Proceed(c) PROVE ExitCodeTrue' /\ DestroyedIsGone'
    <2>1. CASE CreateFails(c)
        BY <2>1 DEF CreateFails, Return, Goto, Reply, Running, Exited
    <2>2. ASSUME NEW k \in Kernel, CreateStart(c, k) PROVE ExitCodeTrue' /\ DestroyedIsGone'
        BY <2>2 DEF CreateStart, Goto
    <2>3. CASE CreateInsert(c)
        BY <2>3 DEF CreateInsert, Return, Goto, Reply, Running, Exited
    <2>4. CASE DestroyNotFound(c)
        BY <2>4 DEF DestroyNotFound, Return, Goto, Reply, Running, Exited
    <2>5. CASE DestroyFound(c)
        BY <2>5 DEF DestroyFound, Goto
    <2>6. CASE DestroyKill(c)
        BY <2>6 DEF DestroyKill, Goto
    <2>7. CASE DestroyKillFails(c)
        BY <2>7 DEF DestroyKillFails, Goto
    <2>8. CASE DestroyAlreadyExited(c)
        BY <2>8 DEF DestroyAlreadyExited, Goto
    <2>9. CASE DestroyError(c)
        BY <2>9 DEF DestroyError, Return, Goto, Reply, Running, Exited
    <2>10. CASE DestroyWait(c)
        BY <2>10 DEF DestroyWait, Goto
    <2>11. CASE DestroyDelete(c)
        BY <2>11 DEF DestroyDelete, Return, Goto, Reply, Running, Exited
    <2>12. CASE StatusNotFound(c)
        BY <2>12 DEF StatusNotFound, Return, Goto, Reply, Running, Exited
    <2>13. CASE StatusFound(c)
        BY <2>13 DEF StatusFound, Goto
    <2>14. CASE StatusExited(c)
        BY <2>14, StatusValues DEF StatusExited, Return, Goto, Reply, Running, Exited
    <2>15. CASE StatusRunning(c)
        BY <2>15 DEF StatusRunning, Return, Goto, Reply, Running, Exited
    <2> QED BY <1>2, <2>1, <2>2, <2>3, <2>4, <2>5, <2>6, <2>7, <2>8,
               <2>9, <2>10, <2>11, <2>12, <2>13, <2>14, <2>15
        DEF Proceed
<1>3. ASSUME NEW k \in Kernel,
             Reaper(k) \/ ChildExits(k) \/ ChildKilled(k) \/ CancelContext(k) \/ WatchContext(k)
      PROVE ExitCodeTrue' /\ DestroyedIsGone'
    <2>1. CASE ReaperWait(k)
        BY <2>1 DEF ReaperWait
    <2>2. CASE ReaperClose(k)
        BY <2>2 DEF ReaperClose
    <2>3. CASE ChildExits(k)
        BY <2>3 DEF ChildExits, ChildEnds
    <2>4. CASE ChildKilled(k)
        BY <2>4 DEF ChildKilled, ChildEnds
    <2>5. CASE CancelContext(k)
        BY <2>5 DEF CancelContext
    <2>6. CASE WatchContext(k)
        BY <2>6 DEF WatchContext
    <2> QED BY <1>3, <2>1, <2>2, <2>3, <2>4, <2>5, <2>6 DEF Reaper
<1>4. CASE UNCHANGED vars
    BY <1>4 DEF vars
<1> QED BY <1>1, <1>2, <1>3, <1>4 DEF Next

(***************************************************************************)
(* The theorems.                                                           *)
(***************************************************************************)

\* The inductive invariant holds of every behaviour of the runtime.
THEOREM Inductive == Spec => []IInv
<1>1. Init => IInv
    BY AnswerTyping
    DEF Init, IInv, TypeOK, ChildInv, InsertInv, CallerInv, NoOrphan, ExitCodeTrue,
        DestroyedIsGone, Label, OSState, Held, Reply
<1>2. IInv /\ [Next]_vars => IInv'
    BY TypeStep, ChildStep, InsertStep, CallerStep, NoOrphanStep, AnswersStep DEF IInv
<1> QED BY <1>1, <1>2, PTL DEF Spec

\* Types: every variable of the runtime stays within its range.
THEOREM TypeCorrect == Spec => []TypeOK
BY Inductive, PTL DEF IInv

\* No orphan: whatever callers do concurrently, a started child is in the
\* table until its reaper is done with it (Create, Destroy).
THEOREM NoOrphanHolds == Spec => []NoOrphan
BY Inductive, PTL DEF IInv

\* Status reports the code the child ended with, and only after the reaper.
THEOREM ExitCodeTrueHolds == Spec => []ExitCodeTrue
BY Inductive, PTL DEF IInv

\* A child whose Destroy returned nil is dead, reaped, and never known again.
THEOREM DestroyedIsGoneHolds == Spec => []DestroyedIsGone
BY Inductive, PTL DEF IInv
=============================================================================
