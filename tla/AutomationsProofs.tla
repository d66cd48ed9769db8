------------------------- MODULE AutomationsProofs -------------------------
(***************************************************************************)
(* The safety properties of Automations hold for any number of runs.       *)
(*                                                                         *)
(* The row alone does not tell who may still write it.  The invariant says *)
(* where the coroutine of a run is when its row, its reply and its report  *)
(* have the values they have; with it each way to end a run is seen to     *)
(* find the row running, and so to be the only one that ends it.           *)
(***************************************************************************)
EXTENDS Automations, TLAPS

\* A run that has not begun has left nothing anywhere.
IdleClean ==
    \A r \in Runs : proc[r] = "idle" =>
        row[r] = "none" /\ reply[r] = "none"

\* Nothing is reported before the reply starts.
NothingReported ==
    \A r \in Runs : reply[r] = "none" => report[r] = "none" /\ ~ calling[r]

\* Before its end is written the row is running, unless it was deleted.
ExecutingRow == \A r \in Runs : proc[r] \in Executing => row[r] \in {"running", "none"}

\* While the server is up no other row is running.
RunningRow ==
    server = "up" => \A r \in Runs : row[r] = "running" => proc[r] \in Executing

\* After it was written the place says which end it was.
EndingRow ==
    \A r \in Runs :
        /\ proc[r] = "picturing" => row[r] = "reported" \/ (row[r] = "none" /\ task = "deleted")
        /\ proc[r] = "ending" => row[r] \in Results \cup {"stopped", "none"}
        /\ proc[r] = "stopping" => row[r] \in {"stopped", "none"}
        /\ proc[r] = "failing" => row[r] \in {"error", "none"}

\* A reply runs only while it is awaited, and a reply that raised leads to no
\* final save.
ReplyPlace ==
    \A r \in Runs :
        /\ reply[r] = "going" => proc[r] = "awaiting"
        /\ proc[r] = "awaiting" => reply[r] # "none"
        /\ proc[r] \in {"creating", "opening"} => reply[r] = "none"
        /\ proc[r] = "closing" => reply[r] \in {"done", "marked"}

\* A run gives its picture between its two commits, once.
PicturePlace == picture # NoRun => proc[picture] \in {"ending", "stopping", "over"}

DownIdle == server = "down" => \A r \in Runs : proc[r] \in {"idle", "over"}

Inv ==
    /\ TypeOK /\ IdleClean /\ NothingReported /\ ExecutingRow /\ RunningRow /\ EndingRow
    /\ ReplyPlace /\ PicturePlace /\ DownIdle
    /\ PictureOfAResult /\ CancelledIsNoResult

----------------------------------------------------------------------------

\* What finish_run leaves: the row, if it is there, has the end asked for.
LEMMA Finished ==
    ASSUME TypeOK, NEW r \in Runs, NEW outcome \in {"stopped", "error", "result"},
           FinishRun(r, outcome)
    PROVE  /\ row' \in [Runs -> {"none", "running"} \cup Ended]
           /\ \A q \in Runs \ {r} : row'[q] = row[q]
           /\ row[r] = "none" => row'[r] = "none"
           /\ row[r] # "none" /\ outcome # "result" => row'[r] = outcome
           /\ row[r] # "none" /\ outcome = "result" => row'[r] \in Results
           /\ row[r] # "none" /\ TakesPicture(r, outcome) => row'[r] = "reported"
           /\ row'[r] = "unknown" => row[r] = "unknown" \/ report[r] = "none"
           /\ report' \in [Runs -> {"none", "plain", "image"}]
           /\ report'[r] = "none" /\ \A q \in Runs \ {r} : report'[q] = report[q]
<1> DEFINE status == StatusOf(r, outcome)
<1>1. /\ status \in Ended /\ (outcome # "result" => status = outcome)
      /\ outcome = "result" => status \in Results
      /\ status = "unknown" => report[r] = "none"
  BY DEF Ended, Results, StatusOf
<1>2. row' = [row EXCEPT ![r] = IF @ = "none" THEN @ ELSE status]
  BY DEF FinishRun
<1>3. report' = [report EXCEPT ![r] = "none"]
  BY DEF FinishRun
<1>4. TakesPicture(r, outcome) => status = "reported"
  BY DEF TakesPicture
<1> HIDE DEF status
<1>5. row'[r] = (IF row[r] = "none" THEN row[r] ELSE status)
         /\ \A q \in Runs \ {r} : row'[q] = row[q]
  BY <1>2 DEF TypeOK
<1>6. row' \in [Runs -> {"none", "running"} \cup Ended]
  BY <1>1, <1>2 DEF TypeOK
<1>7. report' \in [Runs -> {"none", "plain", "image"}] /\ report'[r] = "none"
         /\ \A q \in Runs \ {r} : report'[q] = report[q]
  BY <1>3 DEF TypeOK
<1> QED BY <1>1, <1>4, <1>5, <1>6, <1>7

LEMMA InitInv == Init => Inv
  BY DEF Init, Inv,
             TypeOK, IdleClean, ExecutingRow, RunningRow, EndingRow, ReplyPlace,
         DownIdle, NothingReported, PicturePlace, PictureOfAResult, CancelledIsNoResult,
         Executing, Ending, Ended, Results, NoRun

\* What a step that only asks a run to end gives to the invariant: the runs that
\* were asked stay asked.
Asked(r) ==
    /\ Alive(r) /\ UNCHANGED <<taskVars, picture, kind>>
    /\ asked' \in [Runs -> SUBSET {"stop", "limit", "shutdown"}]
    /\ \A q \in Runs : asked[q] \subseteq asked'[q]

LEMMA AskedStep ==
    ASSUME Inv, NEW r \in Runs, NEW by \in {"stop", "limit", "shutdown"}, Alive(r),
           UNCHANGED <<taskVars, picture, kind>>,
           asked' = [asked EXCEPT ![r] = @ \cup {by}]
    PROVE  Asked(r) /\ by \in asked'[r]
  BY DEF Inv, TypeOK, Asked

\* The picture stays one of a result, unless rows change.
LEMMA AskedPicture ==
    ASSUME Inv, NEW r \in Runs, Asked(r), UNCHANGED row
    PROVE  PictureOfAResult'
  BY DEF Inv, TypeOK, PictureOfAResult, Asked, NoRun, taskVars

\* Cancelling the reply of a run keeps the invariant.
LEMMA CancelReplyInv ==
    ASSUME Inv, NEW r \in Runs, Asked(r), reply[r] = "going", CancelReply(r)
    PROVE  Inv'
<1>1. PictureOfAResult'
  BY AskedPicture DEF CancelReply
<1>2. /\ reply' \in [Runs -> {"none", "going", "done", "marked", "raised"}]
      /\ \A q \in Runs \ {r} : reply'[q] = reply[q]
      /\ reply'[r] \in {"marked", "raised"}
  BY DEF CancelReply, Inv, TypeOK
<1>3. /\ calling' \in [Runs -> BOOLEAN]
      /\ \A q \in Runs \ {r} : calling'[q] = calling[q]
  BY DEF CancelReply, Inv, TypeOK
<1>4. UNCHANGED <<row, proc, report, taskVars, picture, kind>>
  BY DEF CancelReply, Asked
<1>5. proc[r] = "awaiting" /\ row[r] \in {"running", "none"} /\ server # "down"
  BY DEF Inv, ReplyPlace, ExecutingRow, Executing, Asked, Alive, LoopFree
<1>6. TypeOK'
  BY <1>2, <1>3, <1>4 DEF Inv, TypeOK, Asked, taskVars
<1>7. IdleClean' /\ NothingReported' /\ ReplyPlace'
  BY <1>2, <1>3, <1>4, <1>5 DEF Inv, IdleClean, NothingReported, ReplyPlace
<1>8. ExecutingRow' /\ RunningRow' /\ EndingRow' /\ DownIdle' /\ PicturePlace'
  BY <1>4 DEF Inv, ExecutingRow, RunningRow, EndingRow, DownIdle, PicturePlace, taskVars
<1>9. CancelledIsNoResult'
  BY <1>2, <1>4, <1>5 DEF Inv, CancelledIsNoResult, Results
<1> QED BY <1>1, <1>6, <1>7, <1>8, <1>9 DEF Inv

\* Cancelling the coroutine where it has no handler keeps the invariant.
LEMMA CancelOverInv ==
    ASSUME Inv, NEW r \in Runs, Asked(r), Goto(r, "over"), UNCHANGED <<row, report, reply, calling>>,
           proc[r] \notin {"opening", "closing", "awaiting", "creating"} \/ server = "closing",
           reply[r] # "going"
    PROVE  Inv'
<1>1. PictureOfAResult'
  BY AskedPicture
<1>2. /\ proc' \in [Runs -> {"idle", "picturing", "over"} \cup Executing \cup Ending]
      /\ \A q \in Runs \ {r} : proc'[q] = proc[q]
      /\ proc'[r] = "over"
  BY DEF Goto, Inv, TypeOK
<1>3. TypeOK'
  BY <1>2 DEF Inv, TypeOK, Asked, taskVars
<1>4. IdleClean' /\ NothingReported' /\ ReplyPlace' /\ CancelledIsNoResult'
  BY <1>2 DEF Inv, IdleClean, NothingReported, ReplyPlace, CancelledIsNoResult
<1>5. ExecutingRow' /\ EndingRow' /\ DownIdle'
  BY <1>2 DEF Inv, ExecutingRow, EndingRow, DownIdle, taskVars, Executing, Asked
<1>6. RunningRow'
  BY <1>2 DEF Inv, RunningRow, taskVars, Executing, Asked
<1>7. PicturePlace'
  BY <1>2 DEF Inv, TypeOK, PicturePlace, Asked, NoRun
<1> QED BY <1>1, <1>3, <1>4, <1>5, <1>6, <1>7 DEF Inv

\* Every step keeps the invariant.
LEMMA NextInv == Inv /\ [Next]_vars => Inv'
<1> SUFFICES ASSUME Inv, [Next]_vars PROVE Inv'
  OBVIOUS
<1> USE DEF Inv, TypeOK, IdleClean, ExecutingRow, RunningRow, EndingRow, ReplyPlace, DownIdle,
            NothingReported, PicturePlace, PictureOfAResult, CancelledIsNoResult,
            Executing, Ending, Ended, Results, NoRun, taskVars, Goto, Alive, LoopFree
<1>1. ASSUME NEW state \in {"on", "off"}, Switch(state) PROVE Inv'
  BY <1>1 DEF Switch
<1>2. CASE Delete
  BY <1>2 DEF Delete
<1>3. CASE RemovePicture
  BY <1>3 DEF RemovePicture
<1>4. ASSUME NEW r \in Runs, NEW by \in {"schedule", "now"}, Begin(r, by) PROVE Inv'
  BY <1>4 DEF Begin
<1>5. ASSUME NEW r \in Runs, CreateChat(r) PROVE Inv'
  BY <1>5 DEF CreateChat
<1>6. ASSUME NEW r \in Runs, Break(r) PROVE Inv'
  BY <1>6, Finished DEF Break
<1>7. ASSUME NEW r \in Runs, StartReply(r) PROVE Inv'
  BY <1>7 DEF StartReply
<1>8. ASSUME NEW r \in Runs, NEW with \in {"plain", "image"}, Report(r, with) PROVE Inv'
  BY <1>8 DEF Report
<1>8a. ASSUME NEW r \in Runs, CallReport(r) PROVE Inv'
  BY <1>8a DEF CallReport, Replying
<1>9. ASSUME NEW r \in Runs, ReplyEnds(r) PROVE Inv'
  BY <1>9 DEF ReplyEnds, Replying
<1>10. ASSUME NEW r \in Runs, Stop(r) PROVE Inv'
  <2>0. Alive(r) /\ UNCHANGED <<taskVars, picture, kind>>
    BY <1>10 DEF Stop
  <2>1. Asked(r) /\ "stop" \in asked'[r]
    BY <1>10, <2>0, AskedStep DEF Stop
  <2>2. CASE reply[r] = "going" /\ CancelReply(r)
    BY <2>1, <2>2, CancelReplyInv
  <2>3. CASE proc[r] # "awaiting" /\ proc[r] # "creating" /\ CancelRun(r)
    <3>1. CASE proc[r] \in {"opening", "closing", "ending"}
      <4>1. FinishRun(r, "stopped") /\ proc' = [proc EXCEPT ![r] = "stopping"]
               /\ UNCHANGED <<reply, calling>>
        BY <2>3, <3>1 DEF CancelRun
      <4>2. asked' = [asked EXCEPT ![r] = asked'[r]] /\ asked[r] \subseteq asked'[r]
               /\ asked'[r] \subseteq {"stop", "limit", "shutdown"}
               /\ asked'[r] \cap {"stop", "shutdown"} # {}
        BY <1>10 DEF Stop
      <4> QED BY <2>0, <4>2, <3>1, <4>1, Finished
    <3>2. CASE proc[r] \notin {"opening", "closing", "ending"}
      <4>1. Goto(r, "over") /\ UNCHANGED <<row, report, reply, calling>>
        BY <2>3, <3>2 DEF CancelRun
      <4>2. reply[r] # "going"
        BY <2>3
      <4> QED BY ONLY Inv, <2>1, <2>3, <3>2, <4>1, <4>2, CancelOverInv
    <3> QED BY <3>1, <3>2
  <2> QED BY <1>10, <2>2, <2>3 DEF Stop
<1>11. ASSUME NEW r \in Runs, Limit(r) PROVE Inv'
  <2>0. Alive(r) /\ UNCHANGED <<taskVars, picture, kind>>
    BY <1>11 DEF Limit
  <2>1. asked' = [asked EXCEPT ![r] = asked[r] \cup {"limit"}]
    BY <1>11 DEF Limit
  <2>2. CASE reply[r] = "going" /\ CancelReply(r)
    BY <2>0, <2>1, <2>2, AskedStep, CancelReplyInv
  <2>3. CASE proc[r] = "opening" /\ FinishRun(r, "error") /\ Goto(r, "failing")
             /\ UNCHANGED <<reply, calling>>
    BY <2>0, <2>1, <2>3, Finished
  <2> QED BY <1>11, <2>2, <2>3 DEF Limit
<1>12. ASSUME NEW r \in Runs, Shut(r) PROVE Inv'
  <2>0. Alive(r) /\ UNCHANGED <<taskVars, picture, kind>>
    BY <1>12 DEF Shut
  <2>1. Asked(r) /\ "shutdown" \in asked'[r]
    BY <1>12, <2>0, AskedStep DEF Shut
  <2>2. CASE reply[r] = "going" /\ CancelReply(r)
    BY <2>1, <2>2, CancelReplyInv
  <2>3. CASE proc[r] # "awaiting" /\ server = "closing" /\ CancelRun(r)
    <3>1. CASE proc[r] \in {"opening", "closing", "ending"}
      <4>1. FinishRun(r, "stopped") /\ proc' = [proc EXCEPT ![r] = "stopping"]
               /\ UNCHANGED <<reply, calling>>
        BY <2>3, <3>1 DEF CancelRun
      <4>2. asked' = [asked EXCEPT ![r] = asked'[r]] /\ asked[r] \subseteq asked'[r]
               /\ asked'[r] \subseteq {"stop", "limit", "shutdown"}
               /\ asked'[r] \cap {"stop", "shutdown"} # {}
        BY <1>12 DEF Shut
      <4> QED BY <2>0, <4>2, <3>1, <4>1, Finished
    <3>2. CASE proc[r] \notin {"opening", "closing", "ending"}
      <4>1. Goto(r, "over") /\ UNCHANGED <<row, report, reply, calling>>
        BY <2>3, <3>2 DEF CancelRun
      <4>2. reply[r] # "going"
        BY <2>3
      <4> QED BY ONLY Inv, <2>1, <2>3, <3>2, <4>1, <4>2, CancelOverInv
    <3> QED BY <3>1, <3>2
  <2> QED BY <1>12, <2>2, <2>3 DEF Shut
<1>13. ASSUME NEW r \in Runs, Return(r) PROVE Inv'
  <2>1. CASE reply[r] # "raised"
    BY <1>13, <2>1 DEF Return
  <2>2. CASE reply[r] = "raised" /\ "limit" \in asked[r]
    <3>1. FinishRun(r, "error") /\ proc' = [proc EXCEPT ![r] = "failing"]
      BY <1>13, <2>2 DEF Return
    <3>2. /\ proc[r] = "awaiting" /\ server # "down"
          /\ UNCHANGED <<server, task, job, picture, kind, reply, calling, asked>>
      BY <1>13 DEF Return
    <3> QED BY <2>2, <3>1, <3>2, Finished
  <2>3. CASE reply[r] = "raised" /\ "limit" \notin asked[r]
    <3>1. FinishRun(r, "stopped") /\ proc' = [proc EXCEPT ![r] = "stopping"]
      BY <1>13, <2>3 DEF Return
    <3>2. /\ proc[r] = "awaiting" /\ server # "down"
          /\ UNCHANGED <<server, task, job, picture, kind, reply, calling, asked>>
      BY <1>13 DEF Return
    <3> QED BY <2>3, <3>1, <3>2, Finished
  <2> QED BY <2>1, <2>2, <2>3
<1>14. ASSUME NEW r \in Runs, Finish(r) PROVE Inv'
  <2> DEFINE outcome == IF reply[r] = "marked" THEN "stopped" ELSE "result"
  <2>1. EndsAs(r, outcome) /\ outcome \in {"stopped", "result"}
    BY <1>14 DEF Finish
  <2>2. TakesPicture(r, outcome) => outcome = "result" /\ row[r] # "none"
    BY DEF TakesPicture, StatusOf
  <2>3. outcome = "result" => reply[r] # "marked"
    OBVIOUS
  <2> HIDE DEF outcome
  <2> QED BY <2>1, <2>2, <2>3, Finished DEF EndsAs
<1>14a. ASSUME NEW r \in Runs, SetImage(r) PROVE Inv'
  BY <1>14a DEF SetImage
<1>14b. ASSUME NEW r \in Runs, SetImageFails(r) PROVE Inv'
  BY <1>14b, Finished DEF SetImageFails
<1>15. ASSUME NEW r \in Runs, Notify(r) PROVE Inv'
  BY <1>15, Finished DEF Notify
<1>16. CASE Close
  BY <1>16 DEF Close
<1>17. CASE Exit
  BY <1>17 DEF Exit
<1>18. CASE Start
  BY <1>18 DEF Start
<1>19. CASE UNCHANGED vars
  BY <1>19 DEF vars
<1> QED
  BY <1>1, <1>2, <1>3, <1>4, <1>5, <1>6, <1>7, <1>8, <1>8a, <1>9, <1>10, <1>11, <1>12,
     <1>13, <1>14, <1>14a, <1>14b, <1>15, <1>16, <1>17, <1>18, <1>19 DEF Next, RunStep

\* The invariant holds in every reachable state, for any number of runs.
THEOREM Invariant == Spec => []Inv
<1>1. Init => Inv
  BY InitInv
<1>2. Inv /\ [Next]_vars => Inv'
  BY NextInv
<1> QED BY <1>1, <1>2, PTL DEF Spec

\* Types.
THEOREM TypeCorrect == Spec => []TypeOK
<1>1. Inv => TypeOK
  BY DEF Inv
<1> QED BY <1>1, Invariant, PTL

\* While the server is up a row says "running" exactly while its coroutine has not
\* ended the run.
THEOREM RunningCorrect == Spec => []RunningIsExecuted
<1>1. Inv => RunningIsExecuted
  BY DEF Inv, RunningIsExecuted, ExecutingRow, RunningRow
<1> QED BY <1>1, Invariant, PTL

\* The task's picture is from a run that ended as its model reported.
THEOREM PictureCorrect == Spec => []PictureOfAResult
<1>1. Inv => PictureOfAResult
  BY DEF Inv
<1> QED BY <1>1, Invariant, PTL

\* A run whose reply was cancelled never ends with a result.
THEOREM CancelledCorrect == Spec => []CancelledIsNoResult
<1>1. Inv => CancelledIsNoResult
  BY DEF Inv
<1> QED BY <1>1, Invariant, PTL

----------------------------------------------------------------------------
(* An ended run stays ended.                                               *)

\* A step changes the row of an ended run only by deleting it, by finish_run with an
\* error over an error, or by a cancellation while its end is announced.
LEMMA EndedStep ==
    ASSUME Inv, [Next]_vars, NEW q \in Runs, row[q] \in Ended, row'[q] # row[q]
    PROVE  \/ row'[q] = "none"
           \/ row[q] \in Results /\ row'[q] = "stopped"
           \/ row[q] = "reported" /\ row'[q] = "error" /\ proc[q] = "picturing"
<1> USE DEF Ended, Results
<1>0. row[q] \notin {"none", "running"} /\ proc[q] \notin Executing \cup {"idle"}
  BY DEF Inv, ExecutingRow, IdleClean
<1>1. CASE Delete \/ Start
  BY <1>0, <1>1 DEF Delete, Start
<1>2. ASSUME NEW r \in Runs, NEW by \in {"schedule", "now"}, Begin(r, by) PROVE FALSE
  BY <1>0, <1>2 DEF Begin, Inv, TypeOK
<1>3. ASSUME NEW r \in Runs, NEW outcome \in {"stopped", "error", "result"},
             FinishRun(r, outcome), proc[r] \in Executing
      PROVE  FALSE
  BY <1>0, <1>3, Finished DEF Inv
<1>4. ASSUME NEW r \in Runs, Break(r) \/ Return(r) \/ Finish(r) PROVE FALSE
  BY <1>0, <1>3, <1>4 DEF Break, Return, Finish, EndsAs, Executing
<1>5. ASSUME NEW r \in Runs, Limit(r) PROVE FALSE
  BY <1>0, <1>3, <1>5 DEF Limit, CancelReply, Executing
<1>6. ASSUME NEW r \in Runs, CancelRun(r)
      PROVE  row[q] \in Results /\ row'[q] = "stopped"
  <2>1. proc[r] \in {"opening", "closing", "ending"} /\ FinishRun(r, "stopped")
    BY <1>6 DEF CancelRun
  <2>2. q = r
    BY <2>1, Finished DEF Inv
  <2>3. proc[q] = "ending"
    BY <1>0, <2>1, <2>2 DEF Executing
  <2>4. row'[q] = "stopped"
    BY <1>0, <2>1, <2>2, Finished DEF Inv
  <2> QED BY <2>3, <2>4 DEF Inv, EndingRow
<1>7. ASSUME NEW r \in Runs, Stop(r) \/ Shut(r)
      PROVE  row[q] \in Results /\ row'[q] = "stopped"
  BY <1>6, <1>7 DEF Stop, Shut, CancelReply
<1>8. ASSUME NEW r \in Runs, Notify(r) PROVE FALSE
  <2>1. proc[r] = "failing" /\ FinishRun(r, "error")
    BY <1>8 DEF Notify
  <2>2. q = r /\ row'[q] = "error"
    BY <1>0, <2>1, Finished DEF Inv
  <2> QED BY <1>0, <2>1, <2>2 DEF Inv, EndingRow
<1>8a. ASSUME NEW r \in Runs, SetImageFails(r)
       PROVE  row[q] = "reported" /\ row'[q] = "error" /\ proc[q] = "picturing"
  <2>1. proc[r] = "picturing" /\ FinishRun(r, "error")
    BY <1>8a DEF SetImageFails
  <2>2. q = r /\ row'[q] = "error"
    BY <1>0, <2>1, Finished DEF Inv
  <2> QED BY <1>0, <2>1, <2>2 DEF Inv, EndingRow
<1>9. CASE row' = row
  BY <1>9
<1>10. (\E r \in Runs : CreateChat(r) \/ StartReply(r) \/ ReplyEnds(r) \/ CallReport(r)
                           \/ SetImage(r) \/ \E with \in {"plain", "image"} : Report(r, with))
          => row' = row
  BY DEF CreateChat, StartReply, ReplyEnds, CallReport, Report, SetImage
<1>11. (\E state \in {"on", "off"} : Switch(state)) \/ RemovePicture \/ Close \/ Exit
          \/ UNCHANGED vars => row' = row
  BY DEF Switch, RemovePicture, Close, Exit, vars
<1> QED BY <1>1, <1>2, <1>4, <1>5, <1>7, <1>8, <1>8a, <1>9, <1>10, <1>11 DEF Next, RunStep

\* An ended run keeps its end until it is deleted; only a result that is still being
\* announced may become a stop, and one whose picture cannot be stored an error.
THEOREM EndedCorrect == Spec => EndedStaysEnded
<1>1. Inv /\ [Next]_vars =>
         [\A r \in Runs : row[r] \in Ended /\ row'[r] # row[r] =>
              \/ row'[r] = "none"
              \/ row[r] \in Results /\ row'[r] = "stopped"
              \/ row[r] = "reported" /\ row'[r] = "error" /\ proc[r] = "picturing"]_vars
  BY EndedStep
<1> QED BY <1>1, Invariant, PTL DEF Spec, EndedStaysEnded

----------------------------------------------------------------------------
(* Reports are used by the end of their run.                               *)

ReportKept(q) ==
    /\ proc[q] \in Executing /\ proc'[q] \notin Executing => report'[q] = "none"
    /\ report[q] # "none" /\ report'[q] = "none" => proc'[q] \notin Executing
    /\ report[q] # "none" /\ row'[q] = "unknown" => row[q] = "unknown"

\* finish_run uses the report of its run up, and leaves those of others.
LEMMA FinishUsesUp ==
    ASSUME TypeOK, NEW r \in Runs, NEW outcome \in {"stopped", "error", "result"},
           FinishRun(r, outcome), NEW place, place \notin Executing, Goto(r, place),
           NEW q \in Runs
    PROVE  ReportKept(q)
<1>1. proc' = [proc EXCEPT ![r] = place] /\ DOMAIN proc = Runs
  BY DEF TypeOK, Goto
<1>2. CASE q = r
  BY <1>1, <1>2, Finished DEF ReportKept
<1>3. CASE q # r
  BY <1>1, <1>3, Finished DEF ReportKept
<1> QED BY <1>2, <1>3

LEMMA ReportStep ==
    ASSUME Inv, [Next]_vars, server' # "down", NEW q \in Runs
    PROVE  ReportKept(q)
<1>0. TypeOK /\ (proc[q] \in {"creating", "opening"} => report[q] = "none")
  BY DEF Inv, ReplyPlace, NothingReported
<1>1. ASSUME NEW r \in Runs, Break(r) \/ SetImageFails(r) PROVE ReportKept(q)
  BY <1>0, <1>1, FinishUsesUp DEF Break, SetImageFails, Executing
<1>2. ASSUME NEW r \in Runs, Finish(r) PROVE ReportKept(q)
  BY <1>0, <1>2, FinishUsesUp DEF Finish, EndsAs, Executing
<1>3. ASSUME UNCHANGED <<row, report>>, proc' = proc PROVE ReportKept(q)
  BY <1>3 DEF ReportKept
<1>4. ASSUME NEW r \in Runs, NEW place, Goto(r, place), UNCHANGED <<row, report>>,
             proc[r] \in {"creating", "opening"} \cup Ending \cup {"picturing"}
                \/ place \in Executing
      PROVE  ReportKept(q)
  BY <1>0, <1>4 DEF ReportKept, Goto, TypeOK, Executing, Ending
<1>5. ASSUME NEW r \in Runs, CreateChat(r) \/ StartReply(r) \/ SetImage(r)
      PROVE  ReportKept(q)
  BY <1>4, <1>5 DEF CreateChat, StartReply, SetImage, Executing
<1>6. ASSUME NEW r \in Runs, Return(r) PROVE ReportKept(q)
  BY <1>0, <1>4, <1>6, FinishUsesUp DEF Return, Executing
<1>7. ASSUME NEW r \in Runs, Notify(r) PROVE ReportKept(q)
  BY <1>0, <1>4, <1>7, FinishUsesUp DEF Notify, Executing
<1>8. ASSUME NEW r \in Runs, CancelReply(r) PROVE ReportKept(q)
  BY <1>3, <1>8 DEF CancelReply
<1>9. ASSUME NEW r \in Runs, Alive(r), proc[r] # "awaiting", CancelRun(r)
      PROVE  ReportKept(q)
  <2>1. CASE proc[r] \in {"opening", "closing", "ending"}
    BY <1>0, <1>9, <2>1, FinishUsesUp DEF CancelRun, Executing
  <2>2. CASE proc[r] \notin {"opening", "closing", "ending"}
    <3>1. proc[r] \in {"creating"} \cup Ending
      BY <1>0, <1>9, <2>2 DEF Alive, LoopFree, TypeOK, Executing, Ending
    <3> QED BY <1>4, <1>9, <2>2, <3>1 DEF CancelRun
  <2> QED BY <2>1, <2>2
<1>10. ASSUME NEW r \in Runs, Stop(r) \/ Shut(r) PROVE ReportKept(q)
  BY <1>8, <1>9, <1>10 DEF Stop, Shut
<1>11. ASSUME NEW r \in Runs, Limit(r) PROVE ReportKept(q)
  BY <1>0, <1>8, <1>11, FinishUsesUp DEF Limit, Executing
<1>12. ASSUME NEW r \in Runs, NEW by \in {"schedule", "now"}, Begin(r, by) PROVE ReportKept(q)
  BY <1>0, <1>12 DEF Begin, Goto, ReportKept, TypeOK, Executing
<1>13. ASSUME NEW r \in Runs, NEW with \in {"plain", "image"}, Report(r, with)
       PROVE  ReportKept(q)
  BY <1>0, <1>13 DEF Report, ReportKept, TypeOK
<1>14. ASSUME NEW r \in Runs, CallReport(r) \/ ReplyEnds(r) PROVE ReportKept(q)
  BY <1>3, <1>14 DEF CallReport, ReplyEnds
<1>15. CASE Delete \/ Start
  BY <1>0, <1>15 DEF Delete, Start, ReportKept, TypeOK
<1>16. CASE Exit
  BY <1>16 DEF Exit
<1>17. (\E state \in {"on", "off"} : Switch(state)) \/ RemovePicture \/ Close
          \/ UNCHANGED vars => ReportKept(q)
  BY <1>3 DEF Switch, RemovePicture, Close, vars
<1> QED BY <1>1, <1>2, <1>5, <1>6, <1>7, <1>10, <1>11, <1>12, <1>13, <1>14, <1>15, <1>16,
           <1>17 DEF Next, RunStep

\* What the model reported before its run ends is used up by that end and lost by
\* nothing before it, and a run ends as unknown only when there is no report.
THEOREM ReportsCorrect == Spec => ReportsOfExecutedRuns
<1>1. Inv /\ [Next]_vars =>
         [server' # "down" => \A r \in Runs :
              /\ proc[r] \in Executing /\ proc'[r] \notin Executing => report'[r] = "none"
              /\ report[r] # "none" /\ report'[r] = "none" => proc'[r] \notin Executing
              /\ report[r] # "none" /\ row'[r] = "unknown" => row[r] = "unknown"]_vars
  BY ReportStep DEF ReportKept
<1> QED BY <1>1, Invariant, PTL DEF Spec, ReportsOfExecutedRuns

=============================================================================
