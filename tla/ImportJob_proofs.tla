-------------------------- MODULE ImportJob_proofs --------------------------
(***************************************************************************)
(* The invariants of ImportJob, for any number of files, jobs and sockets. *)
(* ImportedOnce relates jobs to each other through what the page was told: *)
(* to keep it, Followed says that the page still waits for a job that is   *)
(* running and has not been told of a failure by one whose rows are in,    *)
(* and Placed says what the place of a handler tells of its job.           *)
(***************************************************************************)
EXTENDS ImportJob, TLAPS

Before  == {"audit start", "begin", "parse", "insert"}
Failing == {"catch", "audit failure", "announce failure"}

\* What the place of the handler tells of its job: the status is written after what it
\* announces, and a job whose rows are in fails only when that could not be recorded.
Placed(j) ==
  /\ status[j] = "unused" => at[j] = "idle" /\ j \notin inserted
  /\ at[j] # "idle" => file[j] \in File
  /\ at[j] \in {"parse", "insert", "complete"} => status[j] = "PROCESSING"
  /\ at[j] = "insert" => HasAccepted(file[j])
  /\ at[j] = "complete" => (HasAccepted(file[j]) <=> j \in inserted)
  /\ j \in inserted =>
       /\ file[j] \in File /\ HasAccepted(file[j])
       /\ at[j] \notin Before
       /\ at[j] \in Failing => j \in unrecorded

\* Unless its file was sent again blindly or after a DONE, a job that is running is the one the page
\* waits for or gave up on, and a recorded one has not been reported as failed.
Followed(j) ==
  file[j] \in File \ (blind \cup repeated) =>
    /\ at[j] # "idle" =>
         sent[file[j]] = j /\ client[file[j]] \in {"waiting", "unknown"}
    /\ j \in inserted \ unrecorded =>
         sent[file[j]] = j /\ client[file[j]] \in {"waiting", "unknown", "done"}

\* The inductive invariant.
Inv ==
  /\ TypeOK
  /\ \A j \in Job : Placed(j)
  /\ \A j \in Job : Followed(j)
  /\ DoneMeansInserted

(***************************************************************************)
(* What a step does to the handlers and to the pages.                      *)
(***************************************************************************)

\* Goto moves one handler.
LEMMA GotoEffect ==
  ASSUME TypeOK, NEW j \in Job, NEW place \in Place, Goto(j, place)
  PROVE  /\ at' \in [Job -> Place]
         /\ at'[j] = place
         /\ \A k \in Job \ {j} : at'[k] = at[k]
BY DEF TypeOK, Goto

\* Reply reaches the pages that wait for the job, and no other.
LEMMA ReplyEffect ==
  ASSUME TypeOK, NEW j \in Job, NEW answer \in Answer, Reply(j, answer)
  PROVE  /\ client' \in [File -> Answer]
         /\ \A f \in File : client'[f] = IF sent[f] = j /\ client[f] = "waiting" THEN answer ELSE client[f]
BY DEF TypeOK, Reply

\* Emit concerns the sockets only.
LEMMA EmitEffect ==
  ASSUME TypeOK, NEW j \in Job, NEW result \in Final, Emit(j, result)
  PROVE  heard' \in [Listener -> [Job -> Final \cup {"none"}]]
<1> SUFFICES ASSUME NEW l \in Listener PROVE heard'[l] \in [Job -> Final \cup {"none"}]
  BY DEF Emit
<1>1. heard[l] \in [Job -> Final \cup {"none"}]
  BY DEF TypeOK
<1> QED BY <1>1 DEF Emit

(***************************************************************************)
(* Every step preserves Inv: one lemma per action.                         *)
(***************************************************************************)

\* Upload: the page does not wait for an earlier job; one that it was told DONE of, or
\* does not know about, makes the file repeated or blind.
LEMMA UploadInv ==
  ASSUME Inv, NEW f \in File, NEW j \in Job, Upload(f, j) PROVE Inv'
<1> USE DEF Upload, Inv, db, page, sockets, history
<1>0. at' \in [Job -> Place] /\ at'[j] = "audit start" /\ \A k \in Job \ {j} : at'[k] = at[k]
  BY GotoEffect DEF Place
<1>1. TypeOK'
  BY <1>0 DEF TypeOK, Status, Answer
<1>2. \A k \in Job : Placed(k)'
  <2> SUFFICES ASSUME NEW k \in Job PROVE Placed(k)'
    OBVIOUS
  <2>1. CASE k = j
    BY <1>0, <2>1 DEF Placed, TypeOK, Before, Failing
  <2>2. CASE k # j
    BY <1>0, <2>2 DEF Placed, TypeOK, HasAccepted
  <2> QED BY <2>1, <2>2
<1>3. \A k \in Job : Followed(k)'
  <2> SUFFICES ASSUME NEW k \in Job, file'[k] \in File \ (blind' \cup repeated')
               PROVE  /\ at'[k] # "idle" =>
                           sent'[file'[k]] = k /\ client'[file'[k]] \in {"waiting", "unknown"}
                      /\ k \in inserted \ unrecorded =>
                           sent'[file'[k]] = k /\ client'[file'[k]] \in {"waiting", "unknown", "done"}
    BY DEF Followed
  <2>1. CASE k = j
    BY <1>0, <2>1 DEF TypeOK, Placed
  <2>2. CASE k # j /\ file[k] # f
    BY <1>0, <2>2 DEF Followed, TypeOK
  <2>3. CASE k # j /\ file[k] = f
    BY <1>0, <2>3 DEF Followed, TypeOK
  <2> QED BY <2>1, <2>2, <2>3
<1>4. DoneMeansInserted'
  BY <1>0 DEF DoneMeansInserted, Placed, TypeOK
<1> QED BY <1>1, <1>2, <1>3, <1>4

\* An audit entry moves the handler on, whether it was written or not.
LEMMA SafeCreateAuditLogInv ==
  ASSUME Inv, NEW j \in Job, NEW place, NEW next, SafeCreateAuditLog(j, place, next),
         \/ place = "audit start" /\ next = "begin"
         \/ place = "audit done" /\ next = "announce"
         \/ place = "audit failure" /\ next = "announce failure"
  PROVE Inv'
<1> USE DEF SafeCreateAuditLog, Inv, db, page, sockets, history
<1>0. at' \in [Job -> Place] /\ at'[j] = next /\ \A k \in Job \ {j} : at'[k] = at[k]
  BY GotoEffect DEF Place
<1>1. TypeOK'
  BY <1>0 DEF TypeOK
<1>2. \A k \in Job : Placed(k)'
  BY <1>0 DEF Placed, Before, Failing
<1>3. \A k \in Job : Followed(k)'
  BY <1>0 DEF Followed
<1>4. DoneMeansInserted'
  BY <1>0 DEF DoneMeansInserted
<1> QED BY <1>1, <1>2, <1>3, <1>4

\* PROCESSING is written before anything is inserted.
LEMMA BeginProcessingInv ==
  ASSUME Inv, NEW j \in Job, BeginProcessing(j) PROVE Inv'
<1> USE DEF BeginProcessing, Inv, db, page, sockets, history
<1>0. at' \in [Job -> Place] /\ at'[j] = "parse" /\ \A k \in Job \ {j} : at'[k] = at[k]
  BY GotoEffect DEF Place
<1>1. TypeOK'
  BY <1>0 DEF TypeOK, Status, Answer, Final
<1>2. \A k \in Job : Placed(k)'
  <2> SUFFICES ASSUME NEW k \in Job PROVE Placed(k)'
    OBVIOUS
  <2>1. CASE k = j
    BY <1>0, <2>1 DEF Placed, TypeOK, Before, Failing, HasAccepted, HasRows
  <2>2. CASE k # j
    BY <1>0, <2>2 DEF Placed, TypeOK, HasAccepted
  <2> QED BY <2>1, <2>2
<1>3. \A k \in Job : Followed(k)'
  <2> SUFFICES ASSUME NEW k \in Job PROVE Followed(k)'
    OBVIOUS
  <2>1. CASE k = j
    BY <1>0, <2>1 DEF Followed, Placed, TypeOK, Before, Failing
  <2>2. CASE k # j
    BY <1>0, <2>2 DEF Followed, TypeOK
  <2> QED BY <2>1, <2>2
<1>4. DoneMeansInserted'
  BY <1>0 DEF DoneMeansInserted, Placed, Before, Failing, TypeOK
<1> QED BY <1>1, <1>2, <1>3, <1>4

\* Only a file with accepted rows gets to the insert.
LEMMA ReadRowsInv ==
  ASSUME Inv, NEW j \in Job, ReadRows(j) PROVE Inv'
<1> USE DEF ReadRows, Inv, db, page, sockets, history
<1>0. /\ at' \in [Job -> Place] /\ \A k \in Job \ {j} : at'[k] = at[k]
      /\ \/ at'[j] = "catch"
         \/ at'[j] = "insert" /\ HasAccepted(file[j])
         \/ at'[j] = "complete" /\ ~HasAccepted(file[j])
  <2>1. CASE ~HasRows(file[j])
    BY <2>1, GotoEffect DEF Place
  <2>2. CASE HasAccepted(file[j])
    BY <2>2, GotoEffect DEF Place, HasRows, HasAccepted
  <2>3. CASE HasRows(file[j]) /\ ~HasAccepted(file[j])
    BY <2>3, GotoEffect DEF Place
  <2> QED BY <2>1, <2>2, <2>3
<1>1. TypeOK'
  BY <1>0 DEF TypeOK, Status, Answer, Final
<1>2. \A k \in Job : Placed(k)'
  <2> SUFFICES ASSUME NEW k \in Job PROVE Placed(k)'
    OBVIOUS
  <2>1. CASE k = j
    BY <1>0, <2>1 DEF Placed, TypeOK, Before, Failing, HasAccepted, HasRows
  <2>2. CASE k # j
    BY <1>0, <2>2 DEF Placed, TypeOK, HasAccepted
  <2> QED BY <2>1, <2>2
<1>3. \A k \in Job : Followed(k)'
  <2> SUFFICES ASSUME NEW k \in Job PROVE Followed(k)'
    OBVIOUS
  <2>1. CASE k = j
    BY <1>0, <2>1 DEF Followed, Placed, TypeOK, Before, Failing
  <2>2. CASE k # j
    BY <1>0, <2>2 DEF Followed, TypeOK
  <2> QED BY <2>1, <2>2
<1>4. DoneMeansInserted'
  BY <1>0 DEF DoneMeansInserted, Placed, Before, Failing, TypeOK
<1> QED BY <1>1, <1>2, <1>3, <1>4

\* The rows go in; the page still waits for this job, or was given up on.
LEMMA InsertTransactionsInv ==
  ASSUME Inv, NEW j \in Job, InsertTransactions(j) PROVE Inv'
<1> USE DEF InsertTransactions, Inv, db, page, sockets, history
<1>0. at' \in [Job -> Place] /\ at'[j] = "complete" /\ \A k \in Job \ {j} : at'[k] = at[k]
  BY GotoEffect DEF Place
<1>1. TypeOK'
  BY <1>0 DEF TypeOK, Status, Answer, Final
<1>2. \A k \in Job : Placed(k)'
  <2> SUFFICES ASSUME NEW k \in Job PROVE Placed(k)'
    OBVIOUS
  <2>1. CASE k = j
    BY <1>0, <2>1 DEF Placed, TypeOK, Before, Failing, HasAccepted, HasRows
  <2>2. CASE k # j
    BY <1>0, <2>2 DEF Placed, TypeOK, HasAccepted
  <2> QED BY <2>1, <2>2
<1>3. \A k \in Job : Followed(k)'
  <2> SUFFICES ASSUME NEW k \in Job PROVE Followed(k)'
    OBVIOUS
  <2>1. CASE k = j
    BY <1>0, <2>1 DEF Followed, Placed, TypeOK, Before, Failing
  <2>2. CASE k # j
    BY <1>0, <2>2 DEF Followed, TypeOK
  <2> QED BY <2>1, <2>2
<1>4. DoneMeansInserted'
  BY <1>0 DEF DoneMeansInserted, Placed, Before, Failing, TypeOK
<1> QED BY <1>1, <1>2, <1>3, <1>4

\* The final status says whether there were rows to insert.
LEMMA CompleteInv ==
  ASSUME Inv, NEW j \in Job, Complete(j) PROVE Inv'
<1> USE DEF Complete, Inv, db, page, sockets, history
<1>0. at' \in [Job -> Place] /\ at'[j] = "audit done" /\ \A k \in Job \ {j} : at'[k] = at[k]
  BY GotoEffect DEF Place
<1>1. TypeOK'
  BY <1>0 DEF TypeOK, Status, Answer, Final, FinalStatus
<1>2. \A k \in Job : Placed(k)'
  <2> SUFFICES ASSUME NEW k \in Job PROVE Placed(k)'
    OBVIOUS
  <2>1. CASE k = j
    BY <1>0, <2>1 DEF Placed, TypeOK, Before, Failing, HasAccepted, HasRows, FinalStatus
  <2>2. CASE k # j
    BY <1>0, <2>2 DEF Placed, TypeOK, HasAccepted
  <2> QED BY <2>1, <2>2
<1>3. \A k \in Job : Followed(k)'
  <2> SUFFICES ASSUME NEW k \in Job PROVE Followed(k)'
    OBVIOUS
  <2>1. CASE k = j
    BY <1>0, <2>1 DEF Followed, Placed, TypeOK, Before, Failing, FinalStatus
  <2>2. CASE k # j
    BY <1>0, <2>2 DEF Followed, TypeOK
  <2> QED BY <2>1, <2>2
<1>4. DoneMeansInserted'
  BY <1>0 DEF DoneMeansInserted, Placed, Before, Failing, TypeOK, FinalStatus
<1> QED BY <1>1, <1>2, <1>3, <1>4

\* The catch clause marks a job FAILED; if its rows are in, that was recorded.
LEMMA CatchInv ==
  ASSUME Inv, NEW j \in Job, Catch(j) PROVE Inv'
<1> USE DEF Catch, Inv, db, page, sockets, history
<1>0. at' \in [Job -> Place] /\ at'[j] = "audit failure" /\ \A k \in Job \ {j} : at'[k] = at[k]
  BY GotoEffect DEF Place
<1>1. TypeOK'
  BY <1>0 DEF TypeOK, Status, Answer, Final
<1>2. \A k \in Job : Placed(k)'
  <2> SUFFICES ASSUME NEW k \in Job PROVE Placed(k)'
    OBVIOUS
  <2>1. CASE k = j
    BY <1>0, <2>1 DEF Placed, TypeOK, Before, Failing, HasAccepted, HasRows
  <2>2. CASE k # j
    BY <1>0, <2>2 DEF Placed, TypeOK, HasAccepted
  <2> QED BY <2>1, <2>2
<1>3. \A k \in Job : Followed(k)'
  <2> SUFFICES ASSUME NEW k \in Job PROVE Followed(k)'
    OBVIOUS
  <2>1. CASE k = j
    BY <1>0, <2>1 DEF Followed, Placed, TypeOK, Before, Failing
  <2>2. CASE k # j
    BY <1>0, <2>2 DEF Followed, TypeOK
  <2> QED BY <2>1, <2>2
<1>4. DoneMeansInserted'
  BY <1>0 DEF DoneMeansInserted, Placed, Before, Failing, TypeOK
<1> QED BY <1>1, <1>2, <1>3, <1>4

\* The page is told DONE if and only if the rows are in.
LEMMA AnnounceInv ==
  ASSUME Inv, NEW j \in Job, Announce(j) PROVE Inv'
<1> USE DEF Announce, Inv, db, page, sockets, history
<1>0. at' \in [Job -> Place] /\ at'[j] = "idle" /\ \A k \in Job \ {j} : at'[k] = at[k]
  BY GotoEffect DEF Place
<1>c. /\ client' \in [File -> Answer]
      /\ \A f \in File : client'[f] = IF sent[f] = j /\ client[f] = "waiting" THEN IF FinalStatus(j) = "DONE" THEN "done" ELSE "failed" ELSE client[f]
  BY ReplyEffect DEF Answer
<1>e. heard' \in [Listener -> [Job -> Final \cup {"none"}]]
  BY EmitEffect DEF FinalStatus, Final
<1>1. TypeOK'
  BY <1>0, <1>c, <1>e DEF TypeOK
<1>2. \A k \in Job : Placed(k)'
  BY <1>0 DEF Placed, Before, Failing, HasAccepted
<1>3. \A k \in Job : Followed(k)'
  <2> SUFFICES ASSUME NEW k \in Job PROVE Followed(k)'
    OBVIOUS
  <2>1. CASE k = j
    BY <1>0, <1>c, <2>1 DEF Followed, Placed, TypeOK, Before, Failing, FinalStatus
  <2>2. CASE k # j
    BY <1>0, <1>c, <2>2 DEF Followed, Placed, TypeOK
  <2> QED BY <2>1, <2>2
<1>4. DoneMeansInserted'
  BY <1>0 DEF DoneMeansInserted, Placed
<1> QED BY <1>1, <1>2, <1>3, <1>4

\* The page is told of an error: no rows are in, or that was recorded.
LEMMA AnnounceFailureInv ==
  ASSUME Inv, NEW j \in Job, AnnounceFailure(j) PROVE Inv'
<1> USE DEF AnnounceFailure, Inv, db, page, sockets, history
<1>0. at' \in [Job -> Place] /\ at'[j] = "idle" /\ \A k \in Job \ {j} : at'[k] = at[k]
  BY GotoEffect DEF Place
<1>c. /\ client' \in [File -> Answer]
      /\ \A f \in File : client'[f] = IF sent[f] = j /\ client[f] = "waiting" THEN "error" ELSE client[f]
  BY ReplyEffect DEF Answer
<1>e. heard' \in [Listener -> [Job -> Final \cup {"none"}]]
  BY EmitEffect DEF Final
<1>1. TypeOK'
  BY <1>0, <1>c, <1>e DEF TypeOK
<1>2. \A k \in Job : Placed(k)'
  BY <1>0 DEF Placed, Before, Failing, HasAccepted
<1>3. \A k \in Job : Followed(k)'
  <2> SUFFICES ASSUME NEW k \in Job PROVE Followed(k)'
    OBVIOUS
  <2>1. CASE k = j
    BY <1>0, <1>c, <2>1 DEF Followed, Placed, TypeOK, Before, Failing
  <2>2. CASE k # j
    BY <1>0, <1>c, <2>2 DEF Followed, Placed, TypeOK
  <2> QED BY <2>1, <2>2
<1>4. DoneMeansInserted'
  BY <1>0 DEF DoneMeansInserted, Placed
<1> QED BY <1>1, <1>2, <1>3, <1>4

\* A call that raises once the rows are in is recorded.
LEMMA RaiseInv ==
  ASSUME Inv, NEW j \in Job, Raise(j) PROVE Inv'
<1> USE DEF Raise, Inv, db, page, sockets, history
<1>0. at' \in [Job -> Place] /\ at'[j] = "catch" /\ \A k \in Job \ {j} : at'[k] = at[k]
  BY GotoEffect DEF Place
<1>1. TypeOK'
  BY <1>0 DEF TypeOK
<1>2. \A k \in Job : Placed(k)'
  BY <1>0 DEF Placed, Before, Failing, HasAccepted
<1>3. \A k \in Job : Followed(k)'
  BY <1>0 DEF Followed
<1>4. DoneMeansInserted'
  BY <1>0 DEF DoneMeansInserted
<1> QED BY <1>1, <1>2, <1>3, <1>4

\* Even the catch clause raises: the job stays as it is.
LEMMA CatchRaisesInv ==
  ASSUME Inv, NEW j \in Job, CatchRaises(j) PROVE Inv'
<1> USE DEF CatchRaises, Inv, db, page, sockets, history
<1>0. at' \in [Job -> Place] /\ at'[j] = "idle" /\ \A k \in Job \ {j} : at'[k] = at[k]
  BY GotoEffect DEF Place
<1>c. /\ client' \in [File -> Answer]
      /\ \A f \in File : client'[f] = IF sent[f] = j /\ client[f] = "waiting" THEN "error" ELSE client[f]
  BY ReplyEffect DEF Answer
<1>1. TypeOK'
  BY <1>0, <1>c DEF TypeOK
<1>2. \A k \in Job : Placed(k)'
  BY <1>0 DEF Placed, Before, Failing, HasAccepted
<1>3. \A k \in Job : Followed(k)'
  <2> SUFFICES ASSUME NEW k \in Job PROVE Followed(k)'
    OBVIOUS
  <2>1. CASE k = j
    BY <1>0, <1>c, <2>1 DEF Followed, Placed, TypeOK, Before, Failing
  <2>2. CASE k # j
    BY <1>0, <1>c, <2>2 DEF Followed, Placed, TypeOK
  <2> QED BY <2>1, <2>2
<1>4. DoneMeansInserted'
  BY <1>0 DEF DoneMeansInserted, Placed
<1> QED BY <1>1, <1>2, <1>3, <1>4

\* A crash stops every handler; the pages that waited do not know.
LEMMA CrashInv ==
  ASSUME Inv, Crash PROVE Inv'
<1> USE DEF Crash, Inv, db
<1>1. TypeOK'
  BY DEF TypeOK, Place, Answer, Running
<1>2. \A k \in Job : Placed(k)'
  BY DEF Placed, Before, Failing, HasAccepted
<1>3. \A k \in Job : Followed(k)'
  BY DEF Followed, TypeOK
<1>4. DoneMeansInserted'
  BY DEF DoneMeansInserted, Placed, Running, Final
<1> QED BY <1>1, <1>2, <1>3, <1>4

\* The page gives up and does not know.
LEMMA TimeoutInv ==
  ASSUME Inv, NEW f \in File, Timeout(f) PROVE Inv'
<1> USE DEF Timeout, Inv, db, sockets, history
<1>1. TypeOK'
  BY DEF TypeOK, Answer
<1>2. \A k \in Job : Placed(k)'
  BY DEF Placed, HasAccepted
<1>3. \A k \in Job : Followed(k)'
  BY DEF Followed, TypeOK
<1>4. DoneMeansInserted'
  BY DEF DoneMeansInserted
<1> QED BY <1>1, <1>2, <1>3, <1>4

\* Sockets that come and go concern no job and no page.
LEMMA SocketInv ==
  ASSUME Inv, NEW l \in Listener, Connect(l) \/ Disconnect(l) PROVE Inv'
<1> USE DEF Connect, Disconnect, Inv, db, page, history
<1>1. TypeOK'
  BY DEF TypeOK
<1>2. \A k \in Job : Placed(k)'
  BY DEF Placed, HasAccepted
<1>3. \A k \in Job : Followed(k)'
  BY DEF Followed
<1>4. DoneMeansInserted'
  BY DEF DoneMeansInserted
<1> QED BY <1>1, <1>2, <1>3, <1>4

(***************************************************************************)
(* The theorems.                                                           *)
(***************************************************************************)

\* A handler that goes on preserves the invariant.
LEMMA ProceedInv ==
  ASSUME Inv, NEW j \in Job, Proceed(j) PROVE Inv'
<1>1. CASE \/ SafeCreateAuditLog(j, "audit start", "begin")
           \/ SafeCreateAuditLog(j, "audit done", "announce")
           \/ SafeCreateAuditLog(j, "audit failure", "announce failure")
  BY <1>1, SafeCreateAuditLogInv
<1>2. CASE BeginProcessing(j)
  BY <1>2, BeginProcessingInv
<1>3. CASE ReadRows(j)
  BY <1>3, ReadRowsInv
<1>4. CASE InsertTransactions(j)
  BY <1>4, InsertTransactionsInv
<1>5. CASE Complete(j)
  BY <1>5, CompleteInv
<1>6. CASE Announce(j)
  BY <1>6, AnnounceInv
<1>7. CASE Catch(j)
  BY <1>7, CatchInv
<1>8. CASE AnnounceFailure(j)
  BY <1>8, AnnounceFailureInv
<1> QED BY <1>1, <1>2, <1>3, <1>4, <1>5, <1>6, <1>7, <1>8 DEF Proceed

\* So does every step of the system.
LEMMA StepInv == Inv /\ [Next]_vars => Inv'
<1> SUFFICES ASSUME Inv, [Next]_vars PROVE Inv'
  OBVIOUS
<1>1. CASE \E f \in File : Timeout(f)
  BY <1>1, TimeoutInv
<1>2. CASE \E f \in File : \E j \in Job : Upload(f, j)
  BY <1>2, UploadInv
<1>3. CASE \E j \in Job : Proceed(j)
  BY <1>3, ProceedInv
<1>4. CASE \E j \in Job : Raise(j)
  BY <1>4, RaiseInv
<1>5. CASE \E j \in Job : CatchRaises(j)
  BY <1>5, CatchRaisesInv
<1>6. CASE \E l \in Listener : Connect(l) \/ Disconnect(l)
  BY <1>6, SocketInv
<1>7. CASE Crash
  BY <1>7, CrashInv
<1>8. CASE UNCHANGED vars
  BY <1>8 DEF vars, Inv, TypeOK, Placed, Followed, DoneMeansInserted, HasAccepted
<1> QED BY <1>1, <1>2, <1>3, <1>4, <1>5, <1>6, <1>7, <1>8 DEF Next

\* There is no job at the start.
LEMMA InitInv == Init => Inv
BY FileAssumption DEF Init, Inv, TypeOK, Status, Place, Answer, Final, Placed, Followed, DoneMeansInserted,
   Before, Failing

\* What the page may still be told about a job agrees with what the job has done.
THEOREM ImportInvariance == Spec => []Inv
BY InitInv, StepInv, PTL DEF Spec

\* Jobs, handlers, pages and sockets keep their types.
THEOREM ImportTypes == Spec => []TypeOK
<1>1. Inv => TypeOK
  BY DEF Inv
<1> QED BY <1>1, ImportInvariance, PTL

\* A job says DONE exactly when its rows are in, up to the handler that is about to say
\* so, was stopped there, or could not record it (imports.service.ts, processImport).
THEOREM DoneIsInserted == Spec => []DoneMeansInserted
<1>1. Inv => DoneMeansInserted
  BY DEF Inv
<1> QED BY <1>1, ImportInvariance, PTL

\* The rows of a file enter the ledger once, unless it was sent again blindly or after a
\* DONE, or an attempt could not record that its rows are in: two jobs with rows of the same file
\* would both have to be the last one that the page sent.
THEOREM RowsEnterOnce == Spec => []ImportedOnce
<1>1. Inv => ImportedOnce
  BY DEF Inv, TypeOK, Followed, ImportedOnce
<1> QED BY <1>1, ImportInvariance, PTL

==============================================================================
