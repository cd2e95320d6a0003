------------------------------- MODULE ImportJob -------------------------------
(***************************************************************************)
(* The import of an Excel file: ImportsService.processImport               *)
(* (apps/api/src/modules/imports), the web page that sends the file and    *)
(* the events of the gateway.                                              *)
(*                                                                         *)
(* One request creates one job, so at[j] is where the handler that created *)
(* job j stands.  Each of its database calls is one step.  A call may      *)
(* raise (Raise, CatchRaises), the process may stop (Crash), the client    *)
(* gives up after 30 seconds (Timeout) while the handler goes on, and a    *)
(* user may send a file again whatever the last answer was (Upload): only  *)
(* the button of the page waits for an answer, and the service does not    *)
(* look for an earlier job.  A call that raises has written nothing.       *)
(*                                                                         *)
(* Refused uploads (type, size, period) write nothing and are left out.    *)
(* The rows of a file are modelled by whether there are any and whether    *)
(* one is accepted; the decision on a row is left out.                     *)
(*                                                                         *)
(* A definition named Bad... is the one that follows it with a plausible   *)
(* mistake.                                                                *)
(***************************************************************************)
EXTENDS FiniteSets

CONSTANTS
  File,     \* files a user of the organisation sends
  Empty,    \* those without rows
  Rejected, \* those with rows, none of which is accepted
  Job,      \* identifiers of import_jobs (never reused)
  Listener, \* sockets of the organisation
  NoFile, NoJob

ASSUME FileAssumption ==
  /\ Empty \subseteq File /\ Rejected \subseteq File /\ Empty \cap Rejected = {}
  /\ NoFile \notin File /\ NoJob \notin Job

VARIABLES
  status,    \* import_jobs.status, "unused" before the INSERT
  file,      \* the file the job imports
  inserted,  \* jobs whose transactions are in the database
  at,        \* where the handler of the job stands
  client,    \* what the page knows about its last upload of the file
  sent,      \* the job of that upload
  connected, \* sockets in the room of the organisation
  heard,     \* the status of the IMPORT_DONE event each socket received
  blind,     \* history: files sent again although nobody knew what had happened
  repeated,  \* history: files sent again although the answer was DONE
  unrecorded,\* history: jobs whose rows are in, but not their completion
  abandoned  \* history: jobs whose handler stopped before a final status

db      == <<status, file, inserted>>
page    == <<client, sent, blind, repeated>>
sockets == <<connected, heard>>
history == <<unrecorded, abandoned>>
vars    == <<status, file, inserted, at, client, sent, connected, heard, blind, repeated, unrecorded, abandoned>>

Status == {"PENDING", "PROCESSING", "DONE", "FAILED"}
Final  == {"DONE", "FAILED"}
Place  == {"idle", "audit start", "begin", "parse", "insert", "complete", "audit done", "announce",
           "catch", "audit failure", "announce failure"}
Answer == {"none", "waiting", "done", "failed", "error", "unknown"}

TypeOK ==
  /\ status     \in [Job -> Status \cup {"unused"}]
  /\ file       \in [Job -> File \cup {NoFile}]
  /\ inserted   \subseteq Job
  /\ at         \in [Job -> Place]
  /\ client     \in [File -> Answer]
  /\ sent       \in [File -> Job \cup {NoJob}]
  /\ connected  \subseteq Listener
  /\ heard      \in [Listener -> [Job -> Final \cup {"none"}]]
  /\ blind      \subseteq File
  /\ repeated   \subseteq File
  /\ unrecorded \subseteq Job
  /\ abandoned  \subseteq Job

Init ==
  /\ status     = [j \in Job |-> "unused"]
  /\ file       = [j \in Job |-> NoFile]
  /\ inserted   = {}
  /\ at         = [j \in Job |-> "idle"]
  /\ client     = [f \in File |-> "none"]
  /\ sent       = [f \in File |-> NoJob]
  /\ connected  = {}
  /\ heard      = [l \in Listener |-> [j \in Job |-> "none"]]
  /\ blind      = {}
  /\ repeated   = {}
  /\ unrecorded = {}
  /\ abandoned  = {}

Running == {j \in Job : at[j] # "idle"}

\* The rows of the file that are accepted: some, or none.
HasRows(f)     == f \notin Empty
HasAccepted(f) == f \notin Empty \cup Rejected

Goto(j, place) == at' = [at EXCEPT ![j] = place]

\* The page shows the answer to its last upload of the file, unless it gave up on it.
Reply(j, answer) ==
  client' = [f \in File |->
    IF sent[f] = j /\ client[f] = "waiting" THEN answer ELSE client[f]]

------------------------------------------------------------------------------
(* The handler.                                                             *)

\* The button of the page is disabled only while it waits; every upload creates a job.
Upload(f, j) ==
  /\ client[f] # "waiting"
  /\ status[j] = "unused"
  /\ status'   = [status EXCEPT ![j] = "PENDING"]
  /\ file'     = [file EXCEPT ![j] = f]
  /\ client'   = [client EXCEPT ![f] = "waiting"]
  /\ sent'     = [sent EXCEPT ![f] = j]
  /\ blind'    = IF client[f] = "unknown" THEN blind \cup {f} ELSE blind
  /\ repeated' = IF client[f] = "done" THEN repeated \cup {f} ELSE repeated
  /\ Goto(j, "audit start")
  /\ UNCHANGED <<inserted, sockets, history>>

\* The audit service's error reaches the catch clause.
BadSafeCreateAuditLog(j, place, next) ==
  /\ at[j] = place
  /\ Goto(j, next) \/ (place = "audit done" /\ Goto(j, "catch"))
  /\ UNCHANGED <<db, page, sockets, history>>

\* safeCreateAuditLog swallows what the audit service raises.
SafeCreateAuditLog(j, place, next) ==
  /\ at[j] = place
  /\ Goto(j, next)
  /\ UNCHANGED <<db, page, sockets, history>>

\* The status write and the event IMPORT_PROGRESS.
BeginProcessing(j) ==
  /\ at[j] = "begin"
  /\ status' = [status EXCEPT ![j] = "PROCESSING"]
  /\ Goto(j, "parse")
  /\ UNCHANGED <<file, inserted, page, sockets, history>>

\* Without rows the handler raises IMPORT_WORKBOOK_EMPTY itself; with none
\* accepted there is nothing to insert.
ReadRows(j) ==
  /\ at[j] = "parse"
  /\ Goto(j, CASE ~HasRows(file[j])    -> "catch"
               [] HasAccepted(file[j]) -> "insert"
               [] OTHER                -> "complete")
  /\ UNCHANGED <<db, page, sockets, history>>

InsertTransactions(j) ==
  /\ at[j] = "insert"
  /\ inserted' = inserted \cup {j}
  /\ Goto(j, "complete")
  /\ UNCHANGED <<status, file, page, sockets, history>>

BadFinalStatus(j) == "DONE"
FinalStatus(j)    == IF HasAccepted(file[j]) THEN "DONE" ELSE "FAILED"

Complete(j) ==
  /\ at[j] = "complete"
  /\ status' = [status EXCEPT ![j] = FinalStatus(j)]
  /\ Goto(j, "audit done")
  /\ UNCHANGED <<file, inserted, page, sockets, history>>

BadCatch(j) ==
  /\ at[j] = "catch"
  /\ Goto(j, "audit failure")
  /\ UNCHANGED <<db, page, sockets, history>>

\* The catch clause: the job is FAILED, whatever has been inserted.
Catch(j) ==
  /\ at[j] = "catch"
  /\ status' = [status EXCEPT ![j] = "FAILED"]
  /\ Goto(j, "audit failure")
  /\ UNCHANGED <<file, inserted, page, sockets, history>>

\* The event IMPORT_DONE reaches the sockets that are in the room now.
Emit(j, result) ==
  heard' = [l \in Listener |-> IF l \in connected THEN [heard[l] EXCEPT ![j] = result] ELSE heard[l]]

\* The event is emitted and the request answered in one go.
Announce(j) ==
  /\ at[j] = "announce"
  /\ Emit(j, FinalStatus(j))
  /\ Reply(j, IF FinalStatus(j) = "DONE" THEN "done" ELSE "failed")
  /\ Goto(j, "idle")
  /\ UNCHANGED <<db, sent, blind, repeated, connected, history>>

BadAnnounceFailure(j) ==
  /\ at[j] = "announce failure"
  /\ Emit(j, "FAILED")
  /\ Goto(j, "idle")
  /\ UNCHANGED <<db, page, connected, history>>

AnnounceFailure(j) ==
  /\ at[j] = "announce failure"
  /\ Emit(j, "FAILED")
  /\ Reply(j, "error")
  /\ Goto(j, "idle")
  /\ UNCHANGED <<db, sent, blind, repeated, connected, history>>

Proceed(j) ==
  \/ SafeCreateAuditLog(j, "audit start", "begin")
  \/ BeginProcessing(j) \/ ReadRows(j) \/ InsertTransactions(j) \/ Complete(j)
  \/ SafeCreateAuditLog(j, "audit done", "announce") \/ Announce(j)
  \/ Catch(j) \/ SafeCreateAuditLog(j, "audit failure", "announce failure") \/ AnnounceFailure(j)

------------------------------------------------------------------------------
(* Faults.                                                                  *)

\* A call inside the try clause raises.
Raise(j) ==
  /\ at[j] \in {"begin", "parse", "insert", "complete"}
  /\ unrecorded' = IF j \in inserted THEN unrecorded \cup {j} ELSE unrecorded
  /\ Goto(j, "catch")
  /\ UNCHANGED <<db, page, sockets, abandoned>>

\* So does the status write of the catch clause: nothing else will complete the job.
CatchRaises(j) ==
  /\ at[j] = "catch"
  /\ abandoned' = abandoned \cup {j}
  /\ Reply(j, "error")
  /\ Goto(j, "idle")
  /\ UNCHANGED <<db, sent, blind, repeated, sockets, unrecorded>>

\* The process stops with every handler in it; the pages lose their connection.
Crash ==
  /\ Running # {}
  /\ at'         = [j \in Job |-> "idle"]
  /\ abandoned'  = abandoned \cup {j \in Running : status[j] \notin Final}
  /\ client'     = [f \in File |-> IF client[f] = "waiting" THEN "unknown" ELSE client[f]]
  /\ connected'  = {}
  /\ UNCHANGED <<db, sent, heard, blind, repeated, unrecorded>>

\* The client gives up after 30 seconds, or the user closes the dialog.
Timeout(f) ==
  /\ client[f] = "waiting"
  /\ client' = [client EXCEPT ![f] = "unknown"]
  /\ UNCHANGED <<db, at, sent, sockets, blind, repeated, history>>

\* handleConnection joins the room of the organisation; sockets come and go.
Connect(l) ==
  /\ l \notin connected
  /\ connected' = connected \cup {l}
  /\ UNCHANGED <<db, at, page, heard, history>>

Disconnect(l) ==
  /\ l \in connected
  /\ connected' = connected \ {l}
  /\ UNCHANGED <<db, at, page, heard, history>>

------------------------------------------------------------------------------
Next ==
  \/ \E f \in File : Timeout(f) \/ \E j \in Job : Upload(f, j)
  \/ \E j \in Job : Proceed(j) \/ Raise(j) \/ CatchRaises(j)
  \/ \E l \in Listener : Connect(l) \/ Disconnect(l)
  \/ Crash

Spec == Init /\ [][Next]_vars

\* A handler whose process lives goes on: its pending call returns or raises.
Fairness == \A j \in Job : WF_vars(Proceed(j))

FairSpec == Spec /\ Fairness

------------------------------------------------------------------------------
\* A job says DONE exactly when its rows are in; one that is not DONE has rows only
\* if its handler is about to say so, was stopped there, or could not record it.
DoneMeansInserted ==
  \A j \in Job :
    /\ status[j] = "DONE" => j \in inserted
    /\ j \in inserted /\ status[j] # "DONE" => at[j] = "complete" \/ j \in unrecorded \cup abandoned

\* A file whose import was reported as failed, by FAILED or by an error, can be sent
\* again without harm: its rows enter the ledger once, unless it was sent again after a
\* DONE, or blindly (after a timeout or a lost connection), or an attempt put its rows
\* in and could not record it.
ImportedOnce ==
  \A f \in File : \A j, k \in inserted :
    file[j] = f /\ file[k] = f /\ j # k => f \in blind \cup repeated \/ {j, k} \cap unrecorded # {}

\* Every job ends DONE or FAILED, unless its process stopped or even the catch
\* clause could not write.
JobEnds ==
  \A j \in Job : status[j] \in {"PENDING", "PROCESSING"} ~> status[j] \in Final \/ j \in abandoned

\* Every page gets an answer, or knows that it has none.
PageAnswered == \A f \in File : client[f] = "waiting" ~> client[f] # "waiting"
==============================================================================
