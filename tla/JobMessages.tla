---------------------------- MODULE JobMessages ----------------------------
(***************************************************************************)
(* The status message of one job.  Stages send messages as tasks           *)
(* (messages/message.py), which any worker executes                        *)
(* (tasks.context_message); the view that submits the job writes "job      *)
(* started" itself (smartconnectorscheduler/views.py).  The table holds    *)
(* whatever rows these make; the list of jobs shows every row.             *)
(***************************************************************************)
EXTENDS Naturals, FiniteSets

CONSTANTS
  Workers,      \* workers that execute message tasks
  MaxMessages,  \* bound: messages sent by the stages
  NoMessage     \* a row without text, a worker without message

JobMessagesAssumption ==
  IsFiniteSet(Workers) /\ MaxMessages \in Nat /\ NoMessage \notin Nat

VARIABLES
  sent,    \* number of messages sent; the message is its number
  queued,  \* tasks that wait for a worker
  jobRows, \* rows of the job: message by row number, NoMessage if no row
  worker,  \* what each worker does
  view     \* what the view that submitted the job does

messageVars == <<sent, queued, jobRows, worker, view>>

Started == 0  \* "info, job started"
Messages == 0 .. MaxMessages
RowIds == 1 .. MaxMessages + 1
Free == {i \in RowIds : jobRows[i] = NoMessage}
Stored == RowIds \ Free
NewRow == CHOOSE i \in Free : TRUE
Locked == {worker[w].row : w \in {v \in Workers : worker[v].at = "update"}}

MessagesTypeOK ==
  /\ sent \in Messages
  /\ queued \subseteq 1 .. MaxMessages
  /\ jobRows \in [RowIds -> Messages \cup {NoMessage}]
  /\ worker \in [Workers ->
       [at : {"idle", "update", "insert"}, row : RowIds \cup {0},
        message : Messages \cup {NoMessage}]]
  /\ view \in [at : {"submitted", "insert", "save", "done", "failed"},
               row : RowIds \cup {0}]

MessagesInit ==
  /\ sent = 0
  /\ queued = {}
  /\ jobRows = [i \in RowIds |-> NoMessage]
  /\ worker = [w \in Workers |->
                 [at |-> "idle", row |-> 0, message |-> NoMessage]]
  /\ view \in [at : {"submitted", "done"}, row : {0}]

-----------------------------------------------------------------------------
\* addMessage: with the number of the context in the settings, a task.
AddMessage ==
  /\ sent < MaxMessages
  /\ sent' = sent + 1
  /\ queued' = queued \cup {sent + 1}
  /\ UNCHANGED <<jobRows, worker, view>>

\* context_message: the rows are selected for update, which locks the rows
\* that there are and waits for others to unlock them.  One of them is taken.
SelectRow(w, m, i) ==
  /\ worker[w].at = "idle" /\ m \in queued
  /\ i \in Stored
  /\ Stored \cap Locked = {}
  /\ worker' = [worker EXCEPT ![w] = [at |-> "update", row |-> i,
                                      message |-> m]]
  /\ queued' = queued \ {m}
  /\ UNCHANGED <<sent, jobRows, view>>

\* A bug: a message never looks for the row of its job.
InsertAlways(w, m) ==
  /\ worker[w].at = "idle" /\ m \in queued
  /\ worker' = [worker EXCEPT ![w] = [at |-> "insert", row |-> 0,
                                      message |-> m]]
  /\ queued' = queued \ {m}
  /\ UNCHANGED <<sent, jobRows, view>>

\* There is no row: nothing is locked.
SelectNothing(w, m) ==
  /\ worker[w].at = "idle" /\ m \in queued
  /\ Stored = {}
  /\ worker' = [worker EXCEPT ![w] = [at |-> "insert", row |-> 0,
                                      message |-> m]]
  /\ queued' = queued \ {m}
  /\ UNCHANGED <<sent, jobRows, view>>

IdleWorker(w) ==
  [worker EXCEPT ![w] = [at |-> "idle", row |-> 0, message |-> NoMessage]]

\* message.save and the commit.  A context is never really deleted, only
\* flagged, so that it is always found.
SaveMessage(w) ==
  /\ worker[w].at \in {"update", "insert"}
  /\ worker[w].at = "insert" => Free # {}
  /\ LET i == IF worker[w].at = "update" THEN worker[w].row ELSE NewRow
     IN  jobRows' = [jobRows EXCEPT ![i] = worker[w].message]
  /\ worker' = IdleWorker(w)
  /\ UNCHANGED <<sent, queued, view>>

\* The worker is killed or the time limit strikes: the task is not repeated.
LoseMessage(w) ==
  /\ worker[w].at # "idle"
  /\ worker' = IdleWorker(w)
  /\ UNCHANGED <<sent, queued, jobRows, view>>

\* post_list: get_or_create.  Two rows are an error for get.
ViewGetsRow ==
  /\ view.at = "submitted"
  /\ \/ /\ Stored = {}
        /\ view' = [view EXCEPT !.at = "insert"]
     \/ /\ Cardinality(Stored) = 1
        /\ view' = [at |-> "save", row |-> CHOOSE i \in Stored : TRUE]
     \/ /\ Cardinality(Stored) > 1
        /\ view' = [view EXCEPT !.at = "failed"]
  /\ UNCHANGED <<sent, queued, jobRows, worker>>

\* get_or_create inserts and the view saves its text.
ViewInserts ==
  /\ view.at = "insert" /\ Free # {}
  /\ jobRows' = [jobRows EXCEPT ![NewRow] = Started]
  /\ view' = [at |-> "done", row |-> NewRow]
  /\ UNCHANGED <<sent, queued, worker>>

\* The save of a row that was found waits for its lock; the row may have a
\* later message by then.
ViewSaves ==
  /\ view.at = "save" /\ view.row \notin Locked
  /\ jobRows' = [jobRows EXCEPT ![view.row] = Started]
  /\ view' = [view EXCEPT !.at = "done"]
  /\ UNCHANGED <<sent, queued, worker>>

MessagesNext ==
  \/ AddMessage
  \/ \E w \in Workers :
       \/ \E m \in queued : SelectNothing(w, m)
                            \/ \E i \in Stored : SelectRow(w, m, i)
       \/ SaveMessage(w) \/ LoseMessage(w)
  \/ ViewGetsRow \/ ViewInserts \/ ViewSaves

MessagesSpec == MessagesInit /\ [][MessagesNext]_messageVars

-----------------------------------------------------------------------------
(***************************************************************************)
(* A job has more than one row, and so appears more than once in the list  *)
(* of jobs, only if several writers found the table empty at once: there   *)
(* are never more rows than workers and the view (tasks.py:105-136,        *)
(* views.py:396-404).                                                      *)
(***************************************************************************)
RowsAtMostWriters ==
  Cardinality(Stored) <=
    Cardinality(Workers) + (IF view.at = "done" THEN 1 ELSE 0)

=============================================================================
