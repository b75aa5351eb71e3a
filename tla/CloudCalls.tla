----------------------------- MODULE CloudCalls -----------------------------
(***************************************************************************)
(* The calls of the cloud connection (cloudconnection/) that stay in a     *)
(* loop while the cloud goes on: reserving machines and waiting until they *)
(* run and answer to ssh, terminating machines and waiting until they are  *)
(* gone.  CloudNodes takes each of them as one step; here every look at a  *)
(* machine (an update() of its state) is a step, and machines change in    *)
(* between.                                                                *)
(***************************************************************************)
EXTENDS Integers, Sequences, FiniteSets, SequencesExt

CONSTANTS
  Machines,    \* the machines that the quota allows for
  MinCount,    \* min_count of a reservation
  MaxRetries   \* passes of the first loop until it meets its timeout

CloudCallsAssumption ==
  /\ IsFiniteSet(Machines)
  /\ MinCount \in Nat \ {0}
  /\ MaxRetries \in Nat

VARIABLES
  call,      \* what is being done
  cloud,     \* state of each machine; of one in "unknown" there is no answer
  returned,  \* machines that were not found for a while, and then again
  listed,    \* all_vms: the list of a loop
  turn,      \* start: the rest of the copy that a pass goes through
  seen,      \* vm.state of the machine at the head, after the first look
  place,     \* terminate: index of the iterator in the list itself
  retries,   \* passes of the start loop so far, up to MaxRetries + 1
  running,   \* all_running_vms
  ready,     \* ssh_ready_vms
  accepted   \* machines whose termination the cloud accepted

loopVars == <<listed, turn, seen, place, retries>>
cloudVars == <<cloud, returned>>
vars == <<call, cloudVars, loopVars, running, ready, accepted>>

States == {"none", "pending", "running", "error", "unknown", "terminated"}

TypeOK ==
  /\ call \in {"idle", "starting", "connecting", "created", "requesting",
               "terminating", "over", "failed"}
  /\ cloud \in [Machines -> States] /\ seen \in States
  /\ returned \subseteq Machines
  /\ \A s \in {listed, turn} : ToSet(s) \subseteq Machines /\ IsInjective(s)
  /\ place \in 1 .. Cardinality(Machines) + 1
  /\ retries \in 0 .. MaxRetries + 1
  /\ ready \subseteq running /\ running \subseteq Machines
  /\ accepted \subseteq ready

Init ==
  /\ call = "idle"
  /\ cloud = [v \in Machines |-> "none"]
  /\ returned = {}
  /\ listed = <<>> /\ turn = <<>> /\ seen = "none"
  /\ place = 1 /\ retries = 0
  /\ running = {} /\ ready = {} /\ accepted = {}

-----------------------------------------------------------------------------
(* create_vms: run_instances gives at least min_count machines; when the   *)
(* quota does not allow that the list is empty, other errors are raised.   *)
Reserve(order) ==
  /\ call = "idle"
  /\ IsInjective(order) /\ Len(order) >= MinCount
  /\ cloud' = [v \in Machines |->
                 IF v \in ToSet(order) THEN "pending" ELSE "none"]
  /\ listed' = order /\ turn' = order
  /\ call' = "starting"
  /\ UNCHANGED <<returned, seen, place, retries, running, ready, accepted>>

NoReservation ==
  /\ call = "idle"
  /\ call' \in {"over", "failed"}
  /\ UNCHANGED <<cloudVars, loopVars, running, ready, accepted>>

\* all_vms.remove(v), which raises an error if v is not in the list.
Without(v) == RemoveAt(listed, CHOOSE i \in DOMAIN listed : listed[i] = v)

\* Mutant: a machine that is not found is looked at again.
KeepMissing(v) == listed

DropMissing(v) == Without(v)

(* wait_for_vms_to_start_running, one machine of a pass, the first look:   *)
(* one that does not exist is taken off the list.  (It cannot be taken off *)
(* twice: a machine that was seen in error is no longer listed.)  At the   *)
(* timeout the pass is left after its first machine, the loop goes on.     *)
RestOfPass == IF retries = MaxRetries THEN <<>> ELSE Tail(turn)

LookIfExists ==
  /\ call = "starting" /\ turn # <<>> /\ seen = "none"
  /\ IF cloud[Head(turn)] = "unknown"
     THEN /\ listed' = DropMissing(Head(turn))
          /\ turn' = RestOfPass
          /\ UNCHANGED seen
     ELSE seen' = cloud[Head(turn)] /\ UNCHANGED <<listed, turn>>
  /\ UNCHANGED <<call, cloudVars, place, retries, running, ready, accepted>>

\* Mutant: a machine that is not running at the timeout is given up.
TakeOffAtTimeout(v, state) ==
  IF cloud[v] = "running" \/ state = "error" \/ retries = MaxRetries
  THEN Without(v) ELSE listed

TakeOff(v, state) ==
  IF cloud[v] = "running" \/ state = "error" THEN Without(v) ELSE listed

(* The second look: a machine that runs now is kept as running.  vm.state  *)
(* is that of the first look if the machine is not found this time.        *)
LookIfRunning ==
  /\ call = "starting" /\ turn # <<>> /\ seen # "none"
  /\ LET v == Head(turn)
         state == IF cloud[v] = "unknown" THEN seen ELSE cloud[v]
     IN  /\ listed' = TakeOff(v, state)
         /\ running' = running \cup (IF cloud[v] = "running" THEN {v} ELSE {})
  /\ turn' = RestOfPass
  /\ seen' = "none"
  /\ UNCHANGED <<call, cloudVars, place, retries, ready, accepted>>

NextPass ==
  /\ call = "starting" /\ turn = <<>>
  /\ IF listed # <<>>
     THEN /\ turn' = listed
          /\ retries' = IF retries > MaxRetries THEN retries ELSE retries + 1
          /\ UNCHANGED call
     ELSE call' = "connecting" /\ UNCHANGED <<turn, retries>>
  /\ UNCHANGED <<cloudVars, listed, seen, place, running, ready, accepted>>

(* _get_ssh_ready_vms: any of the running machines may not answer.         *)
Connect(answering) ==
  /\ call = "connecting"
  /\ ready' = answering
  /\ call' = "created"
  /\ UNCHANGED <<cloudVars, loopVars, running, accepted>>

(* destroy_vms, of the machines that were kept, because they are too few   *)
(* or at the end of the job; a request that fails is forgotten.            *)
Destroy ==
  /\ call = "created"
  /\ call' = "requesting"
  /\ UNCHANGED <<cloudVars, loopVars, running, ready, accepted>>

RequestTermination(set, order) ==
  /\ call = "requesting"
  /\ ToSet(order) = set /\ IsInjective(order)
  /\ accepted' = set
  /\ listed' = order
  /\ place' = 1
  /\ call' = "terminating"
  /\ UNCHANGED <<cloudVars, turn, seen, retries, running, ready>>

Gone(v) == cloud[v] \in {"terminated", "unknown"}

\* Mutant: the list is gone through once.
OnePass ==
  /\ call = "terminating" /\ place > Len(listed)
  /\ call' = "over"
  /\ UNCHANGED <<cloudVars, loopVars, running, ready, accepted>>

(* wait_for_vms_to_terminate: one machine.  The iterator moves on also     *)
(* when the machine is removed from the list, past the one that moves up.  *)
CheckTerminated ==
  /\ call = "terminating" /\ place <= Len(listed)
  /\ listed' = IF Gone(listed[place]) THEN RemoveAt(listed, place) ELSE listed
  /\ place' = place + 1
  /\ UNCHANGED <<call, cloudVars, turn, seen, retries, running, ready,
                 accepted>>

LoopAgain ==
  /\ call = "terminating" /\ place > Len(listed)
  /\ IF listed = <<>> THEN call' = "over" /\ UNCHANGED place
                      ELSE place' = 1 /\ UNCHANGED call
  /\ UNCHANGED <<cloudVars, listed, turn, seen, retries, running, ready,
                 accepted>>

(* An unexpected answer of the API is raised.                              *)
UpdateRaises ==
  /\ call = "terminating" /\ listed # <<>>
  /\ call' = "failed"
  /\ UNCHANGED <<cloudVars, loopVars, running, ready, accepted>>

-----------------------------------------------------------------------------
(* The cloud.  A machine may be found only some time after it has been    *)
(* reserved; of one that has come to run there is always an answer.        *)
Settles(v) ==
  /\ cloud[v] = "pending"
  /\ \E s \in {"running", "error", "unknown", "terminated"} :
       cloud' = [cloud EXCEPT ![v] = s]
  /\ UNCHANGED <<call, returned, loopVars, running, ready, accepted>>

Reappears(v) ==
  /\ cloud[v] = "unknown" /\ v \notin returned
  /\ cloud' = [cloud EXCEPT ![v] = "pending"]
  /\ returned' = returned \cup {v}
  /\ UNCHANGED <<call, loopVars, running, ready, accepted>>

Terminates(v) ==
  /\ cloud[v] = "running"
  /\ cloud' = [cloud EXCEPT ![v] = "terminated"]
  /\ UNCHANGED <<call, returned, loopVars, running, ready, accepted>>

Cloud(v) == Settles(v) \/ Reappears(v) \/ Terminates(v)

Code ==
  \/ \E n \in 1 .. Cardinality(Machines) :
       \E order \in [1 .. n -> Machines] : Reserve(order)
  \/ NoReservation
  \/ LookIfExists
  \/ LookIfRunning
  \/ NextPass
  \/ \E answering \in SUBSET running : Connect(answering)
  \/ Destroy
  \/ \E set \in SUBSET ready :
       \E order \in [1 .. Cardinality(set) -> Machines] :
         RequestTermination(set, order)
  \/ CheckTerminated
  \/ LoopAgain
  \/ UpdateRaises

Next == Code \/ \E v \in Machines : Cloud(v)

Spec == Init /\ [][Next]_vars

\* Machines settle, and terminate when the cloud has accepted that.
Fairness ==
  /\ WF_vars(Code)
  /\ \A v \in Machines : WF_vars(Settles(v))
                         /\ WF_vars(v \in accepted /\ Terminates(v))

-----------------------------------------------------------------------------
(***************************************************************************)
(* When the first loop is left, every reserved machine that came to run is *)
(* among the running ones, whatever happened between the looks at it, the  *)
(* timeout included: the machines left out are in error, are not there, or *)
(* were not there for a while (such a machine is given up at once).        *)
(***************************************************************************)
NoRunningVmForgotten ==
  call \notin {"idle", "starting"} =>
    \A v \in Machines \ running :
      cloud[v] \in {"none", "error", "unknown"} \/ v \in returned

(***************************************************************************)
(* The second loop removes machines from the list that it goes through,    *)
(* and so skips some; still it returns only when all of them are gone.     *)
(***************************************************************************)
DestroyWaits == call = "over" => \A v \in accepted : Gone(v)

(***************************************************************************)
(* The calls return, unless the cloud terminates a machine before the      *)
(* first loop has seen it running: that loop waits for it for ever ("add   *)
(* final timeout for when VMs fail to initialise properly").               *)
(***************************************************************************)
WaitsForTerminated ==
  call = "starting" /\ \E v \in ToSet(listed) : cloud[v] = "terminated"

CallsReturn == <>(call \in {"over", "failed"} \/ WaitsForTerminated)

=============================================================================
