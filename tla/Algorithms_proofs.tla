------------------------- MODULE Algorithms_proofs -------------------------
(***************************************************************************)
(* Proofs about the algorithms, for any values of their constants: the     *)
(* cloud connection's loops, the round robin assignment, the drawing of    *)
(* random numbers, the way of an input, the iterations of HRMC.            *)
(***************************************************************************)
EXTENDS Algorithms, SequenceTheorems, FiniteSetTheorems,
        WellFoundedInduction, TLAPS

(***************************************************************************)
(* The sequence without its i-th element.                                  *)
(***************************************************************************)
LEMMA RemoveAtProperties ==
  ASSUME NEW S, NEW s \in Seq(S), NEW i \in 1 .. Len(s)
  PROVE  /\ RemoveAt(s, i) \in Seq(S)
         /\ Len(RemoveAt(s, i)) = Len(s) - 1
         /\ \A j \in 1 .. Len(s) - 1 :
              RemoveAt(s, i)[j] = IF j < i THEN s[j] ELSE s[j + 1]
<1> DEFINE front == SubSeq(s, 1, i - 1)
           back == SubSeq(s, i + 1, Len(s))
<1>1. Len(s) \in Nat /\ \A j \in 1 .. Len(s) : s[j] \in S
  BY LenProperties, ElementOfSeq
<1>2. /\ front \in Seq(S) /\ Len(front) = i - 1
      /\ \A j \in 1 .. i - 1 : front[j] = s[j]
  <2>1. 1 \in Int /\ i - 1 \in Int /\ \A j \in 1 .. i - 1 : s[j] \in S
    BY <1>1
  <2>2. front \in Seq(S)
    BY <2>1, SubSeqProperties
  <2>3. Len(front) = IF 1 <= i - 1 THEN i - 1 - 1 + 1 ELSE 0
    BY <2>1, SubSeqProperties
  <2>4. \A j \in 1 .. i - 1 - 1 + 1 : front[j] = s[1 + j - 1]
    BY <2>1, SubSeqProperties
  <2> HIDE DEF front
  <2>5. Len(front) = i - 1
    <3>1. i \in Nat \ {0}
      BY <1>1
    <3> QED BY <2>3, <3>1
  <2>6. ASSUME NEW j \in 1 .. i - 1 PROVE front[j] = s[j]
    <3>1. j \in 1 .. i - 1 - 1 + 1 /\ 1 + j - 1 = j
      BY <1>1
    <3> QED BY <2>4, <3>1
  <2>7. QED
    BY <2>2, <2>5, <2>6
<1>3. /\ back \in Seq(S) /\ Len(back) = Len(s) - i
      /\ \A j \in 1 .. Len(s) - i : back[j] = s[i + j]
  <2>1. /\ i + 1 \in Int /\ Len(s) \in Int
        /\ \A j \in i + 1 .. Len(s) : s[j] \in S
    BY <1>1
  <2>2. back \in Seq(S)
    BY <2>1, SubSeqProperties
  <2>3. Len(back) = IF i + 1 <= Len(s) THEN Len(s) - (i + 1) + 1 ELSE 0
    BY <2>1, SubSeqProperties
  <2>4. \A j \in 1 .. Len(s) - (i + 1) + 1 : back[j] = s[i + 1 + j - 1]
    BY <2>1, SubSeqProperties
  <2> HIDE DEF back
  <2>5. Len(back) = Len(s) - i
    <3>1. Len(s) \in Nat /\ i \in Nat /\ i <= Len(s)
      BY <1>1
    <3> QED BY <2>3, <3>1
  <2>6. ASSUME NEW j \in 1 .. Len(s) - i PROVE back[j] = s[i + j]
    <3>1. j \in 1 .. Len(s) - (i + 1) + 1 /\ i + 1 + j - 1 = i + j
      BY <1>1
    <3> QED BY <2>4, <3>1
  <2>7. QED
    BY <2>2, <2>5, <2>6
<1>4. RemoveAt(s, i) = front \o back
  BY DEF RemoveAt
<1> HIDE DEF front, back
<1>5. /\ front \o back \in Seq(S)
      /\ Len(front \o back) = Len(front) + Len(back)
      /\ \A j \in 1 .. Len(front) + Len(back) :
           (front \o back)[j] =
             IF j <= Len(front) THEN front[j] ELSE back[j - Len(front)]
  BY <1>2, <1>3, ConcatProperties
<1>6. QED
  BY <1>1, <1>2, <1>3, <1>4, <1>5

\* What RemoveAt leaves: every other element, and no duplicates.
LEMMA RemovedSet ==
  ASSUME NEW S, NEW s \in Seq(S), NEW i \in 1 .. Len(s)
  PROVE  /\ \A x \in ToSet(s) : x # s[i] => x \in ToSet(RemoveAt(s, i))
         /\ IsInjective(s) => IsInjective(RemoveAt(s, i))
<1> DEFINE t == RemoveAt(s, i)
<1>1. /\ t \in Seq(S) /\ Len(t) = Len(s) - 1
      /\ \A j \in 1 .. Len(s) - 1 : t[j] = IF j < i THEN s[j] ELSE s[j + 1]
  BY RemoveAtProperties
<1>2. Len(s) \in Nat /\ DOMAIN s = 1 .. Len(s)
  BY LenProperties
<1>3. DOMAIN t = 1 .. Len(s) - 1
  BY <1>1, LenProperties
<1> HIDE DEF t
<1>4. ASSUME NEW x \in ToSet(s), x # s[i]
      PROVE  x \in ToSet(t)
  <2>1. PICK k \in 1 .. Len(s) : x = s[k]
    BY <1>2 DEF ToSet
  <2>2. CASE k < i
    BY <1>1, <1>2, <1>3, <2>1, <2>2 DEF ToSet
  <2>3. CASE k > i
    <3>1. k - 1 \in 1 .. Len(s) - 1 /\ ~(k - 1 < i) /\ (k - 1) + 1 = k
      BY <1>2, <2>3
    <3>2. t[k - 1] = x
      BY <1>1, <2>1, <3>1
    <3>3. QED
      BY <1>3, <3>1, <3>2 DEF ToSet
  <2>4. QED
    BY <1>2, <1>4, <2>1, <2>2, <2>3
<1>5. ASSUME IsInjective(s) PROVE IsInjective(t)
  BY <1>1, <1>2, <1>3, <1>5 DEF IsInjective
<1>6. QED
  BY <1>4, <1>5 DEF t

-----------------------------------------------------------------------------
(***************************************************************************)
(* The lists of the loops.                                                 *)
(***************************************************************************)
ListsTyped ==
  /\ cloud \in [Machines -> States] /\ seen \in States
  /\ returned \subseteq Machines
  /\ listed \in Seq(Machines) /\ turn \in Seq(Machines)
  /\ place \in Nat \ {0}
  /\ running \subseteq Machines /\ ready \subseteq running
  /\ accepted \subseteq ready

\* In a pass of the first loop no machine comes twice, and those to come are
\* still in the list: it can remove the one it looks at.
PassIsListed ==
  call = "starting" =>
    /\ IsInjective(listed) /\ IsInjective(turn)
    /\ ToSet(turn) \subseteq ToSet(listed)

\* A machine that runs is listed until it is found running.
StartedIsListed ==
  call = "starting" =>
    \A v \in Machines \ running :
      \/ cloud[v] \in {"none", "error", "unknown"} \/ v \in returned
      \/ v \in ToSet(listed)

\* A machine that was found running is there until it terminates.
RunningRan == \A v \in running : cloud[v] \in {"running", "terminated"}

\* A machine that is to terminate is listed until it is gone.
AcceptedIsListed ==
  /\ call \in {"idle", "starting", "connecting", "created", "requesting"} =>
       accepted = {}
  /\ call = "terminating" =>
       \A v \in accepted : Gone(v) \/ v \in ToSet(listed)

\* Before the reservation there is no machine.
NoneReserved == call = "idle" => \A v \in Machines : cloud[v] = "none"

ListInv ==
  /\ ListsTyped /\ PassIsListed /\ NoneReserved
  /\ StartedIsListed /\ AcceptedIsListed /\ RunningRan
  /\ NoRunningVmForgotten /\ DestroyWaits

\* An order of machines is a list of them.
LEMMA OrderIsList ==
  ASSUME NEW n \in Nat, NEW order \in [1 .. n -> Machines]
  PROVE  /\ order \in Seq(Machines)
         /\ ToSet(order) \subseteq Machines
<1>1. order \in Seq(Machines)
  OBVIOUS
<1>2. QED
  BY <1>1 DEF ToSet

\* So is an order of the machines of a set.
LEMMA OrderOfSubset ==
  ASSUME CloudCallsAssumption, NEW set \in SUBSET Machines,
         NEW order \in [1 .. Cardinality(set) -> Machines]
  PROVE  order \in Seq(Machines)
<1>1. IsFiniteSet(set)
  BY FS_Subset DEF CloudCallsAssumption
<1>2. Cardinality(set) \in Nat
  BY <1>1, FS_CardinalityType
<1>3. QED
  BY <1>2, OrderIsList

\* What a pass does with the machine it looks at.
LEMMA WithoutHead ==
  ASSUME ListsTyped, PassIsListed, call = "starting", turn # <<>>
  PROVE  /\ Head(turn) \in Machines
         /\ Without(Head(turn)) \in Seq(Machines)
         /\ IsInjective(Without(Head(turn)))
         /\ \A v \in ToSet(listed) : v # Head(turn) =>
                                       v \in ToSet(Without(Head(turn)))
         /\ Tail(turn) \in Seq(Machines) /\ IsInjective(Tail(turn))
         /\ ToSet(Tail(turn)) \subseteq ToSet(turn) \ {Head(turn)}
<1> DEFINE v == Head(turn)
           i == CHOOSE k \in DOMAIN listed : listed[k] = v
<1>1. /\ turn \in Seq(Machines) /\ listed \in Seq(Machines)
      /\ DOMAIN turn = 1 .. Len(turn) /\ Len(turn) \in Nat \ {0}
      /\ DOMAIN listed = 1 .. Len(listed) /\ Len(listed) \in Nat
  BY LenProperties, EmptySeq DEF ListsTyped
<1>2. /\ v \in Machines /\ v = turn[1]
      /\ Tail(turn) \in Seq(Machines) /\ Len(Tail(turn)) = Len(turn) - 1
      /\ \A k \in 1 .. Len(turn) - 1 : Tail(turn)[k] = turn[k + 1]
  BY <1>1, HeadTailProperties
<1>3. DOMAIN Tail(turn) = 1 .. Len(turn) - 1
  BY <1>2, LenProperties
<1>4. IsInjective(turn) /\ IsInjective(listed)
        /\ ToSet(turn) \subseteq ToSet(listed)
  BY DEF PassIsListed
<1>5. IsInjective(Tail(turn))
  BY <1>1, <1>2, <1>3, <1>4 DEF IsInjective
<1>6. ToSet(Tail(turn)) \subseteq ToSet(turn) \ {v}
  <2>1. SUFFICES ASSUME NEW k \in 1 .. Len(turn) - 1
                 PROVE  Tail(turn)[k] \in ToSet(turn) \ {v}
    BY <1>3 DEF ToSet
  <2>2. Tail(turn)[k] = turn[k + 1] /\ k + 1 \in 1 .. Len(turn) /\ k + 1 # 1
    BY <1>1, <1>2
  <2>3. turn[k + 1] # turn[1]
    BY <1>1, <1>4, <2>2 DEF IsInjective
  <2>4. QED
    BY <1>1, <1>2, <2>2, <2>3 DEF ToSet
<1>7. i \in 1 .. Len(listed) /\ listed[i] = v
  <2>1. v \in ToSet(listed)
    <3>1. turn[1] \in ToSet(turn)
      BY <1>1 DEF ToSet
    <3>2. QED
      BY <1>2, <1>4, <3>1
  <2>2. \E k \in DOMAIN listed : listed[k] = v
    BY <2>1 DEF ToSet
  <2>3. QED
    BY <1>1, <2>2
<1>8. Without(v) = RemoveAt(listed, i)
  BY DEF Without
<1> HIDE DEF v, i
<1>9.  /\ RemoveAt(listed, i) \in Seq(Machines)
       /\ \A x \in ToSet(listed) : x # v => x \in ToSet(RemoveAt(listed, i))
       /\ IsInjective(RemoveAt(listed, i))
  BY <1>1, <1>4, <1>7, RemoveAtProperties, RemovedSet
<1>10. QED
  BY <1>1, <1>2, <1>4, <1>5, <1>6, <1>8, <1>9 DEF v

-----------------------------------------------------------------------------

\* A look takes no machine off the list but one that is not there, that is in
\* error or that it adds to the running ones.
LEMMA LookFacts ==
  ASSUME ListsTyped, LookIfExists \/ LookIfRunning
  PROVE  /\ call = "starting" /\ turn # <<>>
         /\ UNCHANGED <<call, cloud, returned, place, retries, ready, accepted>>
         /\ seen' \in States
         /\ \/ listed' = listed /\ turn' \in {turn, <<>>, Tail(turn)}
            \/ listed' = Without(Head(turn)) /\ turn' \in {<<>>, Tail(turn)}
         /\ listed' = listed \/ Head(turn) \in running'
                            \/ cloud[Head(turn)] \in {"unknown", "error"}
         /\ \/ running' = running
            \/ /\ cloud[Head(turn)] = "running"
               /\ running' = running \cup {Head(turn)}
<1>1. turn # <<>> => Head(turn) \in Machines
  BY HeadTailProperties DEF ListsTyped
<1>2. CASE LookIfExists
  BY <1>1, <1>2
     DEF LookIfExists, DropMissing, RestOfPass, cloudVars, ListsTyped
<1>3. CASE LookIfRunning
  <2>1. "none" \in States
    BY DEF States
  <2> QED
    BY <1>1, <1>3, <2>1
       DEF LookIfRunning, TakeOff, RestOfPass, cloudVars, ListsTyped
<1> QED BY <1>2, <1>3

\* Every step keeps the types of the lists.
LEMMA ListsTypedStep ==
  ASSUME CloudCallsAssumption, ListsTyped, PassIsListed, AcceptedIsListed,
         [Next]_vars
  PROVE  ListsTyped'
<1>1. ASSUME NEW k \in 1 .. Cardinality(Machines),
             NEW order \in [1 .. k -> Machines], Reserve(order)
      PROVE  ListsTyped'
  <2>1. order \in Seq(Machines)
    BY OrderIsList
  <2>2. cloud' \in [Machines -> States]
    BY <1>1 DEF Reserve, States
  <2>3. QED
    BY <1>1, <2>1, <2>2 DEF Reserve, ListsTyped
<1>2. CASE LookIfExists \/ LookIfRunning
  <2>1. /\ listed' = listed \/ listed' = Without(Head(turn))
        /\ turn' \in {turn, <<>>, Tail(turn)}
        /\ running' = running \/ running' = running \cup {Head(turn)}
        /\ UNCHANGED <<cloud, returned, place, ready, accepted>>
        /\ seen' \in States
    BY <1>2, LookFacts
  <2>2. call = "starting" /\ turn # <<>>
    BY <1>2, LookFacts
  <2>3. /\ Without(Head(turn)) \in Seq(Machines) /\ Head(turn) \in Machines
        /\ Tail(turn) \in Seq(Machines) /\ <<>> \in Seq(Machines)
    BY <2>2, WithoutHead, EmptySeq
  <2>4. QED
    BY <2>1, <2>3 DEF ListsTyped
<1>3. CASE NextPass
  BY <1>3 DEF NextPass, cloudVars, ListsTyped
<1>4. ASSUME NEW answering \in SUBSET running, Connect(answering)
      PROVE  ListsTyped'
  <2>1. accepted = {}
    BY <1>4 DEF Connect, AcceptedIsListed
  <2>2. QED
    BY <1>4, <2>1 DEF Connect, loopVars, cloudVars, ListsTyped
<1>5. ASSUME NEW set \in SUBSET ready,
             NEW order \in [1 .. Cardinality(set) -> Machines],
             RequestTermination(set, order)
      PROVE  ListsTyped'
  <2>1. order \in Seq(Machines)
    BY OrderOfSubset DEF ListsTyped
  <2>2. QED
    BY <1>5, <2>1 DEF RequestTermination, cloudVars, ListsTyped
<1>6. CASE CheckTerminated
  <2>1. listed[place] \in Machines /\ place \in 1 .. Len(listed)
    BY <1>6, ElementOfSeq, LenProperties DEF CheckTerminated, ListsTyped
  <2>2. RemoveAt(listed, place) \in Seq(Machines)
    BY <2>1, RemoveAtProperties DEF ListsTyped
  <2>3. QED
    BY <1>6, <2>2 DEF CheckTerminated, cloudVars, ListsTyped
<1>7. CASE LoopAgain
  BY <1>7 DEF LoopAgain, cloudVars, ListsTyped
<1>8. CASE NoReservation \/ Destroy \/ UpdateRaises
  BY <1>8 DEF NoReservation, Destroy, UpdateRaises, loopVars, cloudVars,
              ListsTyped
<1>9. ASSUME NEW v \in Machines, Cloud(v) PROVE ListsTyped'
  <2>1. /\ cloud' \in [Machines -> States] /\ returned' \subseteq Machines
        /\ UNCHANGED <<call, loopVars, running, ready, accepted>>
    BY <1>9 DEF Cloud, Settles, Reappears, Terminates, ListsTyped, States
  <2>2. QED
    BY <2>1 DEF loopVars, cloudVars, ListsTyped
<1>10. CASE UNCHANGED vars
  BY <1>10 DEF vars, loopVars, cloudVars, ListsTyped
<1>11. QED
  BY <1>1, <1>2, <1>3, <1>4, <1>5, <1>6, <1>7, <1>8, <1>9, <1>10
     DEF Next, Code

\* Every step keeps the pass within the list it goes through.
LEMMA PassIsListedStep ==
  ASSUME ListsTyped, PassIsListed, [Next]_vars
  PROVE  PassIsListed'
<1>1. ASSUME NEW k \in 1 .. Cardinality(Machines),
             NEW order \in [1 .. k -> Machines], Reserve(order)
      PROVE  PassIsListed'
  BY <1>1 DEF Reserve, PassIsListed
<1>2. CASE LookIfExists \/ LookIfRunning
  <2>1. /\ call = "starting" /\ turn # <<>> /\ UNCHANGED call
        /\ \/ listed' = listed /\ turn' \in {turn, <<>>, Tail(turn)}
           \/ listed' = Without(Head(turn)) /\ turn' \in {<<>>, Tail(turn)}
    BY <1>2, LookFacts
  <2>2. /\ IsInjective(Without(Head(turn))) /\ IsInjective(Tail(turn))
        /\ ToSet(Tail(turn)) \subseteq ToSet(listed)
        /\ ToSet(Tail(turn)) \subseteq ToSet(Without(Head(turn)))
    BY <2>1, WithoutHead DEF PassIsListed
  <2>3. IsInjective(<<>>) /\ ToSet(<<>>) = {}
    BY DEF IsInjective, ToSet
  <2>4. QED
    BY <2>1, <2>2, <2>3 DEF PassIsListed
<1>3. CASE NextPass
  BY <1>3 DEF NextPass, PassIsListed
<1>4. CASE UNCHANGED <<call, loopVars>>
  BY <1>4 DEF loopVars, PassIsListed
<1>5. CASE call' # "starting"
  BY <1>5 DEF PassIsListed
<1>6. QED
  BY <1>1, <1>2, <1>3, <1>4, <1>5 DEF Next, Code, vars, loopVars, NoReservation,
     Connect, Destroy, RequestTermination, CheckTerminated, LoopAgain,
     UpdateRaises, Cloud, Settles, Reappears, Terminates

\* No step of the waiting loop drops a machine that runs.
LEMMA StartedStep ==
  ASSUME ListsTyped, PassIsListed, NoneReserved, StartedIsListed,
         NoRunningVmForgotten, [Next]_vars
  PROVE  StartedIsListed' /\ NoRunningVmForgotten'
<1> DEFINE Ended(v) == cloud[v] \in {"none", "error", "unknown"}
                         \/ v \in returned
<1>1. ASSUME NEW k \in 1 .. Cardinality(Machines),
             NEW order \in [1 .. k -> Machines], Reserve(order)
      PROVE  StartedIsListed' /\ NoRunningVmForgotten'
  BY <1>1 DEF Reserve, StartedIsListed, NoRunningVmForgotten
<1>2. CASE LookIfExists \/ LookIfRunning
  <2>1. /\ call = "starting" /\ turn # <<>>
        /\ UNCHANGED <<call, cloud, returned>>
        /\ listed' = listed \/ listed' = Without(Head(turn))
        /\ listed' = listed \/ Head(turn) \in running'
                           \/ cloud[Head(turn)] \in {"unknown", "error"}
        /\ running \subseteq running'
    BY <1>2, LookFacts
  <2>2. ASSUME NEW v \in Machines \ running', ~Ended(v)
        PROVE  v \in ToSet(listed')
    <3>1. v \in ToSet(listed)
      BY <2>1, <2>2 DEF StartedIsListed
    <3>2. CASE v # Head(turn)
      BY <2>1, <3>1, <3>2, WithoutHead
    <3>3. CASE v = Head(turn)
      BY <2>1, <2>2, <3>1, <3>3
    <3>4. QED
      BY <3>2, <3>3
  <2>3. QED
    BY <2>1, <2>2 DEF StartedIsListed, NoRunningVmForgotten
<1>3. CASE NextPass
  <2>1. CASE listed # <<>>
    BY <1>3, <2>1 DEF NextPass, cloudVars, StartedIsListed, NoRunningVmForgotten
  <2>2. CASE listed = <<>>
    <3>1. ToSet(listed) = {}
      BY <2>2 DEF ToSet
    <3>2. QED
      BY <1>3, <2>2, <3>1
         DEF NextPass, cloudVars, StartedIsListed, NoRunningVmForgotten
  <2>3. QED
    BY <2>1, <2>2
<1>4. CASE NoReservation
  <2>1. \A v \in Machines : cloud[v] = "none"
    BY <1>4 DEF NoReservation, NoneReserved
  <2>2. QED
    BY <1>4, <2>1
       DEF NoReservation, loopVars, cloudVars, StartedIsListed,
           NoRunningVmForgotten
<1>5. CASE UNCHANGED <<cloudVars, running>>
             /\ call \notin {"idle", "starting"}
             /\ call' \notin {"idle", "starting"}
  BY <1>5 DEF cloudVars, StartedIsListed, NoRunningVmForgotten
<1>6. ASSUME NEW v \in Machines, Cloud(v)
      PROVE  StartedIsListed' /\ NoRunningVmForgotten'
  <2>1. UNCHANGED <<call, listed, running>>
    BY <1>6 DEF Cloud, Settles, Reappears, Terminates, loopVars
  <2>2. \A u \in Machines : Ended(u) => Ended(u)'
    BY <1>6 DEF Cloud, Settles, Reappears, Terminates, ListsTyped
  <2>3. QED
    BY <2>1, <2>2 DEF StartedIsListed, NoRunningVmForgotten
<1>7. CASE UNCHANGED vars
  BY <1>7 DEF vars, loopVars, cloudVars, StartedIsListed, NoRunningVmForgotten
<1>8. QED
  <2>1. ASSUME NEW set \in SUBSET ready,
               NEW order \in [1 .. Cardinality(set) -> Machines],
               RequestTermination(set, order)
        PROVE  StartedIsListed' /\ NoRunningVmForgotten'
    BY <1>5, <2>1 DEF RequestTermination
  <2>2. ASSUME NEW answering \in SUBSET running, Connect(answering)
        PROVE  StartedIsListed' /\ NoRunningVmForgotten'
    BY <1>5, <2>2 DEF Connect
  <2>3. CASE Destroy \/ CheckTerminated \/ LoopAgain \/ UpdateRaises
    BY <1>5, <2>3 DEF Destroy, CheckTerminated, LoopAgain, UpdateRaises
  <2>4. QED
    BY <1>1, <1>2, <1>3, <1>4, <1>6, <1>7, <2>1, <2>2, <2>3 DEF Next, Code

\* Outside a call nothing is reserved.
LEMMA NoneReservedStep ==
  ASSUME ListsTyped, NoneReserved, [Next]_vars
  PROVE  NoneReserved'
<1>1. CASE call' # "idle"
  BY <1>1 DEF NoneReserved
<1>2. CASE UNCHANGED <<call, cloud>>
  BY <1>2 DEF NoneReserved
<1>3. ASSUME NEW v \in Machines, Cloud(v) PROVE NoneReserved'
  BY <1>3 DEF Cloud, Settles, Reappears, Terminates, NoneReserved
<1>4. QED
  BY <1>1, <1>2, <1>3 DEF Next, Code, vars, Reserve, NoReservation,
     LookIfExists, LookIfRunning, cloudVars, NextPass, Connect, Destroy,
     RequestTermination, CheckTerminated, LoopAgain, UpdateRaises

\* Machines found running stay where the cloud accounts for them.
LEMMA RunningRanStep ==
  ASSUME ListsTyped, NoneReserved, RunningRan, [Next]_vars
  PROVE  RunningRan'
<1>1. CASE UNCHANGED <<cloud, running>>
  BY <1>1 DEF RunningRan
<1>2. ASSUME NEW k \in 1 .. Cardinality(Machines),
             NEW order \in [1 .. k -> Machines], Reserve(order)
      PROVE  RunningRan'
  <2>1. \A v \in Machines : cloud[v] = "none"
    BY <1>2 DEF Reserve, NoneReserved
  <2>2. running = {}
    BY <2>1 DEF RunningRan, ListsTyped
  <2> QED BY <1>2, <2>2 DEF Reserve, RunningRan
<1>3. CASE LookIfExists \/ LookIfRunning
  <2>1. /\ UNCHANGED cloud
        /\ \/ running' = running
           \/ /\ cloud[Head(turn)] = "running"
              /\ running' = running \cup {Head(turn)}
    BY <1>3, LookFacts
  <2> QED BY <2>1 DEF RunningRan
<1>4. ASSUME NEW v \in Machines, Cloud(v) PROVE RunningRan'
  <2>1. UNCHANGED running /\ running \subseteq Machines
    BY <1>4 DEF Cloud, Settles, Reappears, Terminates, ListsTyped
  <2>2. \A u \in Machines : cloud[u] \in {"running", "terminated"} =>
                               cloud'[u] \in {"running", "terminated"}
    BY <1>4 DEF Cloud, Settles, Reappears, Terminates, ListsTyped
  <2> QED BY <2>1, <2>2 DEF RunningRan
<1> QED
  BY <1>1, <1>2, <1>3, <1>4 DEF Next, Code, vars, cloudVars, NoReservation,
     NextPass, Connect, Destroy, RequestTermination, CheckTerminated,
     LoopAgain, UpdateRaises

\* No step of the terminating loop drops a machine that is not gone.
LEMMA AcceptedStep ==
  ASSUME ListsTyped, AcceptedIsListed, RunningRan, DestroyWaits, [Next]_vars
  PROVE  AcceptedIsListed' /\ DestroyWaits'
<1>1. CASE UNCHANGED accepted /\ accepted = {}
  <2>1. CASE call' = "terminating"
    BY <1>1, <2>1 DEF AcceptedIsListed, DestroyWaits
  <2>2. QED
    BY <1>1, <2>1 DEF AcceptedIsListed, DestroyWaits
<1>2. ASSUME NEW set \in SUBSET ready,
             NEW order \in [1 .. Cardinality(set) -> Machines],
             RequestTermination(set, order)
      PROVE  AcceptedIsListed' /\ DestroyWaits'
  BY <1>2 DEF RequestTermination, AcceptedIsListed, DestroyWaits
<1>3. CASE CheckTerminated
  <2>1. /\ listed \in Seq(Machines) /\ place \in 1 .. Len(listed)
        /\ call = "terminating" /\ UNCHANGED <<call, cloud, accepted>>
        /\ listed' = IF Gone(listed[place]) THEN RemoveAt(listed, place)
                                            ELSE listed
    BY <1>3, LenProperties DEF CheckTerminated, cloudVars, ListsTyped
  <2>2. \A v \in ToSet(listed) : v # listed[place] =>
                                    v \in ToSet(RemoveAt(listed, place))
    BY <2>1, RemovedSet
  <2>3. QED
    BY <2>1, <2>2 DEF AcceptedIsListed, DestroyWaits, Gone
<1>4. CASE LoopAgain
  <2>1. ToSet(<<>>) = {}
    BY DEF ToSet
  <2>2. QED
    BY <1>4, <2>1 DEF LoopAgain, cloudVars, AcceptedIsListed,
                         DestroyWaits, Gone
<1>5. CASE UpdateRaises
  BY <1>5 DEF UpdateRaises, cloudVars, AcceptedIsListed, DestroyWaits
<1>6. ASSUME NEW v \in Machines, Cloud(v)
      PROVE  AcceptedIsListed' /\ DestroyWaits'
  <2>1. UNCHANGED <<call, listed, accepted>> /\ accepted \subseteq running
          /\ running \subseteq Machines
    BY <1>6 DEF Cloud, Settles, Reappears, Terminates, loopVars, ListsTyped
  <2>2. \A u \in running : Gone(u) => Gone(u)'
    BY <1>6, <2>1 DEF Cloud, Settles, Reappears, Terminates, Gone, ListsTyped,
                      RunningRan
  <2>3. QED
    BY <2>1, <2>2 DEF AcceptedIsListed, DestroyWaits
<1>7. CASE UNCHANGED vars
  BY <1>7 DEF vars, loopVars, cloudVars, AcceptedIsListed, DestroyWaits,
              Gone
<1>8. QED
  <2>1. CASE NoReservation \/ LookIfExists \/ LookIfRunning \/ NextPass
               \/ Destroy
    <3>1. accepted = {} /\ UNCHANGED accepted
      BY <2>1 DEF NoReservation, LookIfExists, LookIfRunning, NextPass, Destroy,
                  AcceptedIsListed
    <3>2. QED
      BY <1>1, <3>1
  <2>2. ASSUME NEW k \in 1 .. Cardinality(Machines),
               NEW order \in [1 .. k -> Machines], Reserve(order)
        PROVE  AcceptedIsListed' /\ DestroyWaits'
    BY <1>1, <2>2 DEF Reserve, AcceptedIsListed
  <2>3. ASSUME NEW answering \in SUBSET running, Connect(answering)
        PROVE  AcceptedIsListed' /\ DestroyWaits'
    BY <1>1, <2>3 DEF Connect, AcceptedIsListed
  <2>4. QED
    BY <1>2, <1>3, <1>4, <1>5, <1>6, <1>7, <2>1, <2>2, <2>3 DEF Next, Code

-----------------------------------------------------------------------------

\* The invariant of the lists is inductive.
LEMMA ListInvStep ==
  ASSUME CloudCallsAssumption, ListInv, [Next]_vars
  PROVE  ListInv'
<1>1. ListsTyped'
  BY ListsTypedStep DEF ListInv
<1>2. PassIsListed'
  BY PassIsListedStep DEF ListInv
<1>3. NoneReserved'
  BY NoneReservedStep DEF ListInv
<1>4. StartedIsListed' /\ NoRunningVmForgotten'
  BY StartedStep DEF ListInv
<1>5. AcceptedIsListed' /\ DestroyWaits'
  BY AcceptedStep DEF ListInv
<1>6. RunningRan'
  BY RunningRanStep DEF ListInv
<1>7. QED
  BY <1>1, <1>2, <1>3, <1>4, <1>5, <1>6 DEF ListInv

\* Hence it holds in every state.
LEMMA ListInvInductive == CloudCallsAssumption => (Spec => []ListInv)
<1> SUFFICES ASSUME CloudCallsAssumption
             PROVE  Spec => []ListInv
  OBVIOUS
<1>1. Init => ListInv
  <2> SUFFICES ASSUME Init PROVE ListInv
    OBVIOUS
  <2>1. ListsTyped
    BY EmptySeq DEF Init, ListsTyped, States
  <2>2. PassIsListed /\ StartedIsListed /\ AcceptedIsListed /\ RunningRan
    BY DEF Init, PassIsListed, StartedIsListed, AcceptedIsListed, RunningRan
  <2>3. NoneReserved /\ NoRunningVmForgotten /\ DestroyWaits
    BY DEF Init, NoneReserved, NoRunningVmForgotten, DestroyWaits
  <2>4. QED
    BY <2>1, <2>2, <2>3 DEF ListInv
<1>2. ListInv /\ [Next]_vars => ListInv'
  BY ListInvStep
<1>3. QED
  BY <1>1, <1>2, PTL DEF Spec

(***************************************************************************)
(* wait_for_vms_to_start_running leaves no machine behind that came to     *)
(* run and was never missing, for every number of machines, of passes, and *)
(* every order in which the cloud answers.                                 *)
(***************************************************************************)
THEOREM NoneForgotten == CloudCallsAssumption =>
                           (Spec => []NoRunningVmForgotten)
<1>1. ListInv => NoRunningVmForgotten
  BY DEF ListInv
<1>2. QED
  BY <1>1, ListInvInductive, PTL

(***************************************************************************)
(* wait_for_vms_to_terminate returns when all machines it was given are    *)
(* gone, although it changes the list that it iterates over.               *)
(***************************************************************************)
THEOREM AllGone == CloudCallsAssumption => (Spec => []DestroyWaits)
<1>1. ListInv => DestroyWaits
  BY DEF ListInv
<1>2. QED
  BY <1>1, ListInvInductive, PTL

-----------------------------------------------------------------------------
(***************************************************************************)
(* The quotient and the remainder are unique.                              *)
(***************************************************************************)
LEMMA Quotient ==
  ASSUME NEW a \in Int, NEW d \in Nat \ {0}, NEW q \in Int,
         q * d <= a, a < q * d + d
  PROVE  a \div d = q
<1>1. /\ a \div d \in Int /\ a % d \in 0 .. d - 1
      /\ a = d * (a \div d) + (a % d)
  OBVIOUS
<1> DEFINE x == a \div d
<1> HIDE DEF x
<1>2. x \in Int /\ d * x <= a /\ a < d * x + d
  BY <1>1 DEF x
<1>3. ~(x < q)
  <2> SUFFICES ASSUME x < q PROVE FALSE
    OBVIOUS
  <2>1. d * (x + 1) <= d * q
    BY <1>2
  <2>2. QED
    BY <1>2, <2>1
<1>4. ~(q < x)
  <2> SUFFICES ASSUME q < x PROVE FALSE
    OBVIOUS
  <2>1. d * (q + 1) <= d * x
    BY <1>2
  <2>2. QED
    BY <1>2, <2>1
<1>5. QED
  BY <1>2, <1>3, <1>4 DEF x

\* Integer division and its remainder.
LEMMA DivMod ==
  ASSUME NEW a \in Int, NEW d \in Nat \ {0}
  PROVE  /\ a \div d \in Int /\ a % d \in 0 .. d - 1
         /\ a = d * (a \div d) + (a % d)
OBVIOUS
-----------------------------------------------------------------------------
RobinTyped ==
  /\ nodes \in 1 .. MaxNodes /\ procs \in 1 .. MaxProcs
  /\ first \in 0 .. MaxFirst /\ cur \in 1 .. Used + 1
  /\ remaining \in Nat /\ index \in Nat /\ first <= index
  /\ node \in [first + 1 .. index -> 1 .. nodes]

\* At least one node is used, and none without a process.
LEMMA UsedTyped ==
  ASSUME nodes \in Nat \ {0}, procs \in Nat \ {0}
  PROVE  /\ Used \in Nat \ {0} /\ Used <= nodes /\ Used <= procs
         /\ procs \div Used \in Nat /\ procs % Used \in Nat
         /\ procs % Used < Used
<1>1. Used \in Nat \ {0} /\ Used <= nodes /\ Used <= procs
  BY DEF Used, UsedNodes
<1> HIDE DEF Used
<1>2. /\ procs \div Used \in Int /\ procs % Used \in 0 .. Used - 1
      /\ procs = Used * (procs \div Used) + (procs % Used)
  BY <1>1, DivMod
<1>3. procs \div Used >= 0
  BY <1>1
<1> QED BY <1>1, <1>2, <1>3

\* What the assignment of a share to one node leaves.
LEMMA AssignTyped ==
  ASSUME RobinTyped, NEW count \in Nat, cur <= Used, Assign(count)
  PROVE  /\ index' \in Nat /\ first' <= index' /\ cur' \in 1 .. Used + 1
         /\ node' \in [first + 1 .. index' -> 1 .. nodes]
         /\ nodes' = nodes /\ procs' = procs /\ first' = first
<1>0. nodes \in Nat \ {0} /\ procs \in Nat \ {0}
  BY DEF RobinTyped
<1>1. Used \in Nat \ {0} /\ Used <= nodes
  BY <1>0, UsedTyped
<1>2. cur \in 1 .. nodes
  BY <1>0, <1>1 DEF RobinTyped
<1>3. node' \in [first + 1 .. index' -> 1 .. nodes]
  <2>1. index' = index + count
    BY DEF Assign
  <2>2. \A p \in first + 1 .. index + count :
          p \notin Ids(count) => p \in first + 1 .. index
    BY DEF RobinTyped, Ids
  <2>3. \A p \in first + 1 .. index + count :
          (IF p \in Ids(count) THEN cur ELSE node[p]) \in 1 .. nodes
    BY <1>2, <2>2 DEF RobinTyped
  <2>4. node' = [p \in first + 1 .. index + count |->
                   IF p \in Ids(count) THEN cur ELSE node[p]]
    BY DEF Assign
  <2> QED BY <2>1, <2>3, <2>4
<1> QED BY <1>1, <1>3 DEF Assign, RobinTyped, robinInputs

\* Every step of the assignment keeps its types.
LEMMA RobinTypedStep ==
  ASSUME RobinTyped, [RobinNext]_robinVars
  PROVE  RobinTyped'
<1>0. nodes \in Nat \ {0} /\ procs \in Nat \ {0}
  BY DEF RobinTyped
<1>1. procs \div Used \in Nat /\ procs % Used \in Nat /\ Used \in Nat
  BY <1>0, UsedTyped
<1>2. CASE ShareWithOneMore
  <2>1. /\ cur <= Used /\ Assign(procs \div Used + 1)
        /\ remaining' = remaining - 1 /\ remaining > 0
    BY <1>2 DEF ShareWithOneMore
  <2>2. procs \div Used + 1 \in Nat
    BY <1>1
  <2>3. /\ index' \in Nat /\ first' <= index' /\ cur' \in 1 .. Used + 1
        /\ node' \in [first + 1 .. index' -> 1 .. nodes]
        /\ nodes' = nodes /\ procs' = procs /\ first' = first
    BY <2>1, <2>2, AssignTyped
  <2>4. Used' = Used
    BY <2>3 DEF Used
  <2> QED BY <2>1, <2>3, <2>4 DEF RobinTyped
<1>3. CASE Share
  <2>1. cur <= Used /\ Assign(procs \div Used) /\ remaining' = remaining
    BY <1>3 DEF Share
  <2>3. /\ index' \in Nat /\ first' <= index' /\ cur' \in 1 .. Used + 1
        /\ node' \in [first + 1 .. index' -> 1 .. nodes]
        /\ nodes' = nodes /\ procs' = procs /\ first' = first
    BY <2>1, <1>1, AssignTyped
  <2>4. Used' = Used
    BY <2>3 DEF Used
  <2> QED BY <2>1, <2>3, <2>4 DEF RobinTyped
<1>4. CASE UNCHANGED robinVars
  <2>1. Used' = Used
    BY <1>4 DEF robinVars, robinInputs, Used
  <2> QED BY <1>4, <2>1 DEF robinVars, robinInputs, RobinTyped
<1> QED BY <1>2, <1>3, <1>4 DEF RobinNext

\* The assignment starts within its types.
LEMMA RobinTypedInit == ASSUME RobinInit PROVE RobinTyped
<1>1. nodes \in Nat \ {0} /\ procs \in Nat \ {0} /\ first \in Nat
  BY AlgorithmsAreSound DEF RobinInit, AlgorithmsAssumption, BoundsAssumption
<1>2. Used \in Nat \ {0} /\ procs % Used \in Nat
  BY <1>1, UsedTyped
<1>3. first + 1 .. index = {} /\ DOMAIN node = {}
  BY <1>1 DEF RobinInit
<1>4. node \in [first + 1 .. index -> 1 .. nodes]
  <2>1. node = [i \in {} |-> 0]
    BY DEF RobinInit
  <2> QED BY <1>3, <2>1
<1> QED BY <1>1, <1>2, <1>4 DEF RobinInit, RobinTyped

-----------------------------------------------------------------------------
(***************************************************************************)
(* The place that the loop has come to: the number of processes that the   *)
(* first n machines have got, of which the first Longer got one more.      *)
(***************************************************************************)
Longer == procs % Used
Placed(n) ==
  IF n <= Longer THEN n * (procs \div Used + 1)
  ELSE Longer * (procs \div Used + 1) + (n - Longer) * (procs \div Used)

PlaceOfLoop ==
  /\ remaining = IF cur - 1 <= Longer THEN Longer - (cur - 1) ELSE 0
  /\ index = first + Placed(cur - 1)

(* The processes between two places are those of one machine.              *)
LEMMA BlockOfMachine ==
  ASSUME RobinTyped, NEW n \in Nat
  PROVE  /\ Placed(n) \in Nat
         /\ Placed(n + 1) = Placed(n) + (IF n < Longer THEN procs \div Used + 1
                                                      ELSE procs \div Used)
         /\ \A i \in Placed(n) + 1 .. Placed(n + 1) :
              NodeOf(i, procs, Used) = n + 1
<1> DEFINE share == procs \div Used
           long == share + 1
           inLonger == Longer * long
<1>0. share \in Nat /\ Longer \in Nat /\ long \in Nat \ {0}
  <2>1. nodes \in Nat \ {0} /\ procs \in Nat \ {0}
    BY DEF RobinTyped
  <2> QED BY <2>1, UsedTyped DEF Longer
<1>1. \A i : NodeOf(i, procs, Used) =
               IF i <= inLonger THEN (i - 1) \div long + 1
               ELSE Longer + (i - 1 - inLonger) \div share + 1
  BY DEF NodeOf, Longer
<1>2. \A m \in Nat : Placed(m) = IF m <= Longer THEN m * long
                                  ELSE inLonger + (m - Longer) * share
  BY DEF Placed
<1>3. inLonger \in Nat
  BY <1>0
<1>4. CASE n < Longer
  <2>0. /\ n * long \in Nat /\ (n + 1) * long = n * long + long
        /\ (n + 1) * long <= inLonger
    <3>1. n * long \in Nat /\ (n + 1) * long = n * long + long
      BY <1>0
    <3>2. (n + 1) * long <= Longer * long
      BY <1>0, <1>4
    <3> QED BY <3>1, <3>2
  <2>1. Placed(n) = n * long /\ Placed(n + 1) = (n + 1) * long
    BY <1>0, <1>2, <1>4
  <2>2. ASSUME NEW i \in Placed(n) + 1 .. Placed(n + 1)
        PROVE  NodeOf(i, procs, Used) = n + 1
    <3>1. /\ i \in Int /\ n * long <= i - 1 /\ i - 1 < n * long + long
          /\ i <= inLonger
      BY <1>0, <1>3, <2>0, <2>1
    <3> HIDE DEF long, inLonger
    <3>2. (i - 1) \div long = n
      BY <1>0, <3>1, Quotient
    <3> QED BY <1>1, <3>1, <3>2
  <2> HIDE DEF long, inLonger
  <2>3. Placed(n) \in Nat /\ Placed(n + 1) = Placed(n) + long
    BY <2>0, <2>1
  <2> QED BY <1>4, <2>2, <2>3 DEF long
<1>5. CASE n >= Longer
  <2> DEFINE m == n - Longer
  <2>0. /\ m \in Nat /\ m * share \in Nat
        /\ (m + 1) * share = m * share + share
        /\ (n + 1) - Longer = m + 1
    BY <1>0, <1>5
  <2>1. /\ Placed(n) = inLonger + m * share
        /\ Placed(n + 1) = inLonger + (m + 1) * share
    <3>1. CASE n = Longer
      <4>1. Placed(n) = inLonger
        BY <1>0, <1>2, <3>1
      <4>2. m = 0 /\ m * share = 0
        BY <1>0, <3>1
      <4>3. Placed(n + 1) = inLonger + ((n + 1) - Longer) * share
        BY <1>0, <1>2, <3>1
      <4> HIDE DEF m, inLonger
      <4> QED BY <1>3, <2>0, <4>1, <4>2, <4>3
    <3>2. CASE n > Longer
      <4>1. ~(n <= Longer) /\ ~(n + 1 <= Longer) /\ n + 1 \in Nat
        BY <1>0, <3>2
      <4>2. /\ Placed(n) = inLonger + (n - Longer) * share
            /\ Placed(n + 1) = inLonger + ((n + 1) - Longer) * share
        BY <4>1 DEF Placed
      <4>3. QED
        BY <2>0, <4>2
    <3> QED BY <1>0, <1>5, <3>1, <3>2
  <2> HIDE DEF m, inLonger
  <2>2. Placed(n) \in Nat /\ Placed(n + 1) = Placed(n) + share
    BY <1>0, <1>3, <2>0, <2>1
  <2>3. ASSUME NEW i \in Placed(n) + 1 .. Placed(n + 1)
        PROVE  NodeOf(i, procs, Used) = n + 1
    <3>1. /\ i \in Int /\ m * share <= i - 1 - inLonger
          /\ i - 1 - inLonger < m * share + share /\ ~(i <= inLonger)
      BY <1>0, <1>3, <2>0, <2>1, <2>2
    <3>2. share # 0
      BY <1>0, <2>2
    <3> HIDE DEF share
    <3>3. (i - 1 - inLonger) \div share = m
      BY <1>0, <1>3, <2>0, <3>1, <3>2, Quotient
    <3>4. NodeOf(i, procs, Used) = Longer + m + 1
      BY <1>1, <3>1, <3>3
    <3> QED BY <1>0, <3>4 DEF m
  <2> QED BY <1>0, <1>5, <2>2, <2>3
<1> QED BY <1>0, <1>4, <1>5

\* Each share the loop assigns is the share of the definition.
LEMMA PlacementStep ==
  ASSUME RobinTyped, PlaceOfLoop, LoopIsPlacement, [RobinNext]_robinVars
  PROVE  PlaceOfLoop' /\ LoopIsPlacement'
<1> DEFINE n == cur - 1
           count == IF n < Longer THEN procs \div Used + 1
                                  ELSE procs \div Used
<1>0. n \in Nat /\ cur = n + 1
  BY DEF RobinTyped
<1>1. procs \div Used \in Nat /\ Longer \in Nat
  <2>1. nodes \in Nat \ {0} /\ procs \in Nat \ {0}
    BY DEF RobinTyped
  <2> QED BY <2>1, UsedTyped DEF Longer
<1>2. /\ Placed(n) \in Nat /\ Placed(n + 1) = Placed(n) + count
      /\ \A i \in Placed(n) + 1 .. Placed(n + 1) :
            NodeOf(i, procs, Used) = n + 1
  BY <1>0, BlockOfMachine
<1>3. remaining > 0 <=> n < Longer
  BY <1>0, <1>1 DEF PlaceOfLoop
<1>4. CASE RobinNext
  <2>1. Assign(count) /\ remaining' = IF n < Longer THEN remaining - 1
                                                    ELSE remaining
    BY <1>3, <1>4 DEF RobinNext, Share, ShareWithOneMore, RobinTyped
  <2>2. /\ UNCHANGED <<nodes, procs, first>> /\ cur' = cur + 1
        /\ index' = index + count
        /\ node' = [p \in first + 1 .. index + count |->
                      IF p \in Ids(count) THEN cur ELSE node[p]]
    BY <2>1 DEF Assign, robinInputs
  <2>3. Used' = Used /\ Longer' = Longer
    BY <2>2 DEF Used, Longer
  <2>4. cur' - 1 = n + 1
    BY <1>0, <2>2
  <2>5. PlaceOfLoop'
    <3>1. remaining' = IF cur' - 1 <= Longer THEN Longer - (cur' - 1) ELSE 0
      BY <1>0, <1>1, <2>1, <2>4 DEF PlaceOfLoop
    <3>2. index' = first + Placed(n + 1)
      <4>1. index = first + Placed(n)
        BY DEF PlaceOfLoop
      <4>2. count \in Nat /\ first \in Nat
        BY <1>1 DEF RobinTyped
      <4> HIDE DEF count, n
      <4> QED BY <1>2, <2>2, <4>1, <4>2
    <3>3. Placed(cur - 1)' = Placed(n + 1)
      BY <2>2, <2>3, <2>4 DEF Placed
    <3> QED BY <2>2, <2>3, <3>1, <3>2, <3>3 DEF PlaceOfLoop
  <2>6. ASSUME NEW p \in first + 1 .. index + count
        PROVE  node'[p] = NodeOf(p - first, procs, Used)
    <3>0. /\ first \in Nat /\ index \in Nat /\ count \in Nat
          /\ index = first + Placed(n)
      BY <1>1 DEF RobinTyped, PlaceOfLoop
    <3>1. CASE p \in Ids(count)
      <4>1. p - first \in Placed(n) + 1 .. Placed(n + 1)
        <5> HIDE DEF count, n
        <5> QED BY <1>2, <3>0, <3>1 DEF Ids
      <4>2. node'[p] = n + 1
        BY <1>0, <2>2, <3>1
      <4> QED BY <1>2, <4>1, <4>2
    <3>2. CASE p \notin Ids(count)
      <4>1. p \in first + 1 .. index
        <5> HIDE DEF count, n
        <5> QED BY <3>0, <3>2 DEF Ids
      <4>2. node'[p] = node[p]
        BY <2>2, <3>2
      <4> QED BY <4>1, <4>2 DEF LoopIsPlacement
    <3> QED BY <3>1, <3>2
  <2>7. LoopIsPlacement'
    <3>1. \A p \in first' + 1 .. index' :
            node'[p] = NodeOf(p - first', procs', Used')
      BY <2>2, <2>3, <2>6
    <3> QED BY <3>1 DEF LoopIsPlacement
  <2> QED BY <2>5, <2>7
<1>5. CASE UNCHANGED robinVars
  <2>1. Used' = Used /\ Longer' = Longer
    BY <1>5 DEF robinVars, robinInputs, Used, Longer
  <2>2. Placed(cur - 1)' = Placed(cur - 1)
    BY <1>5, <2>1 DEF robinVars, robinInputs, Placed
  <2> QED BY <1>5, <2>1, <2>2
            DEF robinVars, robinInputs, PlaceOfLoop, LoopIsPlacement
<1> QED BY <1>4, <1>5

\* Before the loop nothing is placed.
LEMMA PlacedInit ==
  ASSUME RobinInit
  PROVE  RobinTyped /\ PlaceOfLoop /\ LoopIsPlacement
<1>1. RobinTyped
  BY RobinTypedInit
<1>2. Longer \in Nat /\ procs \div Used \in Nat
  <2>1. nodes \in Nat \ {0} /\ procs \in Nat \ {0}
    BY <1>1 DEF RobinTyped
  <2> QED BY <2>1, UsedTyped DEF Longer
<1>3. Placed(0) = 0
  BY <1>2 DEF Placed
<1>4. cur - 1 = 0 /\ remaining = Longer /\ index = first /\ first \in Nat
  BY <1>1 DEF RobinInit, Longer, RobinTyped
<1>5. PlaceOfLoop
  BY <1>2, <1>3, <1>4 DEF PlaceOfLoop
<1>6. LoopIsPlacement
  BY <1>4 DEF LoopIsPlacement
<1> QED BY <1>1, <1>5, <1>6

(***************************************************************************)
(* Whatever the numbers of machines and processes, and whatever ids were   *)
(* given out before, the loop of start_round_robin_schedule places each    *)
(* process where the closed form says (LoopIsPlacement).                   *)
(***************************************************************************)
THEOREM PlacementOfLoop == RobinSpec => []LoopIsPlacement
<1>1. RobinInit => RobinTyped /\ PlaceOfLoop /\ LoopIsPlacement
  BY PlacedInit
<1>2. /\ RobinTyped /\ PlaceOfLoop /\ LoopIsPlacement
      /\ [RobinNext]_robinVars
      => (RobinTyped /\ PlaceOfLoop /\ LoopIsPlacement)'
  BY RobinTypedStep, PlacementStep
<1> QED BY <1>1, <1>2, PTL DEF RobinSpec

-----------------------------------------------------------------------------

\* The constants of the random numbers, as SeedsAssumption has them.
LEMMA SeedConstants ==
  /\ Lines \in Nat \ {0} /\ NumberSeeds \in Nat \ {0} /\ MaxN \in Nat \ {0}
  /\ MaxSeedInt \in Nat \ {0} /\ Denominator \in Nat \ {0} /\ MaxRounds \in Nat
BY AlgorithmsAreSound DEF AlgorithmsAssumption, SeedsAssumption

\* The drawing of random numbers starts within its types.
LEMMA SeedsTypedInit == ASSUME SeedsInit PROVE SeedsTypeOK
<1>1. drawn \in Seq(0 .. Lines - 1)
  BY EmptySeq DEF SeedsInit
<1>2. randIndex \in Nat /\ counter \in Nat /\ round \in 0 .. MaxRounds
  BY SeedConstants DEF SeedsInit
<1> QED BY <1>1, <1>2 DEF SeedsInit, SeedsTypeOK

\* A number drawn in [0, 1) is scaled to a natural number.
LEMMA ScaledTyped ==
  ASSUME NEW raw \in 0 .. Denominator - 1
  PROVE  Scaled(raw) \in Nat
<1>1. EndRange \in Nat
  BY SeedConstants DEF EndRange, Numbers
<1>2. raw \in Nat /\ Denominator \in Nat \ {0}
  BY SeedConstants
<1> DEFINE a == raw * EndRange
<1>3. a \in Nat
  BY <1>1, <1>2
<1> HIDE DEF a
<1>4. a \div Denominator \in Nat
  BY <1>2, <1>3
<1> QED BY <1>4 DEF Scaled, a

\* Every step of the drawing keeps its types.
LEMMA SeedsTypedStep ==
  ASSUME SeedsTypeOK, [SeedsNext]_seedVars
  PROVE  SeedsTypeOK'
<1>1. CASE Draw
  <2>1. counter \in 0 .. Lines - 1
    BY <1>1, SeedConstants DEF Draw, IsNumber, SeedsTypeOK
  <2>2. drawn' \in Seq(0 .. Lines - 1)
    BY <1>1, <2>1, AppendProperties DEF Draw, SeedsTypeOK
  <2>3. seeds' \subseteq Nat
    BY <1>1, ScaledTyped DEF Draw, SeedsTypeOK
  <2>4. counter' \in Nat
    BY <1>1 DEF Draw, NextLine, SeedsTypeOK
  <2> QED BY <1>1, <2>2, <2>3, <2>4 DEF Draw, SeedsTypeOK, seedInputs
<1>2. CASE Raise
  BY <1>2 DEF Raise, SeedsTypeOK, seedInputs
<1>3. CASE NextRound
  <2>1. drawn' \in Seq(0 .. Lines - 1)
    BY <1>3, EmptySeq DEF NextRound
  <2>2. ToSet(drawn) \subseteq 0 .. Lines - 1
    BY ElementOfSeq, LenProperties DEF SeedsTypeOK, ToSet
  <2>3. randIndex' \in Nat /\ counter' \in Nat /\ round' \in 0 .. MaxRounds
    BY <1>3, SeedConstants DEF NextRound, SeedsTypeOK, Advance
  <2> QED BY <1>3, <2>1, <2>2, <2>3 DEF NextRound, SeedsTypeOK, seedInputs
<1>4. CASE UNCHANGED seedVars
  BY <1>4 DEF seedVars, seedInputs, SeedsTypeOK
<1> QED BY <1>1, <1>2, <1>3, <1>4 DEF SeedsNext

-----------------------------------------------------------------------------
(***************************************************************************)
(* The i-th line of a round, and where a round of MC stands: it has gone   *)
(* on at most once around the file, and the earlier rounds have drawn the  *)
(* lines just before it.  A round that begins behind the file draws none.  *)
(***************************************************************************)
LineAt(i) == IF i <= Lines - randIndex THEN randIndex + i - 1
             ELSE (randIndex + i - 1) - Lines

RoundBegun ==
  /\ Len(drawn) <= runs
  /\ drawn = << >> => counter = randIndex
  /\ randIndex >= Lines => drawn = << >>

RoundDrawn ==
  randIndex < Lines /\ Len(drawn) <= Lines =>
    /\ \A i \in 1 .. Len(drawn) : drawn[i] = LineAt(i)
    /\ IF terminated
       THEN Len(drawn) <= Lines - randIndex /\ counter = randIndex + Len(drawn)
       ELSE counter = LineAt(Len(drawn) + 1)

EarlierBefore ==
  randIndex <= Lines =>
    \E r \in 0 .. randIndex : earlier = r .. randIndex - 1

DrawnInOrder == who = "MC" => RoundBegun /\ RoundDrawn /\ EarlierBefore

\* Every round of HRMC starts where the round before it ended.
LEMMA DrawnInOrderStep ==
  ASSUME SeedsTypeOK, DrawnInOrder, [SeedsNext]_seedVars, who = "MC"
  PROVE  (RoundBegun /\ RoundDrawn /\ EarlierBefore)'
<1>0. /\ Len(drawn) \in Nat /\ DOMAIN drawn = 1 .. Len(drawn)
      /\ Lines \in Nat \ {0} /\ randIndex \in Nat /\ counter \in Nat
      /\ runs \in Nat \ {0} /\ terminated \in BOOLEAN
  BY LenProperties, SeedConstants DEF SeedsTypeOK
<1>1. RoundBegun /\ RoundDrawn /\ EarlierBefore
  BY DEF DrawnInOrder
<1>2. Required = runs
  BY DEF Required
<1>3. CASE Draw
  <2>0. /\ drawn' = Append(drawn, counter) /\ counter < Lines
        /\ Len(drawn) < runs /\ counter' = NextLine
        /\ UNCHANGED <<who, terminated, runs, randIndex, earlier>>
    BY <1>2, <1>3 DEF Draw, Drawing, IsNumber, seedInputs
  <2>1. /\ Len(drawn') = Len(drawn) + 1 /\ drawn' # << >>
        /\ \A i \in 1 .. Len(drawn) : drawn'[i] = drawn[i]
        /\ drawn'[Len(drawn) + 1] = counter
    <3>1. counter \in Nat /\ drawn \in Seq(Nat)
      <4>1. 0 .. Lines - 1 \subseteq Nat
        BY <1>0
      <4> QED BY <1>0, <4>1, LenProperties, ElementOfSeq, SeqDef
                 DEF SeedsTypeOK
    <3>2. Len(drawn') = Len(drawn) + 1
      BY <2>0, <3>1, AppendProperties
    <3> QED BY <1>0, <2>0, <3>1, <3>2, AppendProperties, EmptySeq
  <2>2. randIndex < Lines
    BY <1>0, <1>1, <2>0, EmptySeq DEF RoundBegun
  <2>3. RoundBegun'
    BY <1>0, <2>0, <2>1, <2>2 DEF RoundBegun
  <2>4. EarlierBefore'
    BY <1>1, <2>0 DEF EarlierBefore
  <2>5. ASSUME Len(drawn) + 1 <= Lines
        PROVE  /\ \A i \in 1 .. Len(drawn) + 1 : drawn'[i] = LineAt(i)
               /\ IF terminated
                  THEN /\ Len(drawn) + 1 <= Lines - randIndex
                       /\ counter' = randIndex + (Len(drawn) + 1)
                  ELSE counter' = LineAt(Len(drawn) + 2)
    <3>1. /\ \A i \in 1 .. Len(drawn) : drawn[i] = LineAt(i)
          /\ IF terminated THEN /\ Len(drawn) <= Lines - randIndex
                                /\ counter = randIndex + Len(drawn)
                           ELSE counter = LineAt(Len(drawn) + 1)
      BY <1>0, <1>1, <2>2, <2>5 DEF RoundDrawn
    <3>2. CASE terminated
      <4>1. counter = LineAt(Len(drawn) + 1)
        BY <1>0, <2>0, <3>1, <3>2 DEF LineAt
      <4>2. counter' = counter + 1 /\ Len(drawn) + 1 <= Lines - randIndex
        BY <1>0, <2>0, <3>1, <3>2 DEF NextLine, Numbers
      <4> QED BY <1>0, <2>1, <3>1, <3>2, <4>1, <4>2
    <3>3. CASE ~terminated
      <4>1. counter' = LineAt(Len(drawn) + 2)
        BY <1>0, <2>0, <2>2, <2>5, <3>1, <3>3 DEF NextLine, Numbers, LineAt
      <4> QED BY <1>0, <2>1, <3>1, <3>3, <4>1
    <3> QED BY <3>2, <3>3
  <2>6. RoundDrawn'
    <3>1. \A i : LineAt(i)' = LineAt(i)
      BY <2>0 DEF LineAt
    <3>2. (Len(drawn) + 1) + 1 = Len(drawn) + 2
      BY <1>0
    <3> QED BY <2>0, <2>1, <2>5, <3>1, <3>2 DEF RoundDrawn
  <2> QED BY <2>3, <2>4, <2>6
<1>4. CASE Raise
  <2>1. UNCHANGED <<who, terminated, runs, randIndex, counter, drawn, earlier>>
    BY <1>4 DEF Raise, seedInputs
  <2> QED BY <1>1, <2>1 DEF RoundBegun, RoundDrawn, EarlierBefore, LineAt
<1>5. CASE NextRound
  <2>0. /\ randIndex' = randIndex + runs /\ counter' = randIndex'
        /\ earlier' = earlier \cup ToSet(drawn) /\ drawn' = << >>
        /\ runs' = runs /\ terminated' = terminated /\ ~Drawing /\ ~failed
    BY <1>5 DEF NextRound, Advance, seedInputs
  <2>1. Len(drawn) = runs
    <3>1. ~(Len(drawn) < runs)
      BY <1>2, <2>0, Zenon DEF Drawing
    <3>2. Len(drawn) <= runs
      BY <1>1 DEF RoundBegun
    <3>3. Len(drawn) \in Nat /\ runs \in Nat
      BY <1>0
    <3> QED BY <3>1, <3>2, <3>3
  <2>2. Len(drawn') = 0
    BY <2>0
  <2>3. RoundBegun'
    BY <1>0, <2>0, <2>2 DEF RoundBegun
  <2>4. RoundDrawn'
    BY <1>0, <2>0, <2>2 DEF RoundDrawn, LineAt
  <2>5. ASSUME randIndex' <= Lines
        PROVE  \E r \in 0 .. randIndex' : earlier' = r .. randIndex' - 1
    <3>1. randIndex < Lines /\ runs <= Lines - randIndex
      BY <1>0, <2>0, <2>5
    <3>2. \A i \in 1 .. Len(drawn) : drawn[i] = randIndex + i - 1
      BY <1>0, <1>1, <2>0, <2>1, <3>1 DEF RoundDrawn, LineAt
    <3>3. ToSet(drawn) = randIndex .. randIndex' - 1
      <4>1. ASSUME NEW k \in randIndex .. randIndex' - 1
            PROVE  \E i \in 1 .. Len(drawn) : drawn[i] = k
        <5>1. /\ (k - randIndex) + 1 \in 1 .. Len(drawn)
              /\ randIndex + ((k - randIndex) + 1) - 1 = k
          BY <1>0, <2>0, <2>1
        <5> QED BY <3>2, <5>1
      <4>2. \A i \in 1 .. Len(drawn) : drawn[i] \in randIndex .. randIndex' - 1
        BY <1>0, <2>0, <2>1, <3>2
      <4> QED BY <1>0, <4>1, <4>2 DEF ToSet
    <3>4. PICK r \in 0 .. randIndex : earlier = r .. randIndex - 1
      BY <1>0, <1>1, <3>1 DEF EarlierBefore
    <3>5. earlier' = r .. randIndex' - 1
      BY <1>0, <2>0, <3>3, <3>4
    <3>6. r \in 0 .. randIndex'
      BY <1>0, <2>0, <2>1
    <3> QED BY <3>5, <3>6
  <2> QED BY <2>3, <2>4, <2>5 DEF EarlierBefore
<1>6. CASE UNCHANGED seedVars
  <2>1. UNCHANGED <<who, terminated, runs, randIndex, counter, drawn, earlier>>
    BY <1>6 DEF seedVars, seedInputs
  <2> QED BY <1>1, <2>1 DEF RoundBegun, RoundDrawn, EarlierBefore, LineAt
<1> QED BY <1>3, <1>4, <1>5, <1>6 DEF SeedsNext

\* Rounds in order draw different lines, unless the file ran out.
LEMMA DrawnApart ==
  ASSUME SeedsTypeOK, DrawnInOrder
  PROVE  IterationsDoNotOverlap
<1> SUFFICES ASSUME who = "MC", Len(drawn) + Cardinality(earlier) <= Lines
             PROVE  ToSet(drawn) \cap earlier = {}
  BY DEF IterationsDoNotOverlap
<1>0. /\ Len(drawn) \in Nat /\ DOMAIN drawn = 1 .. Len(drawn)
      /\ Lines \in Nat \ {0} /\ randIndex \in Nat
  BY LenProperties, SeedConstants DEF SeedsTypeOK
<1>1. RoundBegun /\ RoundDrawn /\ EarlierBefore
  BY DEF DrawnInOrder
<1>2. CASE drawn = << >>
  <2>1. Len(drawn) = 0
    BY <1>2
  <2> QED BY <1>0, <2>1 DEF ToSet
<1>3. CASE drawn # << >>
  <2>1. randIndex < Lines
    BY <1>0, <1>1, <1>3 DEF RoundBegun
  <2>2. PICK r \in 0 .. randIndex : earlier = r .. randIndex - 1
    BY <1>0, <1>1, <2>1 DEF EarlierBefore
  <2>3. Cardinality(earlier) = randIndex - r
    <3>1. r \in Int /\ randIndex - 1 \in Int
      BY <1>0
    <3>2. Cardinality(r .. randIndex - 1) =
            IF r > randIndex - 1 THEN 0 ELSE ((randIndex - 1) - r) + 1
      BY <3>1, FS_Interval
    <3> QED BY <1>0, <2>2, <3>2
  <2>4. Len(drawn) <= Lines /\ Len(drawn) <= Lines - (randIndex - r)
    BY <1>0, <2>3
  <2>5. \A i \in 1 .. Len(drawn) : drawn[i] = LineAt(i)
    BY <1>1, <2>1, <2>4 DEF RoundDrawn
  <2>6. \A i \in 1 .. Len(drawn) : LineAt(i) \notin r .. randIndex - 1
    BY <1>0, <2>4 DEF LineAt
  <2> QED BY <1>0, <2>2, <2>5, <2>6 DEF ToSet
<1> QED BY <1>2, <1>3

(* The types of the drawing of random numbers.                             *)
THEOREM SeedsTypeCorrect == SeedsSpec => []SeedsTypeOK
<1>1. SeedsInit => SeedsTypeOK
  BY SeedsTypedInit
<1>2. SeedsTypeOK /\ [SeedsNext]_seedVars => SeedsTypeOK'
  BY SeedsTypedStep
<1> QED BY <1>1, <1>2, PTL DEF SeedsSpec

\* The first iteration has drawn nothing yet.
LEMMA DrawnInOrderInit == ASSUME SeedsInit PROVE DrawnInOrder
<1> SUFFICES ASSUME who = "MC"
             PROVE  RoundBegun /\ RoundDrawn /\ EarlierBefore
  BY DEF DrawnInOrder
<1>1. /\ drawn = << >> /\ Len(drawn) = 0 /\ counter = randIndex
      /\ earlier = {} /\ randIndex \in Nat /\ Lines \in Nat \ {0}
      /\ runs \in Nat \ {0}
  BY SeedConstants DEF SeedsInit
<1>2. RoundBegun /\ RoundDrawn
  BY <1>1 DEF RoundBegun, RoundDrawn, LineAt
<1>3. earlier = randIndex .. randIndex - 1 /\ randIndex \in 0 .. randIndex
  BY <1>1
<1> QED BY <1>2, <1>3 DEF EarlierBefore

\* Every step keeps the lines in order, whoever draws.
LEMMA DrawnInOrderKept ==
  ASSUME SeedsTypeOK, DrawnInOrder, [SeedsNext]_seedVars
  PROVE  DrawnInOrder'
<1>1. [SeedsNext]_seedVars => who' = who
  BY DEF SeedsNext, Draw, Raise, NextRound, seedVars, seedInputs
<1> QED BY <1>1, DrawnInOrderStep DEF DrawnInOrder

(***************************************************************************)
(* No iteration of MC draws a line that an earlier one has drawn, as long  *)
(* as the file has enough of them, wherever it begins and wraps around     *)
(* (IterationsDoNotOverlap).                                               *)
(***************************************************************************)
THEOREM IterationsApart == SeedsSpec => []IterationsDoNotOverlap
<1>1. SeedsInit => DrawnInOrder
  BY DrawnInOrderInit
<1>2. SeedsTypeOK /\ DrawnInOrder /\ [SeedsNext]_seedVars => DrawnInOrder'
  BY DrawnInOrderKept
<1>3. SeedsTypeOK /\ DrawnInOrder => IterationsDoNotOverlap
  BY DrawnApart
<1> QED BY <1>1, <1>2, <1>3, SeedsTypeCorrect, PTL DEF SeedsSpec

-----------------------------------------------------------------------------
(***************************************************************************)
(* What an input may be on its way.                                        *)
(***************************************************************************)
Types == {"text", "int", "real", "bool", "null", "refused"}
FormValues == [is : Types, text : Texts, double : Int,
               store : Platforms \cup {None}]

FormTyped ==
  /\ kind \in Kinds /\ channel \in {"web", "rest"}
  /\ storage \in Platforms \cup {""}
  /\ at \in {"entered", "posted", "valid", "stored", "refused"}
  /\ entry \in FormValues /\ value \in FormValues
  /\ at = "entered" => value = entry
  /\ channel = "web" => entry.is = "text" /\ entry = Text(entry.text)

\* The texts that the conversions make are texts of the model.
LEMMA TextsTyped ==
  /\ {"", "{}", "7", "sub"} \subseteq Texts
  /\ IntTexts \subseteq Texts /\ FloatTexts \subseteq Texts
  /\ \A t \in Platforms \cup {""} : t \in Texts
  /\ \A t \in Texts : Strip(t) \in Texts
<1>1. /\ {"", "{}", "7", "sub"} \subseteq Texts
      /\ IntTexts \subseteq Texts /\ FloatTexts \subseteq Texts
      /\ \A t \in Platforms \cup {""} : t \in Texts
  BY DEF Texts, JsonTexts, FloatTexts, IntTexts
<1> QED BY <1>1 DEF Strip

\* Twice the number that each numeric text means.
LEMMA DoubleOfText ==
  /\ Double("0") = 0 /\ Double("7") = 14 /\ Double("007") = 14
  /\ Double(" 7 ") = 14 /\ Double("-3") = -6 /\ Double("2.5") = 5
BY DEF Double

\* int() of a number is an integer.
LEMMA TruncateTyped ==
  ASSUME NEW d \in Int PROVE Truncate(d) \in Int
<1>1. d \div 2 \in Int /\ (-d) \div 2 \in Int
  OBVIOUS
<1> QED BY <1>1 DEF Truncate

\* A value made of its four parts has its type.
LEMMA ValueTyped ==
  ASSUME NEW type \in Types, NEW t \in Texts, NEW d \in Int,
         NEW s \in Platforms \cup {None}
  PROVE  Value(type, t, d, s) \in FormValues
BY DEF Value, FormValues

\* So have the values of each kind.
LEMMA ConstructorsTyped ==
  /\ \A t \in Texts : Text(t) \in FormValues
  /\ \A n \in Int : Number(n) \in FormValues /\ Real(n) \in FormValues
  /\ \A b \in BOOLEAN : Truth(b) \in FormValues
  /\ Null \in FormValues /\ Refused \in FormValues
<1>1. /\ "" \in Texts /\ None \in Platforms \cup {None}
      /\ 0 \in Int /\ \A n \in Int : 2 * n \in Int
  <2>1. 0 \in Int /\ \A n \in Int : 2 * n \in Int
    OBVIOUS
  <2> QED BY <2>1, TextsTyped
<1>2. {"text", "int", "real", "bool", "null", "refused"} \subseteq Types
  BY DEF Types
<1>3. \A t \in Texts : Text(t) \in FormValues
  BY <1>1, <1>2, ValueTyped DEF Text
<1>4. ASSUME NEW n \in Int
      PROVE  Number(n) \in FormValues /\ Real(n) \in FormValues
  <2>1. 2 * n \in Int
    BY <1>1
  <2> QED BY <1>1, <1>2, <2>1, ValueTyped DEF Number, Real
<1>5. ASSUME NEW b \in BOOLEAN PROVE Truth(b) \in FormValues
  <2>1. (IF b THEN 2 ELSE 0) \in Int
    OBVIOUS
  <2> QED BY <1>1, <1>2, <2>1, ValueTyped DEF Truth
<1>6. Null \in FormValues /\ Refused \in FormValues
  BY <1>1, <1>2, ValueTyped DEF Null, Refused
<1> QED BY <1>3, <1>4, <1>5, <1>6

\* A text that int() reads means a number.
LEMMA IntTextDoubles ==
  ASSUME NEW t \in IntTexts PROVE Double(t) \in Int
<1>0. 0 \in Int /\ 14 \in Int /\ -6 \in Int
  OBVIOUS
<1>1. t \in {"0", "7", "007", " 7 ", "-3"}
  BY DEF IntTexts
<1>2. CASE t = "-3"
  BY <1>0, <1>1, <1>2, DoubleOfText
<1>3. CASE t # "-3"
  <2>1. Double(t) = 0 \/ Double(t) = 14
    BY <1>1, <1>3, DoubleOfText
  <2> QED BY <1>0, <2>1
<1> QED BY <1>2, <1>3

\* What int() returns is an integer.
LEMMA IntOfTyped ==
  ASSUME NEW v \in FormValues, CanInt(v)
  PROVE  IntOf(v) \in Int
<1>1. CASE v.is = "text"
  <2>1. v.text \in IntTexts
    BY <1>1 DEF CanInt
  <2>2. Double(v.text) \in Int
    BY <2>1, IntTextDoubles
  <2> QED BY <1>1, <2>2, TruncateTyped DEF IntOf
<1>2. CASE v.is # "text"
  <2>1. v.double \in Int
    BY DEF FormValues
  <2> QED BY <1>2, <2>1, TruncateTyped DEF IntOf
<1> QED BY <1>1, <1>2

\* Cleaning a text gives a value or a refusal.
LEMMA CleanedTyped ==
  ASSUME FormTyped, NEW text \in Texts
  PROVE  Cleaned(text) \in FormValues
<1>1. CASE kind \in {"natural", "whole"} /\ ClientAccepts(text) /\ text # ""
  <2>1. text \in IntTexts
    BY <1>1 DEF ClientAccepts
  <2>2. Truncate(Double(text)) \in Int
    BY <2>1, IntTextDoubles, TruncateTyped
  <2>3. Number(Truncate(Double(text))) \in FormValues
    BY <2>2, ConstructorsTyped
  <2> QED BY <1>1, <2>3 DEF Cleaned, NumericKinds
<1>2. CASE ~(kind \in {"natural", "whole"} /\ ClientAccepts(text) /\ text # "")
  <2>1. (text \notin {"", "0"}) \in BOOLEAN
    OBVIOUS
  <2> QED BY <1>2, <2>1, ConstructorsTyped DEF Cleaned, NumericKinds
<1> QED BY <1>1, <1>2

\* So does the validation of a location.
LEMMA LocatedTyped ==
  ASSUME FormTyped, NEW v \in FormValues
  PROVE  Located(v) \in FormValues
<1>1. v.text \in Texts /\ storage \in Texts
  BY TextsTyped DEF FormTyped, FormValues
<1>2. storage # "" => storage \in Platforms
  BY DEF FormTyped
<1>3. StorageInFront(v.text) \in FormValues
  <2>1. 0 \in Int
    OBVIOUS
  <2>2. "text" \in Types
    BY DEF Types
  <2>3. storage # "" => storage \in Platforms \cup {None}
    BY <1>2
  <2> QED BY <1>1, <2>1, <2>2, <2>3, ValueTyped, ConstructorsTyped
             DEF StorageInFront
<1> QED BY <1>1, <1>3, ConstructorsTyped DEF Located

\* So does the second table of validators.
LEMMA AcceptedTyped ==
  ASSUME FormTyped, NEW v \in FormValues, NEW known
  PROVE  Accepted(v, known) \in FormValues
<1>1. /\ Refused \in FormValues /\ Text("{}") \in FormValues
      /\ Number(0) \in FormValues
  <2>1. 0 \in Int
    OBVIOUS
  <2>2. "{}" \in Texts
    BY TextsTyped
  <2> QED BY <2>1, <2>2, ConstructorsTyped
<1>2. CanInt(v) => Number(IntOf(v)) \in FormValues
  BY IntOfTyped, ConstructorsTyped
<1>3. v.text \in Texts /\ Strip(v.text) \in Texts
  BY TextsTyped DEF FormValues
<1>4. [v EXCEPT !.text = IF v.store = None THEN Strip(v.text) ELSE v.text]
        \in FormValues
  BY <1>3 DEF FormValues
<1>5. kind \in Kinds
  BY DEF FormTyped
<1> QED BY <1>1, <1>2, <1>4, <1>5
           DEF Accepted, Natural, Kinds, NumericKinds, ChoiceKinds, TextKinds,
               PathKinds

\* So does reading a stored parameter.
LEMMA TypedValTyped ==
  ASSUME NEW v \in FormValues
  PROVE  TypedVal(v) \in FormValues
<1>1. CanInt(v) => Number(IntOf(v)) \in FormValues
  BY IntOfTyped, ConstructorsTyped
<1>2. Text("") \in FormValues
  BY ConstructorsTyped, TextsTyped
<1> QED BY <1>1, <1>2 DEF TypedVal

\* An input starts within its types.
LEMMA FormTypedInit == ASSUME FormsInit PROVE FormTyped
<1>1. {Text(t) : t \in Texts} \subseteq FormValues
  BY ConstructorsTyped
<1>2. RestValues \subseteq FormValues
  <2>1. \A n \in -1 .. 1 : n \in Int
    OBVIOUS
  <2>2. 5 \in Int /\ 1 \in Int /\ TRUE \in BOOLEAN /\ FALSE \in BOOLEAN
    OBVIOUS
  <2>3. /\ Real(5) \in FormValues /\ Real(1) \in FormValues
        /\ Null \in FormValues /\ Truth(TRUE) \in FormValues
        /\ Truth(FALSE) \in FormValues
        /\ {Number(n) : n \in -1 .. 1} \subseteq FormValues
    BY <2>1, <2>2, ConstructorsTyped
  <2> QED BY <1>1, <2>3 DEF RestValues
<1>3. entry \in FormValues
  BY <1>1, <1>2 DEF FormsInit
<1>4. channel = "web" => entry.is = "text" /\ entry = Text(entry.text)
  <2>1. \A t : Text(t).is = "text" /\ Text(t).text = t
    BY DEF Text, Value
  <2> QED BY <2>1 DEF FormsInit
<1> QED BY <1>3, <1>4 DEF FormsInit, FormTyped

\* Every step keeps the types of an input.
LEMMA FormTypedStep ==
  ASSUME FormTyped, [FormsNext]_formVars
  PROVE  FormTyped'
<1>0. entry.text \in Texts /\ Refused \in FormValues
  BY ConstructorsTyped DEF FormTyped, FormValues
<1>1. CASE Clean
  <2>1. Located(Cleaned(entry.text)) \in FormValues
    BY <1>0, CleanedTyped, LocatedTyped
  <2> QED BY <1>0, <1>1, <2>1 DEF Clean, Refuse, FormTyped
<1>2. CASE PostDirectly
  BY <1>2 DEF PostDirectly, FormTyped
<1>3. ASSUME NEW known \in SUBSET Platforms, Validate(known)
      PROVE  FormTyped'
  <2>1. Accepted(value, known) \in FormValues
    BY AcceptedTyped DEF FormTyped
  <2> QED BY <1>0, <1>3, <2>1 DEF Validate, Refuse, FormTyped
<1>4. CASE Store
  <2>1. TypedVal(value) \in FormValues
    BY TypedValTyped DEF FormTyped
  <2> QED BY <1>4, <2>1 DEF Store, FormTyped
<1>5. CASE UNCHANGED formVars
  BY <1>5 DEF formVars, FormTyped
<1> QED BY <1>1, <1>2, <1>3, <1>4, <1>5 DEF FormsNext

\* Hence an input has its type in every state.
LEMMA FormTypedInvariant == FormsSpec => []FormTyped
<1>1. FormsInit => FormTyped
  BY FormTypedInit
<1>2. FormTyped /\ [FormsNext]_formVars => FormTyped'
  BY FormTypedStep
<1> QED BY <1>1, <1>2, PTL DEF FormsSpec

-----------------------------------------------------------------------------
(***************************************************************************)
(* What is valid for a number can be read as one.                          *)
(***************************************************************************)
ReadableSoFar ==
  kind \in NumericKinds =>
    /\ at = "valid" => CanInt(value)
    /\ at = "stored" => value.is = "int"

\* What the constructors say of a number and of a text.
LEMMA NumbersAreReadable ==
  /\ \A n : CanInt(Number(n)) /\ Number(n).is = "int"
  /\ \A n : Number(n).double = 2 * n
  /\ \A t : Text(t).is = "text" /\ Text(t).text = t /\ Text(t).store = None
BY DEF Number, Text, Value, CanInt

\* A numeric input that was accepted can be read as a number.
LEMMA AcceptedReadable ==
  ASSUME kind \in NumericKinds, NEW v, NEW known,
         Accepted(v, known) # Refused
  PROVE  CanInt(Accepted(v, known))
<1>1. CASE kind = "natural"
  <2>1. Accepted(v, known) = Natural(v)
    BY <1>1 DEF Accepted
  <2> QED BY <2>1, NumbersAreReadable DEF Natural
<1>2. CASE kind = "whole"
  <2>1. Accepted(v, known) = IF CanInt(v) /\ IntOf(v) >= 1 THEN v ELSE Refused
    BY <1>2 DEF Accepted
  <2> QED BY <2>1
<1>3. CASE kind = "bool"
  <2>1. Accepted(v, known) = IF CanInt(v) THEN Number(IntOf(v)) ELSE Refused
    BY <1>3 DEF Accepted
  <2> QED BY <2>1, NumbersAreReadable
<1> QED BY <1>1, <1>2, <1>3 DEF NumericKinds

\* Every step keeps a numeric input readable.
LEMMA ReadableStep ==
  ASSUME ReadableSoFar, [FormsNext]_formVars
  PROVE  ReadableSoFar'
<1>1. CASE Clean \/ PostDirectly
  BY <1>1 DEF Clean, PostDirectly, Refuse, ReadableSoFar
<1>2. ASSUME NEW known \in SUBSET Platforms, Validate(known)
      PROVE  ReadableSoFar'
  BY <1>2, AcceptedReadable DEF Validate, Refuse, ReadableSoFar
<1>3. CASE Store
  <2>1. kind' = kind /\ at = "valid" /\ at' = "stored"
        /\ value' = TypedVal(value)
    BY <1>3 DEF Store
  <2>2. CanInt(value) => TypedVal(value).is = "int"
    BY NumbersAreReadable DEF TypedVal
  <2> QED BY <2>1, <2>2 DEF ReadableSoFar
<1>4. CASE UNCHANGED formVars
  BY <1>4 DEF formVars, ReadableSoFar
<1> QED BY <1>1, <1>2, <1>3, <1>4 DEF FormsNext

(***************************************************************************)
(* Whatever is posted for a numeric parameter and passes is stored as a    *)
(* number (NumericReadable), for any names of platforms.                   *)
(***************************************************************************)
THEOREM NumbersAlwaysReadable == FormsSpec => []NumericReadable
<1>1. FormsInit => ReadableSoFar
  BY DEF FormsInit, ReadableSoFar
<1>2. ReadableSoFar /\ [FormsNext]_formVars => ReadableSoFar'
  BY ReadableStep
<1>3. ReadableSoFar => NumericReadable
  BY DEF ReadableSoFar, NumericReadable
<1> QED BY <1>1, <1>2, <1>3, PTL DEF FormsSpec

-----------------------------------------------------------------------------
(***************************************************************************)
(* A number of a web form: what the stages of its way make of it.          *)
(***************************************************************************)
NumberKinds == {"natural", "whole", "float"}
TypedIn(t) == Number(Truncate(Double(t)))

Kept(t, v) ==
  IF t = "" THEN kind = "natural" /\ v = Number(0)
  ELSE \/ kind = "float" /\ t \in FloatTexts /\ v = Text(t)
       \/ kind # "float" /\ t \in IntTexts /\ v = TypedIn(t)

KeptSoFar ==
  channel = "web" /\ kind \in NumberKinds =>
    /\ at = "posted" => value = Cleaned(entry.text) /\ value # Refused
    /\ at = "valid" => Kept(entry.text, value)
    /\ NumbersKept

\* A text that int() reads means a whole number.
LEMMA WholeTexts ==
  ASSUME NEW t \in IntTexts PROVE 2 * Truncate(Double(t)) = Double(t)
<1>1. t \in {"0", "7", "007", " 7 ", "-3"}
  BY DEF IntTexts
<1>2. Double(t) = 0 \/ Double(t) = 14 \/ Double(t) = -6
  BY <1>1, DoubleOfText
<1>3. 2 * Truncate(0) = 0 /\ 2 * Truncate(14) = 14 /\ 2 * Truncate(-6) = -6
  BY DEF Truncate
<1> QED BY <1>2, <1>3

\* A number is stored as it is.
LEMMA NumberOfItself ==
  ASSUME NEW n \in Int PROVE TypedVal(Number(n)) = Number(n)
<1>1. Truncate(2 * n) = n
  BY DEF Truncate
<1>2. Number(n).is # "text"
  BY NumbersAreReadable
<1>3. IntOf(Number(n)) = n
  BY <1>1, <1>2, NumbersAreReadable DEF IntOf
<1> QED BY <1>3, NumbersAreReadable DEF TypedVal

\* An accepted number is the number that was meant.
LEMMA CleanedKept ==
  ASSUME kind \in NumberKinds, NEW t, Cleaned(t) # Refused, NEW known,
         Accepted(Cleaned(t), known) # Refused
  PROVE  Kept(t, Accepted(Cleaned(t), known))
<1>1. CASE kind = "float"
  <2>1. Cleaned(t) = Text(t) /\ t \in FloatTexts \cup {""}
    BY <1>1 DEF Cleaned, ClientAccepts, NumericKinds
  <2>2. Accepted(Text(t), known) =
          IF /\ Text(t) # Null
             /\ Text(t).is = "text" => Text(t).text \in FloatTexts
          THEN Text(t) ELSE Refused
    BY <1>1 DEF Accepted
  <2>3. "" \notin FloatTexts
    BY DEF FloatTexts, IntTexts
  <2> QED BY <1>1, <2>1, <2>2, <2>3, NumbersAreReadable DEF Kept
<1>2. CASE kind \in {"natural", "whole"}
  <2>1. t = "" \/ t \in IntTexts
    BY <1>2 DEF Cleaned, ClientAccepts
  <2>2. "" \notin IntTexts
    BY DEF IntTexts
  <2>3. Null.is = "null" /\ ~CanInt(Null) /\ Text("").is = "text"
    BY DEF Null, Value, CanInt, Text
  <2>4. CASE t = ""
    <3>1. Cleaned(t) = Null
      BY <1>2, <2>4 DEF Cleaned, NumericKinds
    <3>2. kind # "whole"
      BY <2>3, <3>1 DEF Accepted
    <3>3. Accepted(Null, known) = Number(0)
      BY <1>2, <3>2 DEF Accepted, Natural
    <3> QED BY <1>2, <2>4, <3>1, <3>2, <3>3 DEF Kept
  <2>5. CASE t # ""
    <3>1. Cleaned(t) = TypedIn(t)
      BY <1>2, <2>5 DEF Cleaned, NumericKinds, TypedIn
    <3>2. TypedIn(t) # Null /\ TypedIn(t) # Text("")
      BY <2>3, NumbersAreReadable DEF TypedIn
    <3>3. Accepted(TypedIn(t), known) \in {TypedIn(t), Refused}
      BY <1>2, <3>2 DEF Accepted, Natural
    <3> QED BY <1>2, <2>1, <2>5, <3>1, <3>3 DEF Kept
  <2> QED BY <2>4, <2>5
<1> QED BY <1>1, <1>2 DEF NumberKinds

\* Storing and reading a parameter keeps the number.
LEMMA StoredKept ==
  ASSUME kind \in NumberKinds, NEW t, NEW v, Kept(t, v)
  PROVE  IF t = "" THEN kind = "natural" /\ TypedVal(v) = Number(0)
         ELSE Meant(TypedVal(v)) = Double(t)
<1>1. CASE t = ""
  <2>1. TypedVal(Number(0)) = Number(0)
    BY NumberOfItself
  <2> QED BY <1>1, <2>1 DEF Kept
<1>2. CASE t # "" /\ t \in IntTexts
  <2>1. Truncate(Double(t)) \in Int
    BY <1>2, IntTextDoubles, TruncateTyped
  <2>2. CanInt(Text(t)) /\ IntOf(Text(t)) = Truncate(Double(t))
    BY <1>2, NumbersAreReadable DEF CanInt, IntOf
  <2>3. TypedVal(Text(t)) = TypedIn(t)
    BY <2>2 DEF TypedVal, TypedIn
  <2>4. TypedVal(TypedIn(t)) = TypedIn(t)
    BY <2>1, NumberOfItself DEF TypedIn
  <2>5. Meant(TypedIn(t)) = 2 * Truncate(Double(t))
    BY NumbersAreReadable DEF Meant, TypedIn
  <2> QED BY <1>2, <2>3, <2>4, <2>5, WholeTexts DEF Kept
<1>3. CASE t # "" /\ t \notin IntTexts
  <2>1. v = Text(t)
    BY <1>3 DEF Kept
  <2>2. TypedVal(Text(t)) = Text(t)
    BY <1>3, NumbersAreReadable DEF TypedVal, CanInt
  <2> QED BY <1>3, <2>1, <2>2, NumbersAreReadable DEF Meant
<1> QED BY <1>1, <1>2, <1>3

\* Every step keeps the number.
LEMMA KeptStep ==
  ASSUME FormTyped, KeptSoFar, [FormsNext]_formVars
  PROVE  KeptSoFar'
<1> SUFFICES ASSUME channel' = "web", kind' \in NumberKinds
             PROVE  /\ at' = "posted" => /\ value' = Cleaned(entry.text)'
                                         /\ value' # Refused
                    /\ at' = "valid" => Kept(entry.text, value)'
                    /\ NumbersKept'
  BY DEF KeptSoFar
<1>0. UNCHANGED <<kind, channel, entry>>
  BY DEF FormsNext, Clean, PostDirectly, Validate, Store, formVars
<1>1. /\ channel = "web" /\ kind \in NumberKinds
      /\ at = "posted" => value = Cleaned(entry.text) /\ value # Refused
      /\ at = "valid" => Kept(entry.text, value)
      /\ NumbersKept
  BY <1>0 DEF KeptSoFar
<1>2. /\ \A t : Cleaned(t)' = Cleaned(t)
      /\ Kept(entry.text, value)' = Kept(entry.text, value')
  BY <1>0 DEF Cleaned, ClientAccepts, Kept
<1>3. CASE Clean
  <2>1. kind \notin PathKinds
    BY <1>1 DEF NumberKinds, PathKinds
  <2>2. \A v : Located(v) = v
    BY <2>1 DEF Located
  <2>3. /\ at' # "stored" /\ at' # "valid"
        /\ at' = "posted" => value' = Cleaned(entry.text) /\ value' # Refused
    BY <1>3, <2>2 DEF Clean, Refuse
  <2> QED BY <1>0, <1>2, <2>3 DEF NumbersKept
<1>4. CASE PostDirectly
  BY <1>1, <1>4 DEF PostDirectly
<1>5. ASSUME NEW known \in SUBSET Platforms, Validate(known)
      PROVE  KeptSoFar'
  <2>1. /\ at = "posted" /\ at' \in {"refused", "valid"}
        /\ at' = "valid" => /\ value' = Accepted(value, known)
                            /\ Accepted(value, known) # Refused
    BY <1>5 DEF Validate, Refuse
  <2>2. at' = "valid" => Kept(entry.text, value')
    BY <1>1, <2>1, CleanedKept
  <2> QED BY <1>2, <2>1, <2>2 DEF KeptSoFar, NumbersKept
<1>6. CASE Store
  <2>1. at = "valid" /\ at' = "stored" /\ value' = TypedVal(value)
    BY <1>6 DEF Store
  <2>2. IF entry.text = "" THEN kind = "natural" /\ value' = Number(0)
        ELSE Meant(value') = Double(entry.text)
    BY <1>1, <2>1, StoredKept
  <2>3. Meant(entry) = Double(entry.text)
    BY <1>1 DEF FormTyped, Meant
  <2>4. NumbersKept'
    BY <1>0, <2>2, <2>3 DEF NumbersKept, Meant
  <2> QED BY <2>1, <2>4
<1>7. CASE UNCHANGED formVars
  <2>1. UNCHANGED <<at, value, entry>>
    BY <1>7 DEF formVars
  <2>2. NumbersKept'
    BY <1>0, <1>1, <2>1 DEF NumbersKept, Meant
  <2> QED BY <1>1, <1>2, <2>1, <2>2
<1> QED BY <1>3, <1>4, <1>5, <1>6, <1>7 DEF FormsNext, KeptSoFar

(***************************************************************************)
(* A number that both tables of validators let pass reaches the stages as  *)
(* the number that was typed (NumbersKept), for any names of platforms.    *)
(***************************************************************************)
THEOREM NumbersAlwaysKept == FormsSpec => []NumbersKept
<1>1. FormsInit => KeptSoFar
  BY DEF FormsInit, KeptSoFar, NumbersKept
<1>2. FormTyped /\ KeptSoFar /\ [FormsNext]_formVars => KeptSoFar'
  BY KeptStep
<1>3. KeptSoFar => NumbersKept
  BY DEF KeptSoFar, NumbersKept, NumberKinds
<1> QED BY <1>1, <1>2, <1>3, FormTypedInvariant, PTL DEF FormsSpec

-----------------------------------------------------------------------------

\* A set of natural numbers that is not empty has a least member.
LEMMA LeastNat ==
  ASSUME NEW T \in SUBSET Nat, T # {}
  PROVE  \E x \in T : \A y \in T : x <= y
<1>1. PICK x \in T : \A y \in T : ~(<<y, x>> \in OpToRel(<, Nat))
  BY NatLessThanWellFounded, WFMin
<1>2. \A y \in T : ~(y < x)
  BY <1>1 DEF OpToRel
<1>3. QED
  BY <1>2

-----------------------------------------------------------------------------

\* The constants of HRMC, as HrmcAssumption has them.
LEMMA HrmcConstants ==
  /\ Criteria \subseteq Nat /\ IsFiniteSet(Criteria)
  /\ Scale \in Nat \ {0} /\ Unset \notin Criteria
  /\ Fanouts # {} /\ Fanouts \subseteq Nat \ {0}
  /\ Thresholds # {} /\ Thresholds \subseteq Seq(Nat) \ {<< >>}
BY AlgorithmsAreSound DEF AlgorithmsAssumption, HrmcAssumption

(***************************************************************************)
(* How many directories there are: a finite number.                        *)
(***************************************************************************)
LEMMA CountTyped ==
  ASSUME NEW bag \in [Criteria -> Nat]
  PROVE  Count(bag) \in Nat
<1> DEFINE P(C) == UNION {{c} \X (1 .. bag[c]) : c \in C}
           T == {n \in Nat : \E C \in SUBSET Criteria :
                   Cardinality(C) = n /\ ~IsFiniteSet(P(C))}
<1>1. SUFFICES T = {}
  <2>1. Cardinality(Criteria) \in Nat
    BY HrmcConstants, FS_CardinalityType
  <2>2. IsFiniteSet(P(Criteria))
    BY <1>1, <2>1
  <2> QED BY <2>2, FS_CardinalityType DEF Count, Copies
<1>2. SUFFICES ASSUME T # {} PROVE FALSE
  OBVIOUS
<1>3. PICK n \in T : \A k \in T : n <= k
  <2>1. T \in SUBSET Nat
    OBVIOUS
  <2> HIDE DEF T
  <2> QED BY <1>2, <2>1, LeastNat
<1>4. PICK C \in SUBSET Criteria : Cardinality(C) = n /\ ~IsFiniteSet(P(C))
  BY <1>3
<1>5. IsFiniteSet(C)
  BY HrmcConstants, FS_Subset
<1>6. CASE C = {}
  <2>1. P(C) = {}
    BY <1>6
  <2> QED BY <1>4, <2>1, FS_EmptySet
<1>7. CASE C # {}
  <2>1. PICK c \in C : TRUE
    BY <1>7
  <2>2. /\ IsFiniteSet(C \ {c})
        /\ Cardinality(C \ {c}) = Cardinality(C) - 1
    BY <1>5, <2>1, FS_RemoveElement
  <2>3. n - 1 \in Nat /\ ~(n <= n - 1)
    <3>1. Cardinality(C \ {c}) \in Nat /\ n \in Nat
      BY <2>2, FS_CardinalityType
    <3> QED BY <1>4, <2>2, <3>1
  <2>4. IsFiniteSet(P(C \ {c}))
    <3>1. n - 1 \notin T
      BY <1>3, <2>3
    <3>2. C \ {c} \in SUBSET Criteria
      OBVIOUS
    <3>3. Cardinality(C \ {c}) = n - 1
      BY <1>4, <2>2
    <3> QED BY <2>3, <3>1, <3>2, <3>3
  <2>5. IsFiniteSet({c} \X (1 .. bag[c]))
    <3>1. bag[c] \in Int /\ 1 \in Int
      OBVIOUS
    <3> QED BY <3>1, FS_Interval, FS_Singleton, FS_Product
  <2>6. P(C) = P(C \ {c}) \cup ({c} \X (1 .. bag[c]))
    OBVIOUS
  <2> HIDE DEF P, T
  <2>7. IsFiniteSet(P(C \ {c}) \cup ({c} \X (1 .. bag[c])))
    BY <2>4, <2>5, FS_Union
  <2> QED BY <1>4, <2>6, <2>7
<1> QED BY <1>6, <1>7

-----------------------------------------------------------------------------
HrmcTyped ==
  /\ scheme \in {"MC", "MCSA"} /\ threshold \in Thresholds /\ fanout \in Fanouts
  /\ stage \in {"run", "transform", "converge", "done", "failed"}
  /\ id \in Nat /\ inputs \in Nat /\ left \in Nat
  /\ broken \in BOOLEAN
  /\ outputs \in [Criteria -> Nat] /\ kept \in [Criteria -> Nat]
  /\ \A c \in Criteria : kept[c] <= outputs[c]
  /\ settings \in [{WrittenName, ReadName} -> Criteria \cup {Unset}]

\* The bag without criteria.
LEMMA NothingTyped == Nothing \in [Criteria -> Nat]
BY DEF Nothing

\* The number of processes is a natural number.
LEMMA TotalProcsTyped ==
  ASSUME scheme \in {"MC", "MCSA"}, threshold \in Thresholds,
         fanout \in Fanouts, NEW i \in Nat, NEW dirs \in Nat
  PROVE  TotalProcs(i, dirs) \in Nat
<1>1. threshold[1] \in Nat
  <2>1. threshold \in Seq(Nat) /\ threshold # << >>
    BY HrmcConstants
  <2>2. Len(threshold) \in Nat /\ Len(threshold) # 0
    BY <2>1, LenProperties, EmptySeq
  <2>3. 1 \in 1 .. Len(threshold)
    BY <2>2
  <2> QED BY <2>1, <2>3, ElementOfSeq
<1>2. fanout \in Nat
  BY HrmcConstants
<1>3. Variations(i) \in Nat
  <2>1. CASE scheme = "MC"
    BY <1>2, <2>1 DEF Variations
  <2>2. CASE scheme = "MCSA" /\ i = 0
    <3>1. Variations(i) = 4 * threshold[1]
      BY <2>2 DEF Variations
    <3> QED BY <1>1, <3>1
  <2>3. CASE scheme = "MCSA" /\ i > 0
    <3>1. Variations(i) = 4
      BY <2>3 DEF Variations
    <3> QED BY <3>1
  <2> QED BY <2>1, <2>2, <2>3
<1> QED BY <1>3 DEF TotalProcs

(* The criterion that HRMCConverge finds is the smallest of those kept.    *)
LEMMA MinCritIsLeast ==
  ASSUME Audited # {}
  PROVE  MinCrit \in Audited /\ \A d \in Audited : MinCrit <= d
<1>1. Audited \in SUBSET Nat
  BY HrmcConstants DEF Audited
<1>2. \E c \in Audited : \A d \in Audited : c <= d
  BY <1>1, LeastNat
<1> QED BY <1>2 DEF MinCrit

\* The iterations start within their types.
LEMMA HrmcTypedInit == ASSUME HrmcInit PROVE HrmcTyped
<1>1. left \in Nat
  BY TotalProcsTyped DEF HrmcInit
<1>2. \A c \in Criteria : Nothing[c] <= Nothing[c]
  BY DEF Nothing
<1>3. settings \in [{WrittenName, ReadName} -> Criteria \cup {Unset}]
  BY DEF HrmcInit
<1> QED BY <1>1, <1>2, <1>3, NothingTyped DEF HrmcInit, HrmcTyped

\* Every step of an iteration keeps its types.
LEMMA HrmcTypedStep ==
  ASSUME HrmcTyped, [HrmcNext]_hrmcVars
  PROVE  HrmcTyped'
<1>1. CASE Run
  <2>1. /\ left' \in Nat /\ outputs' \in [Criteria -> Nat]
        /\ \A c \in Criteria : outputs[c] <= outputs'[c]
    <3>1. left' \in Nat
      BY <1>1 DEF Run, HrmcTyped
    <3>2. CASE \E c \in Criteria : outputs' = [outputs EXCEPT ![c] = @ + 1]
      BY <3>1, <3>2 DEF HrmcTyped
    <3>3. CASE outputs' = outputs
      BY <3>1, <3>3 DEF HrmcTyped
    <3> QED BY <1>1, <3>2, <3>3 DEF Run
  <2>2. \A c \in Criteria : kept'[c] <= outputs'[c]
    <3>1. kept' = kept
      BY <1>1 DEF Run
    <3> QED BY <2>1, <3>1 DEF HrmcTyped
  <2>3. broken' \in BOOLEAN
    BY <1>1 DEF Run, HrmcTyped
  <2> QED BY <1>1, <2>1, <2>2, <2>3 DEF Run, HrmcTyped, form
<1>2. CASE \/ Collect \/ TransformRaises \/ NoOutputFound \/ ConvergeRaises
  <2>1. UNCHANGED <<form, id, inputs, left, outputs, broken, kept, settings>>
    BY <1>2 DEF Collect, TransformRaises, NoOutputFound, ConvergeRaises, End
  <2>2. stage' \in {"transform", "failed", "converge"}
    BY <1>2 DEF Collect, TransformRaises, NoOutputFound, ConvergeRaises, End
  <2> QED BY <2>1, <2>2 DEF HrmcTyped, form
<1>3. CASE Transform
  <2>1. /\ kept' \in [Criteria -> 0 .. TotalPicks]
        /\ \A c \in Criteria : kept'[c] <= outputs[c]
    BY <1>3 DEF Transform, FirstPicks
  <2>2. kept' \in [Criteria -> Nat]
    BY <2>1
  <2> QED BY <1>3, <2>1, <2>2 DEF Transform, HrmcTyped, form
<1>4. CASE Converge
  <2>1. MinCrit \in Criteria
    BY <1>4, MinCritIsLeast DEF Converge, Audited
  <2>2. /\ settings' \in [{WrittenName, ReadName} -> Criteria \cup {Unset}]
        /\ id' \in Nat
    BY <1>4, <2>1 DEF Converge, HrmcTyped
  <2>3. CASE LastIteration \/ Converged
    <3>1. /\ stage' = "done"
          /\ UNCHANGED <<inputs, left, outputs, kept, form, broken>>
      BY <1>4, <2>3 DEF Converge
    <3> QED BY <2>2, <3>1 DEF HrmcTyped, form
  <2>4. CASE ~LastIteration /\ ~Converged
    <3>1. /\ stage' = "run" /\ UNCHANGED <<form, broken>>
          /\ inputs' = Count(kept) /\ left' = TotalProcs(id', inputs')
          /\ outputs' = Nothing /\ kept' = Nothing
      BY <1>4, <2>4 DEF Converge
    <3>2. inputs' \in Nat
      BY <3>1, CountTyped DEF HrmcTyped
    <3>3. left' \in Nat
      BY <2>2, <3>1, <3>2, TotalProcsTyped DEF HrmcTyped
    <3>4. \A c \in Criteria : Nothing[c] <= Nothing[c]
      BY DEF Nothing
    <3> QED BY <2>2, <3>1, <3>2, <3>3, <3>4, NothingTyped DEF HrmcTyped, form
  <2> QED BY <2>3, <2>4
<1>5. CASE UNCHANGED hrmcVars
  BY <1>5 DEF hrmcVars, form, HrmcTyped
<1> QED BY <1>1, <1>2, <1>3, <1>4, <1>5 DEF HrmcNext

-----------------------------------------------------------------------------
(***************************************************************************)
(* What was kept is the first part of the sorted outputs: no output that   *)
(* was left out comes before one that was kept.  Nothing is kept before.   *)
(***************************************************************************)
FirstAreKept ==
  /\ stage \in {"run", "transform"} => kept = Nothing
  /\ stage = "converge" /\ outputs # Nothing =>
       \A c, d \in Criteria :
         kept[c] > 0 /\ kept[d] < outputs[d] => Key(c) <= Key(d)

\* Sorting by whole units does not reverse two criteria.
LEMMA KeyMonotone ==
  ASSUME NEW c \in Criteria, NEW d \in Criteria, c <= d
  PROVE  Key(c) <= Key(d)
<1>0. c \in Nat /\ d \in Nat /\ Scale \in Nat \ {0}
  BY HrmcConstants
<1> DEFINE x == c \div Scale
           y == d \div Scale
<1>1. /\ x \in Int /\ Scale * x <= c
      /\ y \in Int /\ d < Scale * y + Scale
  BY <1>0
<1> HIDE DEF x, y
<1>2. ~(y < x)
  <2> SUFFICES ASSUME y < x PROVE FALSE
    OBVIOUS
  <2>1. Scale * (y + 1) <= Scale * x
    BY <1>0, <1>1
  <2> QED BY <1>0, <1>1, <2>1
<1> QED BY <1>1, <1>2 DEF Key, x, y

\* Comparing the kept criteria is comparing all outputs.
LEMMA BestIsConverged ==
  ASSUME HrmcTyped, FirstAreKept, Converge, NEW c \in Criteria, outputs[c] > 0
  PROVE  Key(MinCrit) <= Key(c)
<1>1. stage = "converge" /\ Audited # {}
  BY DEF Converge
<1>2. MinCrit \in Audited /\ \A d \in Audited : MinCrit <= d
  BY <1>1, MinCritIsLeast
<1>3. MinCrit \in Criteria /\ kept[MinCrit] > 0
  BY <1>2 DEF Audited
<1>4. CASE kept[c] > 0
  <2>1. MinCrit <= c
    BY <1>2, <1>4 DEF Audited
  <2> QED BY <1>3, <2>1, KeyMonotone
<1>5. CASE ~(kept[c] > 0)
  <2>1. kept[c] < outputs[c]
    BY <1>5 DEF HrmcTyped
  <2>2. outputs # Nothing
    BY DEF Nothing
  <2> QED BY <1>1, <1>3, <2>1, <2>2 DEF FirstAreKept
<1> QED BY <1>4, <1>5

\* Every step keeps the best of the outputs in what is kept.
LEMMA FirstAreKeptStep ==
  ASSUME HrmcTyped, FirstAreKept, CriterionIsBest, [HrmcNext]_hrmcVars
  PROVE  FirstAreKept' /\ CriterionIsBest'
<1>0. \A c : Key(c)' = Key(c)
  BY DEF Key
<1>1. CASE Run
  BY <1>1 DEF Run, FirstAreKept, CriterionIsBest
<1>2. CASE \/ Collect \/ TransformRaises \/ NoOutputFound \/ ConvergeRaises
  BY <1>2 DEF Collect, TransformRaises, NoOutputFound, ConvergeRaises, End,
              FirstAreKept, CriterionIsBest
<1>3. CASE Transform
  <2>1. \A c, d \in Criteria :
          kept'[c] > 0 /\ kept'[d] < outputs[d] => Key(c) <= Key(d)
    BY <1>3 DEF Transform, FirstPicks
  <2> QED BY <1>3, <2>1 DEF Transform, FirstAreKept, CriterionIsBest
<1>4. CASE Converge
  <2>1. stage' = "done" => outputs' = outputs
    BY <1>4 DEF Converge
  <2>2. settings'[WrittenName] = MinCrit
    BY <1>4 DEF Converge, HrmcTyped
  <2>3. CriterionIsBest'
    BY <1>4, <2>1, <2>2, BestIsConverged DEF CriterionIsBest
  <2>4. FirstAreKept'
    BY <1>4 DEF Converge, FirstAreKept
  <2> QED BY <2>3, <2>4
<1>5. CASE UNCHANGED hrmcVars
  BY <1>5 DEF hrmcVars, form, FirstAreKept, CriterionIsBest
<1> QED BY <1>1, <1>2, <1>3, <1>4, <1>5 DEF HrmcNext

\* Hence HRMC has its types in every state.
LEMMA HrmcTypedInvariant == HrmcSpec => []HrmcTyped
<1>1. HrmcInit => HrmcTyped
  BY HrmcTypedInit
<1>2. HrmcTyped /\ [HrmcNext]_hrmcVars => HrmcTyped'
  BY HrmcTypedStep
<1> QED BY <1>1, <1>2, PTL DEF HrmcSpec

(***************************************************************************)
(* The criterion that a job reports is that of the best of the outputs of  *)
(* its last iteration (CriterionIsBest), for any criteria, thresholds and  *)
(* numbers of iterations.                                                  *)
(***************************************************************************)
THEOREM CriterionAlwaysBest == HrmcSpec => []CriterionIsBest
<1>1. HrmcInit => FirstAreKept /\ CriterionIsBest
  BY DEF HrmcInit, FirstAreKept, CriterionIsBest
<1>2. HrmcTyped /\ FirstAreKept /\ CriterionIsBest /\ [HrmcNext]_hrmcVars
      => (FirstAreKept /\ CriterionIsBest)'
  BY FirstAreKeptStep
<1> QED BY <1>1, <1>2, HrmcTypedInvariant, PTL DEF HrmcSpec

-----------------------------------------------------------------------------
(***************************************************************************)
(* The bounds of the loops of the cloud connection.                        *)
(***************************************************************************)
CallsBounded ==
  /\ call \in {"idle", "starting", "connecting", "created", "requesting",
               "terminating", "over", "failed"}
  /\ retries \in 0 .. MaxRetries + 1
  /\ IsInjective(listed) /\ IsInjective(turn)
  /\ place \in 1 .. Cardinality(Machines) + 1

(* A list without duplicates is no longer than there are machines.         *)
LEMMA ListIsShort ==
  ASSUME CloudCallsAssumption, NEW s \in Seq(Machines), IsInjective(s)
  PROVE  /\ Len(s) \in Nat /\ Cardinality(Machines) \in Nat
         /\ Len(s) <= Cardinality(Machines)
<1>1. Len(s) \in Nat /\ s \in [1 .. Len(s) -> Machines]
  BY LenProperties
<1>2. s \in Injection(1 .. Len(s), Machines)
  BY <1>1 DEF Injection
<1>3. IsFiniteSet(Machines) /\ Cardinality(Machines) \in Nat
  BY FS_CardinalityType DEF CloudCallsAssumption
<1>4. Cardinality(1 .. Len(s)) <= Cardinality(Machines)
  BY <1>2, <1>3, FS_Injection
<1>5. Cardinality(1 .. Len(s)) = IF 1 > Len(s) THEN 0 ELSE (Len(s) - 1) + 1
  <2>1. 1 \in Int /\ Len(s) \in Int
    BY <1>1
  <2> QED BY <2>1, FS_Interval
<1> QED BY <1>1, <1>3, <1>4, <1>5

\* Every step keeps the bounds of the loops.
LEMMA CallsBoundedStep ==
  ASSUME CloudCallsAssumption, ListsTyped, PassIsListed, CallsBounded,
         [Next]_vars
  PROVE  CallsBounded'
<1>0. /\ MaxRetries \in Nat /\ Cardinality(Machines) \in Nat
      /\ retries \in Nat /\ place \in Nat
  BY FS_CardinalityType DEF CloudCallsAssumption, CallsBounded
<1>1. ASSUME NEW k \in 1 .. Cardinality(Machines),
             NEW order \in [1 .. k -> Machines], Reserve(order)
      PROVE  CallsBounded'
  BY <1>1 DEF Reserve, CallsBounded
<1>2. CASE LookIfExists \/ LookIfRunning
  <2>1. /\ call = "starting" /\ turn # <<>>
        /\ UNCHANGED <<call, place, retries>>
        /\ listed' = listed \/ listed' = Without(Head(turn))
        /\ turn' \in {turn, <<>>, Tail(turn)}
    BY <1>2, LookFacts
  <2>2. IsInjective(Without(Head(turn))) /\ IsInjective(Tail(turn))
    BY <2>1, WithoutHead
  <2>3. IsInjective(<<>>)
    BY DEF IsInjective
  <2> QED BY <2>1, <2>2, <2>3 DEF CallsBounded
<1>3. CASE NextPass
  <2>1. /\ UNCHANGED <<listed, place>>
        /\ turn' = listed \/ turn' = turn
        /\ call' = call \/ call' = "connecting"
    BY <1>3 DEF NextPass
  <2>2. \/ retries' = retries
        \/ ~(retries > MaxRetries) /\ retries' = retries + 1
    BY <1>3 DEF NextPass
  <2>3. retries' \in 0 .. MaxRetries + 1
    BY <1>0, <2>2 DEF CallsBounded
  <2> QED BY <2>1, <2>3 DEF CallsBounded
<1>4. ASSUME NEW answering \in SUBSET running, Connect(answering)
      PROVE  CallsBounded'
  BY <1>4 DEF Connect, loopVars, CallsBounded
<1>5. ASSUME NEW set \in SUBSET ready,
             NEW order \in [1 .. Cardinality(set) -> Machines],
             RequestTermination(set, order)
      PROVE  CallsBounded'
  <2>1. place' = 1 /\ 1 \in 1 .. Cardinality(Machines) + 1
    BY <1>0, <1>5 DEF RequestTermination
  <2> QED BY <1>5, <2>1 DEF RequestTermination, CallsBounded
<1>6. CASE CheckTerminated
  <2>1. /\ listed \in Seq(Machines) /\ place <= Len(listed)
        /\ place' = place + 1 /\ UNCHANGED <<call, turn, retries>>
        /\ listed' = listed \/ listed' = RemoveAt(listed, place)
    BY <1>6 DEF CheckTerminated, ListsTyped
  <2>2. /\ Len(listed) \in Nat /\ Len(listed) <= Cardinality(Machines)
    BY <2>1, ListIsShort DEF CallsBounded
  <2>3. place \in 1 .. Len(listed)
    BY <2>1, <2>2 DEF CallsBounded
  <2>4. IsInjective(RemoveAt(listed, place))
    BY <2>1, <2>3, RemovedSet DEF CallsBounded
  <2>5. place' \in 1 .. Cardinality(Machines) + 1
    BY <1>0, <2>1, <2>2, <2>3
  <2> QED BY <2>1, <2>4, <2>5 DEF CallsBounded
<1>7. CASE LoopAgain
  <2>1. 1 \in 1 .. Cardinality(Machines) + 1
    BY <1>0
  <2> QED BY <1>7, <2>1 DEF LoopAgain, CallsBounded
<1>8. CASE NoReservation \/ Destroy \/ UpdateRaises
  BY <1>8 DEF NoReservation, Destroy, UpdateRaises, loopVars, CallsBounded
<1>9. ASSUME NEW v \in Machines, Cloud(v) PROVE CallsBounded'
  BY <1>9 DEF Cloud, Settles, Reappears, Terminates, loopVars, CallsBounded
<1>10. CASE UNCHANGED vars
  BY <1>10 DEF vars, loopVars, CallsBounded
<1> QED BY <1>1, <1>2, <1>3, <1>4, <1>5, <1>6, <1>7, <1>8, <1>9, <1>10
           DEF Next, Code

\* The calls start, and end, within their types.
LEMMA CallsInit ==
  ASSUME Init \/ CallsEnded
  PROVE  ListInv /\ CallsBounded
<1>1. /\ cloud = [v \in Machines |-> "none"]
      /\ listed = <<>> /\ turn = <<>> /\ place = 1 /\ retries = 0
      /\ returned = {} /\ seen = "none"
      /\ running = {} /\ ready = {} /\ accepted = {}
      /\ call \in {"idle", "over"}
  BY DEF Init, CallsEnded
<1>2. ListsTyped
  BY <1>1, EmptySeq DEF ListsTyped, States
<1>3. /\ PassIsListed /\ StartedIsListed /\ AcceptedIsListed
      /\ NoneReserved /\ RunningRan /\ NoRunningVmForgotten /\ DestroyWaits
  BY <1>1 DEF PassIsListed, StartedIsListed, AcceptedIsListed,
              NoneReserved, RunningRan, NoRunningVmForgotten, DestroyWaits
<1>4. /\ MaxRetries \in Nat /\ Cardinality(Machines) \in Nat
  BY AlgorithmsAreSound, FS_CardinalityType
     DEF AlgorithmsAssumption, CloudCallsAssumption
<1>5. /\ retries \in 0 .. MaxRetries + 1
      /\ place \in 1 .. Cardinality(Machines) + 1
  BY <1>1, <1>4
<1> QED BY <1>1, <1>2, <1>3, <1>5 DEF ListInv, CallsBounded, IsInjective

-----------------------------------------------------------------------------
(***************************************************************************)
(* The composition: the parts that have ended have their types too.        *)
(***************************************************************************)
AlgorithmsTyped ==
  /\ RobinTyped
  /\ SeedsTypeOK
  /\ FormTyped
  /\ HrmcTyped
  /\ ListInv /\ CallsBounded

\* The parts that have ended are within their types.
LEMMA EndedTyped ==
  /\ RobinEnded => RobinTyped
  /\ SeedsEnded => SeedsTypeOK
  /\ FormEnded => FormTyped
  /\ HrmcEnded => HrmcTyped
<1>1. ASSUME RobinEnded PROVE RobinTyped
  <2>1. MaxNodes \in Nat \ {0} /\ MaxProcs \in Nat \ {0} /\ MaxFirst \in Nat
    BY AlgorithmsAreSound DEF AlgorithmsAssumption, BoundsAssumption
  <2>2. /\ nodes = 1 /\ procs = 1 /\ first = 0 /\ cur = 2 /\ remaining = 0
        /\ index = 1 /\ node = <<1>>
    BY <1>1 DEF RobinEnded
  <2>3. Used = 1
    BY <2>2 DEF Used, UsedNodes
  <2>4. node \in [first + 1 .. index -> 1 .. nodes]
    <3>1. first + 1 .. index = 1 .. 1 /\ 1 \in 1 .. nodes
      BY <2>2
    <3> QED BY <2>2, <3>1
  <2> QED BY <2>1, <2>2, <2>3, <2>4 DEF RobinTyped
<1>2. ASSUME SeedsEnded PROVE SeedsTypeOK
  <2>1. drawn \in Seq(0 .. Lines - 1)
    <3>1. 0 \in 0 .. Lines - 1 /\ drawn = <<0>>
      BY <1>2, SeedConstants DEF SeedsEnded
    <3> QED BY <3>1
  <2>2. runs \in 1 .. MaxN /\ round \in 0 .. MaxRounds
    BY <1>2, SeedConstants DEF SeedsEnded
  <2>3. randIndex \in Nat /\ counter \in Nat /\ seeds \subseteq Nat
    BY <1>2 DEF SeedsEnded
  <2> QED BY <1>2, <2>1, <2>2, <2>3 DEF SeedsEnded, SeedsTypeOK
<1>3. ASSUME FormEnded PROVE FormTyped
  BY <1>3, ConstructorsTyped
     DEF FormEnded, FormTyped, Kinds, TextKinds, PathKinds
<1>4. ASSUME HrmcEnded PROVE HrmcTyped
  <2>1. threshold \in Thresholds /\ fanout \in Fanouts
    BY <1>4, HrmcConstants DEF HrmcEnded
  <2>2. id \in Nat /\ inputs \in Nat /\ left \in Nat
    BY <1>4 DEF HrmcEnded
  <2>3. \A c \in Criteria : Nothing[c] <= Nothing[c]
    BY DEF Nothing
  <2> QED BY <1>4, <2>1, <2>2, <2>3, NothingTyped DEF HrmcEnded, HrmcTyped
<1> QED BY <1>1, <1>2, <1>3, <1>4

\* Every step of one part keeps the types of all.
LEMMA AlgorithmsStep ==
  ASSUME AlgorithmsTyped, [AlgorithmsNext]_algorithmVars
  PROVE  AlgorithmsTyped'
<1>1. /\ [RobinNext]_robinVars /\ [SeedsNext]_seedVars /\ [FormsNext]_formVars
      /\ [HrmcNext]_hrmcVars /\ [Next]_vars
  BY DEF AlgorithmsNext, algorithmVars
<1>2. CloudCallsAssumption
  BY AlgorithmsAreSound DEF AlgorithmsAssumption
<1>3. RobinTyped'
  BY <1>1, RobinTypedStep DEF AlgorithmsTyped
<1>4. SeedsTypeOK'
  BY <1>1, SeedsTypedStep DEF AlgorithmsTyped
<1>5. FormTyped'
  BY <1>1, FormTypedStep DEF AlgorithmsTyped
<1>6. HrmcTyped'
  BY <1>1, HrmcTypedStep DEF AlgorithmsTyped
<1>7. ListInv'
  BY <1>1, <1>2, ListInvStep DEF AlgorithmsTyped
<1>8. CallsBounded'
  BY <1>1, <1>2, CallsBoundedStep DEF AlgorithmsTyped, ListInv
<1> QED BY <1>3, <1>4, <1>5, <1>6, <1>7, <1>8 DEF AlgorithmsTyped

(***************************************************************************)
(* The variables of every part keep their types (AlgorithmsTypeOK): above  *)
(* all, an index into a list that is changed while it is gone through, the *)
(* numbers of processes and of directories that HRMC multiplies, and the   *)
(* remainder that is counted down never leave their ranges.                *)
(***************************************************************************)
THEOREM AlgorithmsTypeCorrect == AlgorithmsSpec => []AlgorithmsTypeOK
<1>1. AlgorithmsInit => AlgorithmsTyped
  BY RobinTypedInit, SeedsTypedInit, FormTypedInit, HrmcTypedInit, CallsInit,
     EndedTyped DEF AlgorithmsInit, AlgorithmsTyped
<1>2. AlgorithmsTyped /\ [AlgorithmsNext]_algorithmVars => AlgorithmsTyped'
  BY AlgorithmsStep
<1>3. AlgorithmsTyped => AlgorithmsTypeOK
  <2> SUFFICES ASSUME AlgorithmsTyped PROVE AlgorithmsTypeOK
    OBVIOUS
  <2>1. RobinTypeOK
    <3>1. nodes \in Nat \ {0} /\ procs \in Nat \ {0}
      BY DEF AlgorithmsTyped, RobinTyped
    <3>2. cur \in 1 .. nodes + 1
      BY <3>1, UsedTyped DEF AlgorithmsTyped, RobinTyped
    <3> QED BY <3>2 DEF AlgorithmsTyped, RobinTyped, RobinTypeOK
  <2>2. SeedsTypeOK
    BY DEF AlgorithmsTyped
  <2>3. FormsTypeOK
    <3>1. \A v \in {entry, value} :
            /\ v.is \in Types /\ v.double \in Int
            /\ v.text \in Texts /\ v.store \in Platforms \cup {None}
      BY DEF AlgorithmsTyped, FormTyped, FormValues
    <3> QED BY <3>1 DEF AlgorithmsTyped, FormTyped, FormsTypeOK, Types
  <2>4. HrmcTypeOK
    BY DEF AlgorithmsTyped, HrmcTyped, HrmcTypeOK
  <2>5. TypeOK
    <3>1. ToSet(listed) \subseteq Machines /\ ToSet(turn) \subseteq Machines
      BY LenProperties, ElementOfSeq DEF AlgorithmsTyped, ListInv, ListsTyped,
         ToSet
    <3> QED BY <3>1 DEF AlgorithmsTyped, ListInv, ListsTyped, CallsBounded,
                        TypeOK, States
  <2> QED BY <2>1, <2>2, <2>3, <2>4, <2>5 DEF AlgorithmsTypeOK
<1> QED BY <1>1, <1>2, <1>3, PTL DEF AlgorithmsSpec

-----------------------------------------------------------------------------
(***************************************************************************)
(* The properties of every part hold of the composition.                   *)
(***************************************************************************)
AlgorithmsInv ==
  /\ AlgorithmsTyped
  /\ PlaceOfLoop /\ LoopIsPlacement
  /\ DrawnInOrder
  /\ ReadableSoFar /\ KeptSoFar
  /\ FirstAreKept /\ CriterionIsBest

\* The loop over one process on one machine has placed it.
LEMMA EndedPlaced ==
  ASSUME RobinEnded
  PROVE  PlaceOfLoop /\ LoopIsPlacement
<1>1. /\ nodes = 1 /\ procs = 1 /\ first = 0 /\ cur = 2 /\ remaining = 0
      /\ index = 1 /\ node = <<1>>
  BY DEF RobinEnded
<1>2. Used = 1 /\ RobinTyped
  BY <1>1, EndedTyped DEF Used, UsedNodes
<1>3. procs \div Used = 1 /\ Longer = 0
  BY <1>1, <1>2 DEF Longer
<1>4. Placed(0) = 0
  BY <1>3 DEF Placed
<1>5. /\ Placed(0 + 1) = Placed(0) + (IF 0 < Longer THEN procs \div Used + 1
                                                    ELSE procs \div Used)
      /\ \A i \in Placed(0) + 1 .. Placed(0 + 1) :
           NodeOf(i, procs, Used) = 0 + 1
  BY <1>2, BlockOfMachine
<1>6. Placed(1) = 1 /\ NodeOf(1, procs, Used) = 1
  BY <1>3, <1>4, <1>5
<1> QED BY <1>1, <1>3, <1>6 DEF PlaceOfLoop, LoopIsPlacement

\* The other parts that have ended are within their invariants too.
LEMMA EndedInv ==
  /\ SeedsEnded => DrawnInOrder
  /\ FormEnded => ReadableSoFar /\ KeptSoFar
  /\ HrmcEnded => FirstAreKept /\ CriterionIsBest
<1>1. SeedsEnded => DrawnInOrder
  BY DEF SeedsEnded, DrawnInOrder
<1>2. FormEnded => ReadableSoFar /\ KeptSoFar
  BY DEF FormEnded, ReadableSoFar, KeptSoFar
<1>3. HrmcEnded => FirstAreKept /\ CriterionIsBest
  BY DEF HrmcEnded, FirstAreKept, CriterionIsBest
<1> QED BY <1>1, <1>2, <1>3

(***************************************************************************)
(* Whichever of the algorithms moves, the properties of all of them hold:  *)
(* the assignment is the round robin, iterations draw different lines,     *)
(* numbers stay readable and what was typed, the stored criterion is the   *)
(* best, no running machine is forgotten and destroy waits.                *)
(***************************************************************************)
THEOREM AlgorithmsCorrect ==
  AlgorithmsSpec => [](/\ LoopIsPlacement /\ IterationsDoNotOverlap
                       /\ NumericReadable /\ NumbersKept /\ CriterionIsBest
                       /\ NoRunningVmForgotten /\ DestroyWaits)
<1>1. AlgorithmsInit => AlgorithmsInv
  <2>1. AlgorithmsInit => AlgorithmsTyped
    BY RobinTypedInit, SeedsTypedInit, FormTypedInit, HrmcTypedInit,
       CallsInit, EndedTyped DEF AlgorithmsInit, AlgorithmsTyped
  <2>2. RobinInit \/ RobinEnded => PlaceOfLoop /\ LoopIsPlacement
    BY PlacedInit, EndedPlaced
  <2>3. SeedsInit \/ SeedsEnded => DrawnInOrder
    BY DrawnInOrderInit, EndedInv
  <2>4. FormsInit \/ FormEnded => ReadableSoFar /\ KeptSoFar
    BY EndedInv DEF FormsInit, ReadableSoFar, KeptSoFar, NumbersKept
  <2>5. HrmcInit \/ HrmcEnded => FirstAreKept /\ CriterionIsBest
    BY EndedInv DEF HrmcInit, FirstAreKept, CriterionIsBest
  <2> QED BY <2>1, <2>2, <2>3, <2>4, <2>5 DEF AlgorithmsInit, AlgorithmsInv
<1>2. AlgorithmsInv /\ [AlgorithmsNext]_algorithmVars => AlgorithmsInv'
  <2> SUFFICES ASSUME AlgorithmsInv, [AlgorithmsNext]_algorithmVars
               PROVE  AlgorithmsInv'
    OBVIOUS
  <2>1. /\ [RobinNext]_robinVars /\ [SeedsNext]_seedVars
        /\ [FormsNext]_formVars /\ [HrmcNext]_hrmcVars
    BY DEF AlgorithmsNext, algorithmVars
  <2>2. /\ RobinTyped /\ SeedsTypeOK /\ FormTyped /\ HrmcTyped
    BY DEF AlgorithmsInv, AlgorithmsTyped
  <2>3. AlgorithmsTyped'
    BY AlgorithmsStep DEF AlgorithmsInv
  <2>4. (PlaceOfLoop /\ LoopIsPlacement)'
    BY <2>1, <2>2, PlacementStep DEF AlgorithmsInv
  <2>5. DrawnInOrder'
    BY <2>1, <2>2, DrawnInOrderKept DEF AlgorithmsInv
  <2>6. (ReadableSoFar /\ KeptSoFar)'
    BY <2>1, <2>2, ReadableStep, KeptStep DEF AlgorithmsInv
  <2>7. (FirstAreKept /\ CriterionIsBest)'
    BY <2>1, <2>2, FirstAreKeptStep DEF AlgorithmsInv
  <2> QED BY <2>3, <2>4, <2>5, <2>6, <2>7 DEF AlgorithmsInv
<1>3. AlgorithmsInv => /\ LoopIsPlacement /\ IterationsDoNotOverlap
                       /\ NumericReadable /\ NumbersKept /\ CriterionIsBest
                       /\ NoRunningVmForgotten /\ DestroyWaits
  <2>1. AlgorithmsInv => NumericReadable
    BY DEF AlgorithmsInv, ReadableSoFar, NumericReadable
  <2>2. AlgorithmsInv => NumbersKept
    BY DEF AlgorithmsInv, KeptSoFar, NumbersKept, NumberKinds
  <2>3. AlgorithmsInv => IterationsDoNotOverlap
    BY DrawnApart DEF AlgorithmsInv, AlgorithmsTyped
  <2> QED BY <2>1, <2>2, <2>3 DEF AlgorithmsInv, AlgorithmsTyped, ListInv
<1> QED BY <1>1, <1>2, <1>3, PTL DEF AlgorithmsSpec

=============================================================================
