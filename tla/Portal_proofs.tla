--------------------------- MODULE Portal_proofs ---------------------------
(***************************************************************************)
(* Proofs about what the portal stores: messages, presets and run          *)
(* settings, for any workers, requests, names, schemas and stages; that    *)
(* each part of the portal keeps its types.                                *)
(***************************************************************************)
EXTENDS Portal, Platforms_proofs, FiniteSetTheorems, WellFoundedInduction

-----------------------------------------------------------------------------
(* Messages of a job.                                                      *)
Inserting == {w \in Workers : worker[w].at = "insert"}

(***************************************************************************)
(* What workers and the view have found is still there.                    *)
(***************************************************************************)
FoundIsStored ==
  /\ \A w \in Workers :
       /\ worker[w].at # "idle" => worker[w].message \in Messages
       /\ worker[w].at = "update" => worker[w].row \in Stored
  /\ view.at = "save" => view.row \in Stored

MessagesTyped == MessagesTypeOK /\ FoundIsStored

\* The constants of the messages, as JobMessagesAssumption has them.
LEMMA MessageConstants ==
  ASSUME JobMessagesAssumption
  PROVE  /\ NoMessage \notin Messages
         /\ Started \in Messages
         /\ IsFiniteSet(RowIds)
<1>1. IsFiniteSet(1 .. MaxMessages + 1)
  BY FS_Interval DEF JobMessagesAssumption
<1>2. QED
  BY <1>1 DEF JobMessagesAssumption, Messages, Started, RowIds

\* Which rows there are after one was written.
LEMMA RowWritten ==
  ASSUME JobMessagesAssumption, MessagesTypeOK,
         NEW i \in RowIds, NEW m \in Messages,
         jobRows' = [jobRows EXCEPT ![i] = m]
  PROVE  /\ jobRows' \in [RowIds -> Messages \cup {NoMessage}]
         /\ Stored' = Stored \cup {i}
BY MessageConstants DEF MessagesTypeOK, Stored, Free

\* A new row is a row that was free.
LEMMA NewRowIsFree ==
  ASSUME Free # {}
  PROVE  NewRow \in Free /\ NewRow \in RowIds
BY DEF NewRow, Free

-----------------------------------------------------------------------------

\* Every step of a worker keeps the types.
LEMMA MessagesTypedStep ==
  ASSUME JobMessagesAssumption, MessagesTyped, [MessagesNext]_messageVars
  PROVE  MessagesTyped'
<1> USE DEF MessagesTyped
<1>1. CASE AddMessage
  <2>1. sent + 1 \in Messages /\ sent + 1 \in 1 .. MaxMessages
    BY <1>1 DEF AddMessage, MessagesTypeOK, Messages, JobMessagesAssumption
  <2>2. QED
    BY <1>1, <2>1 DEF AddMessage, MessagesTypeOK, FoundIsStored, Stored, Free
<1>2. ASSUME NEW w \in Workers, NEW m \in queued, SelectNothing(w, m)
      PROVE  MessagesTyped'
  <2>1. m \in Messages
    BY DEF MessagesTypeOK, Messages, JobMessagesAssumption
  <2>2. worker' = [worker EXCEPT ![w] = [at |-> "insert", row |-> 0,
                                         message |-> m]]
        /\ queued' \subseteq queued /\ UNCHANGED <<sent, jobRows, view>>
    BY <1>2 DEF SelectNothing
  <2>3. QED
    BY <2>1, <2>2 DEF MessagesTypeOK, FoundIsStored, Stored, Free
<1>3. ASSUME NEW w \in Workers, NEW m \in queued, NEW i \in Stored,
             SelectRow(w, m, i)
      PROVE  MessagesTyped'
  <2>1. m \in Messages /\ i \in RowIds
    BY DEF MessagesTypeOK, Messages, Stored, JobMessagesAssumption
  <2>2. worker' = [worker EXCEPT ![w] = [at |-> "update", row |-> i,
                                         message |-> m]]
        /\ queued' \subseteq queued /\ UNCHANGED <<sent, jobRows, view>>
    BY <1>3 DEF SelectRow
  <2>3. QED
    BY <2>1, <2>2 DEF MessagesTypeOK, FoundIsStored, Stored, Free
<1>4. ASSUME NEW w \in Workers, SaveMessage(w) PROVE MessagesTyped'
  <2>1. PICK i \in RowIds :
          jobRows' = [jobRows EXCEPT ![i] = worker[w].message]
    BY <1>4, NewRowIsFree DEF SaveMessage, FoundIsStored, Stored
  <2>2. worker[w].message \in Messages
    BY <1>4 DEF SaveMessage, FoundIsStored
  <2>3. /\ jobRows' \in [RowIds -> Messages \cup {NoMessage}]
        /\ Stored' = Stored \cup {i}
    BY <2>1, <2>2, RowWritten
  <2>4. QED
    BY <1>4, <2>3 DEF SaveMessage, IdleWorker, MessagesTypeOK, FoundIsStored
<1>5. ASSUME NEW w \in Workers, LoseMessage(w) PROVE MessagesTyped'
  BY <1>5 DEF LoseMessage, IdleWorker, MessagesTypeOK, FoundIsStored,
     Stored, Free
<1>6. CASE ViewGetsRow
  <2>1. CASE Cardinality(Stored) = 1
             /\ view' = [at |-> "save", row |-> CHOOSE i \in Stored : TRUE]
    <3>1. Stored # {}
      BY <2>1, FS_EmptySet
    <3>2. (CHOOSE i \in Stored : TRUE) \in Stored
      BY <3>1
    <3>3. view'.at = "save" /\ view'.row \in Stored /\ view'.row \in RowIds
      BY <2>1, <3>2 DEF Stored
    <3>4. QED
      BY <1>6, <2>1, <3>3 DEF ViewGetsRow, MessagesTypeOK, FoundIsStored,
         Stored, Free
  <2>2. CASE \E step \in {"insert", "failed"} :
               view' = [view EXCEPT !.at = step]
    BY <1>6, <2>2 DEF ViewGetsRow, MessagesTypeOK, FoundIsStored, Stored, Free
  <2>3. QED
    BY <1>6, <2>1, <2>2 DEF ViewGetsRow
<1>7. CASE ViewInserts
  <2>1. NewRow \in RowIds
    BY <1>7, NewRowIsFree DEF ViewInserts
  <2>2. /\ jobRows' \in [RowIds -> Messages \cup {NoMessage}]
        /\ Stored' = Stored \cup {NewRow}
    BY <1>7, <2>1, RowWritten, MessageConstants DEF ViewInserts
  <2>3. QED
    BY <1>7, <2>1, <2>2 DEF ViewInserts, MessagesTypeOK, FoundIsStored
<1>8. CASE ViewSaves
  <2>1. view.row \in RowIds
    BY <1>8 DEF ViewSaves, FoundIsStored, Stored
  <2>2. /\ jobRows' \in [RowIds -> Messages \cup {NoMessage}]
        /\ Stored' = Stored \cup {view.row}
    BY <1>8, <2>1, RowWritten, MessageConstants DEF ViewSaves
  <2>3. QED
    BY <1>8, <2>2 DEF ViewSaves, MessagesTypeOK, FoundIsStored
<1>9. CASE UNCHANGED messageVars
  BY <1>9 DEF messageVars, MessagesTypeOK, FoundIsStored, Stored, Free
<1>10. QED
  BY <1>1, <1>2, <1>3, <1>4, <1>5, <1>6, <1>7, <1>8, <1>9 DEF MessagesNext

-----------------------------------------------------------------------------
(***************************************************************************)
(* A worker that will insert a row counts as a row: it has found none when *)
(* there was none, and there cannot be more such workers than workers.     *)
(***************************************************************************)
Bonus == IF view.at = "done" THEN 1 ELSE 0
RowsCounted ==
  Cardinality(Stored) + Cardinality(Inserting) <= Cardinality(Workers) + Bonus

\* The table and the set of workers are finite.
LEMMA FiniteTable ==
  ASSUME JobMessagesAssumption
  PROVE  /\ \A S \in SUBSET RowIds : IsFiniteSet(S) /\ Cardinality(S) \in Nat
         /\ \A S \in SUBSET Workers :
              /\ IsFiniteSet(S) /\ Cardinality(S) \in Nat
              /\ Cardinality(S) <= Cardinality(Workers)
<1>1. IsFiniteSet(RowIds) /\ IsFiniteSet(Workers)
  BY MessageConstants DEF JobMessagesAssumption
<1>2. ASSUME NEW S \in SUBSET RowIds
      PROVE  IsFiniteSet(S) /\ Cardinality(S) \in Nat
  <2>1. IsFiniteSet(S)
    BY <1>1, FS_Subset
  <2>2. QED
    BY <2>1, FS_CardinalityType
<1>3. ASSUME NEW S \in SUBSET Workers
      PROVE  /\ IsFiniteSet(S) /\ Cardinality(S) \in Nat
             /\ Cardinality(S) <= Cardinality(Workers)
  <2>1. IsFiniteSet(S) /\ Cardinality(S) <= Cardinality(Workers)
    BY <1>1, FS_Subset
  <2>2. QED
    BY <2>1, FS_CardinalityType
<1>4. QED
  BY <1>2, <1>3

\* A row more is at most one more.
LEMMA OneMore ==
  ASSUME NEW S, IsFiniteSet(S), NEW x
  PROVE  /\ Cardinality(S \cup {x}) <= Cardinality(S) + 1
         /\ x \in S => Cardinality(S \cup {x}) = Cardinality(S)
<1>1. CASE x \in S
  <2>1. S \cup {x} = S
    BY <1>1
  <2>2. Cardinality(S) \in Nat
    BY FS_CardinalityType
  <2>3. QED
    BY <2>1, <2>2
<1>2. CASE x \notin S
  <2>1. Cardinality(S \cup {x}) = Cardinality(S) + 1
    BY <1>2, FS_AddElement
  <2>2. Cardinality(S) \in Nat
    BY FS_CardinalityType
  <2>3. QED
    BY <1>2, <2>1, <2>2
<1>3. QED
  BY <1>1, <1>2

\* Every row is accounted for by a worker that wrote it.
LEMMA RowsCountedStep ==
  ASSUME JobMessagesAssumption, MessagesTyped, RowsCounted,
         [MessagesNext]_messageVars
  PROVE  RowsCounted'
<1> USE DEF MessagesTyped
<1> DEFINE tableSize == Cardinality(Stored)
           inserting == Cardinality(Inserting)
           workers == Cardinality(Workers)
<1>1. /\ Stored \in SUBSET RowIds /\ Stored' \in SUBSET RowIds
      /\ Inserting \in SUBSET Workers /\ Inserting' \in SUBSET Workers
  BY DEF Stored, Inserting
<1>2. /\ tableSize \in Nat /\ tableSize' \in Nat
      /\ inserting \in Nat /\ inserting' \in Nat
      /\ inserting <= workers /\ inserting' <= workers
      /\ workers \in Nat
  <2>1. workers \in Nat
    BY FiniteTable
  <2>2. tableSize \in Nat /\ tableSize' \in Nat
    BY <1>1, FiniteTable
  <2>3. inserting \in Nat /\ inserting' \in Nat
          /\ inserting <= workers /\ inserting' <= workers
    BY <1>1, FiniteTable
  <2>4. QED
    BY <2>1, <2>2, <2>3
<1>3. /\ tableSize + inserting <= workers + Bonus
      /\ Bonus \in {0, 1} /\ Bonus \in Nat /\ Bonus' \in Nat
  BY DEF RowsCounted, Bonus
<1> SUFFICES tableSize' + inserting' <= workers + Bonus'
  BY DEF RowsCounted
\* The steps that write no row and let no worker insert.
<1>4. ASSUME Stored' = Stored, Inserting' \subseteq Inserting,
             Bonus' = Bonus \/ Bonus' = 1
      PROVE  tableSize' + inserting' <= workers + Bonus'
  <2>1. IsFiniteSet(Inserting)
    BY <1>1, FiniteTable
  <2>2. inserting' <= inserting
    BY <1>4, <2>1, FS_Subset
  <2>3. tableSize' = tableSize
    BY <1>4
  <2>4. QED
    BY <1>2, <1>3, <1>4, <2>2, <2>3
<1>5. CASE AddMessage
  BY <1>4, <1>5 DEF AddMessage, Stored, Free, Inserting, Bonus
<1>6. ASSUME NEW w \in Workers, NEW m \in queued, SelectNothing(w, m)
      PROVE  tableSize' + inserting' <= workers + Bonus'
  <2>1. Stored' = {} /\ Bonus' = Bonus
    BY <1>6 DEF SelectNothing, Stored, Free, Bonus
  <2>2. tableSize' = 0
    BY <2>1, FS_EmptySet
  <2>3. QED
    BY <1>2, <1>3, <2>1, <2>2
<1>7. ASSUME NEW w \in Workers, NEW m \in queued, NEW i \in Stored,
             SelectRow(w, m, i)
      PROVE  tableSize' + inserting' <= workers + Bonus'
  <2>1. Stored' = Stored /\ Bonus' = Bonus
    BY <1>7 DEF SelectRow, Stored, Free, Bonus
  <2>2. Inserting' \subseteq Inserting
    BY <1>7 DEF SelectRow, Inserting, MessagesTypeOK
  <2>3. QED
    BY <1>4, <2>1, <2>2
<1>8. ASSUME NEW w \in Workers, SaveMessage(w)
      PROVE  tableSize' + inserting' <= workers + Bonus'
  <2>1. worker[w].message \in Messages /\ Bonus' = Bonus
    BY <1>8 DEF SaveMessage, FoundIsStored, Bonus
  <2>2. CASE worker[w].at = "update"
    <3>1. /\ jobRows' = [jobRows EXCEPT ![worker[w].row] = worker[w].message]
          /\ worker[w].row \in Stored /\ worker[w].row \in RowIds
      BY <1>8, <2>2 DEF SaveMessage, FoundIsStored, Stored
    <3>2. Stored' = Stored \cup {worker[w].row}
      BY <2>1, <3>1, RowWritten
    <3>5. Stored' = Stored
      BY <3>1, <3>2
    <3>3. Inserting' \subseteq Inserting
      BY <1>8, <2>2 DEF SaveMessage, IdleWorker, Inserting, MessagesTypeOK
    <3>4. QED
      BY <1>4, <2>1, <3>3, <3>5
  <2>3. CASE worker[w].at = "insert"
    <3>1. /\ NewRow \in RowIds
          /\ jobRows' = [jobRows EXCEPT ![NewRow] = worker[w].message]
      BY <1>8, <2>3, NewRowIsFree DEF SaveMessage
    <3>2. Stored' = Stored \cup {NewRow}
      BY <2>1, <3>1, RowWritten
    <3>3. IsFiniteSet(Stored) /\ IsFiniteSet(Inserting)
      BY <1>1, FiniteTable
    <3>4. tableSize' <= tableSize + 1
      BY <3>2, <3>3, OneMore
    <3>5. w \in Inserting /\ Inserting' = Inserting \ {w}
      BY <1>8, <2>3 DEF SaveMessage, IdleWorker, Inserting, MessagesTypeOK
    <3>6. inserting' = inserting - 1
      BY <3>3, <3>5, FS_RemoveElement
    <3>7. QED
      BY <1>2, <1>3, <2>1, <3>4, <3>6
  <2>4. QED
    BY <1>8, <2>2, <2>3 DEF SaveMessage
<1>9. ASSUME NEW w \in Workers, LoseMessage(w)
      PROVE  tableSize' + inserting' <= workers + Bonus'
  <2>1. Stored' = Stored /\ Bonus' = Bonus
    BY <1>9 DEF LoseMessage, Stored, Free, Bonus
  <2>2. Inserting' \subseteq Inserting
    BY <1>9 DEF LoseMessage, IdleWorker, Inserting, MessagesTypeOK
  <2>3. QED
    BY <1>4, <2>1, <2>2
<1>10. CASE ViewGetsRow
  <2>1. Stored' = Stored /\ Inserting' = Inserting
    BY <1>10 DEF ViewGetsRow, Stored, Free, Inserting
  <2>2. Bonus' = Bonus
    BY <1>10 DEF ViewGetsRow, Bonus, MessagesTypeOK
  <2>3. QED
    BY <1>4, <2>1, <2>2
<1>11. CASE ViewInserts
  <2>1. NewRow \in RowIds /\ jobRows' = [jobRows EXCEPT ![NewRow] = Started]
    BY <1>11, NewRowIsFree DEF ViewInserts
  <2>2. Stored' = Stored \cup {NewRow}
    BY <2>1, RowWritten, MessageConstants
  <2>3. IsFiniteSet(Stored)
    BY <1>1, FiniteTable
  <2>4. tableSize' <= tableSize + 1
    BY <2>2, <2>3, OneMore
  <2>5. Inserting' = Inserting
    BY <1>11 DEF ViewInserts, Inserting
  <2>6. inserting' = inserting
    BY <2>5
  <2>7. Bonus = 0 /\ Bonus' = 1
    BY <1>11 DEF ViewInserts, Bonus
  <2>8. QED
    BY <1>2, <1>3, <2>4, <2>6, <2>7
<1>12. CASE ViewSaves
  <2>1. view.row \in Stored /\ view.row \in RowIds
    BY <1>12 DEF ViewSaves, FoundIsStored, Stored
  <2>2. Stored' = Stored \cup {view.row}
    BY <1>12, <2>1, RowWritten, MessageConstants DEF ViewSaves
  <2>3. Stored' = Stored
    BY <2>1, <2>2
  <2>4. Inserting' = Inserting /\ Bonus' = 1
    BY <1>12 DEF ViewSaves, Inserting, Bonus, MessagesTypeOK
  <2>5. QED
    BY <1>4, <2>3, <2>4
<1>13. CASE UNCHANGED messageVars
  BY <1>4, <1>13 DEF messageVars, Stored, Free, Inserting, Bonus
<1>14. QED
  BY <1>5, <1>6, <1>7, <1>8, <1>9, <1>10, <1>11, <1>12, <1>13 DEF MessagesNext

-----------------------------------------------------------------------------

\* The table starts within the invariant.
LEMMA MessagesInitInv ==
  ASSUME JobMessagesAssumption, MessagesInit
  PROVE  MessagesTyped /\ RowsCounted
<1>1. Stored = {} /\ Inserting = {}
  BY DEF MessagesInit, Stored, Free, Inserting
<1>2. MessagesTyped
  BY <1>1 DEF MessagesInit, MessagesTyped, MessagesTypeOK, FoundIsStored,
     Messages, RowIds, JobMessagesAssumption
<1>3. Cardinality(Stored) = 0 /\ Cardinality(Inserting) = 0
  BY <1>1, FS_EmptySet
<1>4. Cardinality(Workers) \in Nat
  BY FiniteTable
<1>5. RowsCounted
  BY <1>3, <1>4 DEF RowsCounted, Bonus
<1>6. QED
  BY <1>2, <1>5

(* The variables keep their types (TypeOK).                                *)
THEOREM MessagesTypeCorrect ==
  ASSUME JobMessagesAssumption
  PROVE  MessagesSpec => []MessagesTypeOK
<1>1. MessagesInit => MessagesTyped
  BY MessagesInitInv
<1>2. MessagesTyped /\ [MessagesNext]_messageVars => MessagesTyped'
  BY MessagesTypedStep
<1>3. MessagesTyped => MessagesTypeOK
  BY DEF MessagesTyped
<1>4. QED
  BY <1>1, <1>2, <1>3, PTL DEF MessagesSpec

(***************************************************************************)
(* A job never has more rows than there are workers, and one for the view  *)
(* when that is done (RowsAtMostWriters).                                  *)
(***************************************************************************)
THEOREM RowsBounded ==
  ASSUME JobMessagesAssumption
  PROVE  MessagesSpec => []RowsAtMostWriters
<1>1. MessagesInit => MessagesTyped /\ RowsCounted
  BY MessagesInitInv
<1>2. MessagesTyped /\ RowsCounted /\ [MessagesNext]_messageVars
        => (MessagesTyped /\ RowsCounted)'
  BY MessagesTypedStep, RowsCountedStep
<1>3. MessagesTyped /\ RowsCounted => RowsAtMostWriters
  <2> SUFFICES ASSUME RowsCounted PROVE RowsAtMostWriters
    OBVIOUS
  <2>1. /\ Cardinality(Stored) \in Nat /\ Cardinality(Inserting) \in Nat
        /\ Cardinality(Workers) \in Nat
    BY FiniteTable DEF Stored, Inserting
  <2>2. QED
    BY <2>1 DEF RowsCounted, RowsAtMostWriters, Bonus
<1>4. QED
  BY <1>1, <1>2, <1>3, PTL DEF MessagesSpec


-----------------------------------------------------------------------------
(* Presets.                                                                *)

\* What the invariant says of one preset: the first part of
\* ValuesWereRequested, and the second.
ValuesKnown(n) ==
  \A p \in Parameters : presets[n][p] # Unset =>
    Succeeded(presets[n][p], n) /\ p \in puts[presets[n][p]].keys
NotMixed(n) ==
  \A r, q \in PresetRequests : Succeeded(r, n) /\ Succeeded(q, n) =>
    \A p1, p2 \in puts[r].keys \cap puts[q].keys \cap Parameters :
      presets[n][p1] = r /\ presets[n][p2] = q => r = q

PresetInv == PresetsTypeOK /\ ValuesWereRequested

LEMMA ByPreset ==
  ValuesWereRequested <=>
    \A n \in PresetNames : Exists(n) => ValuesKnown(n) /\ NotMixed(n)
BY DEF ValuesWereRequested, ValuesKnown, NotMixed, GetPreset

\* A step of request r writes only its own state.
LEMMA OnlyItsState ==
  ASSUME PresetsTypeOK, NEW r \in PresetRequests,
         \/ BeginPost(r) \/ EndPost(r) \/ BeginPut(r) \/ SaveParameter(r)
         \/ SaveDeleted(r) \/ CommitPut(r) \/ Rollback(r) \/ DeletePreset(r)
  PROVE  /\ puts[r].at # "done"
         /\ \A q \in PresetRequests \ {r} : puts'[q] = puts[q]
<1>1. puts[r].at # "done"
  BY DEF BeginPost, EndPost, BeginPut, SaveParameter, SaveDeleted, CommitPut,
         Rollback, DeletePreset, Authenticated
<1>2. ASSUME NEW at, NEW n, NEW ks, BeginRequest(r, at, n, ks)
      PROVE  \A q \in PresetRequests \ {r} : puts'[q] = puts[q]
  BY <1>2 DEF BeginRequest, PresetsTypeOK
<1>3. ASSUME NEW result, EndRequest(r, result)
      PROVE  \A q \in PresetRequests \ {r} : puts'[q] = puts[q]
  BY <1>3 DEF EndRequest, PresetsTypeOK
<1>4. CASE BeginPost(r) \/ DeletePreset(r)
  BY <1>1, <1>2, <1>4 DEF BeginPost, DeletePreset
<1>5. CASE BeginPut(r)
  BY <1>1, <1>2, <1>5 DEF BeginPut
<1>6. CASE SaveDeleted(r) \/ CommitPut(r) \/ Rollback(r)
  BY <1>1, <1>3, <1>6 DEF SaveDeleted, CommitPut, Rollback
<1>7. CASE EndPost(r)
  <2>1. \/ EndRequest(r, "failed")
        \/ puts' = [puts EXCEPT ![r].at = "done",
                                ![r].stamp = stamp[puts[r].name] + 1]
    BY <1>7 DEF EndPost
  <2>2. QED
    BY <1>1, <1>3, <2>1 DEF PresetsTypeOK
<1>8. CASE SaveParameter(r)
  BY <1>1, <1>8 DEF SaveParameter, PresetsTypeOK
<1>9. QED
  BY <1>4, <1>5, <1>6, <1>7, <1>8

\* Every step of a request keeps the types of the presets.
LEMMA PresetTypesStep ==
  ASSUME PresetsTypeOK, [PresetsNext]_presetVars
  PROVE  PresetsTypeOK'
<1>1. ASSUME NEW r \in PresetRequests,
             NEW at \in {"posting", "saving", "done", "failed"},
             NEW n \in PresetNames, NEW ks \in SUBSET RequestKeys,
             BeginRequest(r, at, n, ks)
      PROVE  puts' \in [PresetRequests -> PutStates]
  <2>1. [at |-> at, name |-> n, keys |-> ks, saved |-> {},
         stamp |-> stamp[n]] \in PutStates
    BY DEF PutStates, PresetsTypeOK
  <2>2. QED
    BY <1>1, <2>1 DEF BeginRequest, PresetsTypeOK
<1>2. ASSUME NEW r \in PresetRequests, NEW result \in {"done", "failed"},
             EndRequest(r, result)
      PROVE  puts' \in [PresetRequests -> PutStates]
  BY <1>2 DEF EndRequest, PresetsTypeOK, PutStates
<1>3. Parameters \subseteq RequestKeys
  BY DEF RequestKeys
<1>4. ASSUME NEW r \in PresetRequests, BeginPost(r) PROVE PresetsTypeOK'
  <2>1. PICK n \in PresetNames, ks \in SUBSET RequestKeys :
          BeginRequest(r, IF Exists(n) THEN "failed" ELSE "posting", n, ks)
    BY <1>4 DEF BeginPost
  <2>2. QED
    BY <1>1, <1>4, <2>1 DEF BeginPost, PresetsTypeOK
<1>5. ASSUME NEW r \in PresetRequests, EndPost(r) PROVE PresetsTypeOK'
  <2>1. CASE EndRequest(r, "failed") /\ UNCHANGED <<presets, stamp>>
    BY <1>2, <2>1 DEF PresetsTypeOK
  <2>2. CASE /\ presets' = [presets EXCEPT ![puts[r].name] =
                  [p \in Parameters |->
                     IF p \in puts[r].keys THEN r ELSE Unset]]
             /\ stamp' = [stamp EXCEPT ![puts[r].name] = @ + 1]
             /\ puts' = [puts EXCEPT ![r].at = "done",
                           ![r].stamp = stamp[puts[r].name] + 1]
    <3>1. puts[r] \in PutStates /\ puts[r].name \in PresetNames
      BY DEF PresetsTypeOK, PutStates
    <3>2. stamp[puts[r].name] + 1 \in Nat
      BY <3>1 DEF PresetsTypeOK
    <3>3. puts' \in [PresetRequests -> PutStates]
      BY <2>2, <3>1, <3>2 DEF PresetsTypeOK, PutStates
    <3>4. stamp' \in [PresetNames -> Nat]
      BY <2>2, <3>1, <3>2 DEF PresetsTypeOK
    <3>5. [p \in Parameters |-> IF p \in puts[r].keys THEN r ELSE Unset]
            \in PresetValues
      BY DEF PresetValues
    <3>6. presets' \in [PresetNames -> PresetValues \cup {Absent}]
      BY <2>2, <3>1, <3>5 DEF PresetsTypeOK
    <3>7. QED
      BY <3>3, <3>4, <3>6 DEF PresetsTypeOK
  <2>3. QED
    BY <1>5, <2>1, <2>2 DEF EndPost
<1>6. ASSUME NEW r \in PresetRequests, BeginPut(r) PROVE PresetsTypeOK'
  <2>1. PICK n \in PresetNames, ks \in SUBSET Parameters :
          \/ BeginRequest(r, "saving", n, {p \in ks : presets[n][p] # Unset})
          \/ BeginRequest(r, "failed", n, {})
    BY <1>6 DEF BeginPut
  <2>2. {p \in ks : presets[n][p] # Unset} \in SUBSET RequestKeys
    BY <1>3
  <2>3. puts' \in [PresetRequests -> PutStates]
    BY <1>1, <2>1, <2>2
  <2>4. QED
    BY <1>6, <2>3 DEF BeginPut, PresetsTypeOK
<1>7. ASSUME NEW r \in PresetRequests, SaveParameter(r) PROVE PresetsTypeOK'
  <2>1. PICK p \in puts[r].keys \ puts[r].saved :
          puts' = [puts EXCEPT ![r].saved = @ \cup {p}]
    BY <1>7 DEF SaveParameter
  <2>2. puts[r] \in PutStates
    BY DEF PresetsTypeOK
  <2>3. QED
    BY <1>7, <2>1, <2>2 DEF SaveParameter, PresetsTypeOK, PutStates
<1>8. ASSUME NEW r \in PresetRequests, SaveDeleted(r) \/ Rollback(r)
      PROVE  PresetsTypeOK'
  BY <1>2, <1>8 DEF SaveDeleted, Rollback, PresetsTypeOK
<1>9. ASSUME NEW r \in PresetRequests, CommitPut(r) PROVE PresetsTypeOK'
  <2>1. puts[r].name \in PresetNames
    BY DEF PresetsTypeOK, PutStates
  <2>2. presets[puts[r].name] \in PresetValues
    BY <1>9, <2>1 DEF CommitPut, StillThere, Exists, PresetsTypeOK
  <2>3. [p \in Parameters |-> IF p \in puts[r].saved THEN r
                              ELSE presets[puts[r].name][p]] \in PresetValues
    BY <2>2 DEF PresetValues
  <2>4. presets' \in [PresetNames -> PresetValues \cup {Absent}]
    BY <1>9, <2>1, <2>3 DEF CommitPut, PresetsTypeOK
  <2>5. QED
    BY <1>2, <1>9, <2>4 DEF CommitPut, PresetsTypeOK
<1>10. ASSUME NEW r \in PresetRequests, DeletePreset(r) PROVE PresetsTypeOK'
  <2>1. PICK n \in PresetNames :
          /\ presets' = [presets EXCEPT ![n] = Absent]
          /\ BeginRequest(r, IF Exists(n) THEN "done" ELSE "failed", n, {})
    BY <1>10 DEF DeletePreset
  <2>2. presets' \in [PresetNames -> PresetValues \cup {Absent}]
    BY <2>1 DEF PresetsTypeOK
  <2>3. puts' \in [PresetRequests -> PutStates]
    BY <1>1, <2>1
  <2>4. QED
    BY <1>10, <2>2, <2>3 DEF DeletePreset, PresetsTypeOK
<1>11. CASE UNCHANGED presetVars
  BY <1>11 DEF presetVars, PresetsTypeOK
<1>12. QED
  BY <1>4, <1>5, <1>6, <1>7, <1>8, <1>9, <1>10, <1>11 DEF PresetsNext

\* A preset that a step leaves as it is keeps its invariant: the request that
\* takes the step had not succeeded before, and does not with this preset.
LEMMA PresetKept ==
  ASSUME PresetInv, NEW n \in PresetNames, Exists(n),
         presets'[n] = presets[n], stamp'[n] = stamp[n],
         NEW r \in PresetRequests, puts[r].at # "done", ~Succeeded(r, n)',
         \A q \in PresetRequests \ {r} : puts'[q] = puts[q]
  PROVE  ValuesKnown(n)' /\ NotMixed(n)'
<1>1. ValuesKnown(n) /\ NotMixed(n)
  BY ByPreset DEF PresetInv
<1>2. \A q \in PresetRequests :
        /\ Succeeded(q, n) <=> Succeeded(q, n)'
        /\ Succeeded(q, n) => puts'[q] = puts[q]
  BY DEF Succeeded
<1>3. ASSUME NEW p \in Parameters, presets[n][p] # Unset
      PROVE  presets[n][p] \in PresetRequests
  BY <1>3 DEF PresetInv, PresetsTypeOK, PresetValues, Exists
<1>4. ValuesKnown(n)'
  <2> SUFFICES ASSUME NEW p \in Parameters, presets[n][p] # Unset
               PROVE  /\ Succeeded(presets[n][p], n)'
                      /\ p \in puts'[presets[n][p]].keys
    BY DEF ValuesKnown, Succeeded
  <2>1. /\ presets[n][p] \in PresetRequests
        /\ Succeeded(presets[n][p], n)
        /\ p \in puts[presets[n][p]].keys
    BY <1>1, <1>3 DEF ValuesKnown
  <2>2. puts'[presets[n][p]] = puts[presets[n][p]]
    BY <1>2, <2>1
  <2>3. QED
    BY <2>1, <2>2 DEF Succeeded
<1>5. NotMixed(n)'
  BY <1>1, <1>2 DEF NotMixed
<1>6. QED
  BY <1>4, <1>5

\* The creation of a preset.
LEMMA ValuesOfPost ==
  ASSUME PresetInv, NEW r \in PresetRequests, EndPost(r),
         NEW n \in PresetNames, Exists(n)'
  PROVE  ValuesKnown(n)' /\ NotMixed(n)'
<1> DEFINE m == puts[r].name
<1>t. PresetsTypeOK /\ puts[r] \in PutStates /\ m \in PresetNames
  BY DEF PresetInv, PresetsTypeOK, PutStates
<1>o. /\ puts[r].at # "done"
      /\ \A q \in PresetRequests \ {r} : puts'[q] = puts[q]
  BY <1>t, OnlyItsState
<1>1. CASE EndRequest(r, "failed") /\ UNCHANGED <<presets, stamp>>
  <2>1. puts'[r].at = "failed"
    BY <1>t, <1>1 DEF EndRequest, PresetsTypeOK
  <2>2. ~Succeeded(r, n)'
    BY <2>1 DEF Succeeded
  <2>3. QED
    BY <1>o, <1>1, <2>2, PresetKept DEF Exists
<1>2. CASE /\ presets' = [presets EXCEPT ![m] =
                [p \in Parameters |-> IF p \in puts[r].keys THEN r ELSE Unset]]
           /\ stamp' = [stamp EXCEPT ![m] = @ + 1]
           /\ puts' = [puts EXCEPT ![r].at = "done",
                                   ![r].stamp = stamp[m] + 1]
  <2>1. /\ puts'[r].at = "done" /\ puts'[r].name = m
        /\ puts'[r].keys = puts[r].keys /\ puts'[r].stamp = stamp[m] + 1
    BY <1>t, <1>2 DEF PresetsTypeOK, PutStates
  <2>2. CASE n = m
    <3>1. /\ presets'[n] =
               [p \in Parameters |-> IF p \in puts[r].keys THEN r ELSE Unset]
          /\ stamp'[n] = stamp[m] + 1
      BY <1>t, <1>2, <2>2 DEF PresetsTypeOK
    <3>2. \A p \in Parameters :
            presets'[n][p] = IF p \in puts'[r].keys THEN r ELSE Unset
      BY <2>1, <3>1
    <3>3. Succeeded(r, n)'
      BY <2>1, <2>2, <3>1 DEF Succeeded
    <3>4. ValuesKnown(n)'
      <4> SUFFICES ASSUME NEW p \in Parameters, presets'[n][p] # Unset
                   PROVE  /\ Succeeded(presets[n][p], n)'
                          /\ p \in puts'[presets'[n][p]].keys
        BY DEF ValuesKnown
      <4>1. presets'[n][p] = r /\ p \in puts'[r].keys
        BY <3>2
      <4>2. QED
        BY <3>3, <4>1 DEF Succeeded
    <3>5. NotMixed(n)'
      BY <3>2 DEF NotMixed
    <3>6. QED
      BY <3>4, <3>5
  <2>3. CASE n # m
    <3>1. presets'[n] = presets[n] /\ stamp'[n] = stamp[n]
      BY <1>t, <1>2, <2>3 DEF PresetsTypeOK
    <3>2. ~Succeeded(r, n)'
      BY <2>1, <2>3 DEF Succeeded
    <3>3. QED
      BY <1>o, <3>1, <3>2, PresetKept DEF Exists
  <2>4. QED
    BY <2>2, <2>3
<1>3. QED
  BY <1>1, <1>2 DEF EndPost

\* The commit of changed rows.
LEMMA ValuesOfPut ==
  ASSUME PresetInv, NEW r \in PresetRequests, CommitPut(r),
         NEW n \in PresetNames, Exists(n)'
  PROVE  ValuesKnown(n)' /\ NotMixed(n)'
<1> DEFINE m == puts[r].name
<1>t. PresetsTypeOK /\ puts[r] \in PutStates /\ m \in PresetNames
  BY DEF PresetInv, PresetsTypeOK, PutStates
<1>o. /\ puts[r].at # "done"
      /\ \A q \in PresetRequests \ {r} : puts'[q] = puts[q]
  BY <1>t, OnlyItsState
<1>1. /\ puts'[r].at = "done" /\ puts'[r].name = m
      /\ puts'[r].keys = puts[r].keys /\ puts'[r].stamp = stamp[m]
      /\ UNCHANGED stamp /\ Exists(m) /\ puts[r].saved = puts[r].keys
  BY <1>t DEF CommitPut, EndRequest, StillThere, PresetsTypeOK, PutStates
<1>2. CASE n # m
  <2>1. presets'[n] = presets[n]
    BY <1>t, <1>2 DEF CommitPut, PresetsTypeOK
  <2>2. ~Succeeded(r, n)'
    BY <1>1, <1>2 DEF Succeeded
  <2>3. QED
    BY <1>o, <1>1, <2>1, <2>2, PresetKept DEF Exists
<1>3. CASE n = m
  <2>1. \A p \in Parameters :
          presets'[n][p] = IF p \in puts[r].keys THEN r ELSE presets[n][p]
    BY <1>t, <1>1, <1>3 DEF CommitPut, PresetsTypeOK
  <2>2. ValuesKnown(n) /\ NotMixed(n)
    BY <1>1, <1>3, ByPreset DEF PresetInv
  <2>3. \A q \in PresetRequests \ {r} :
          /\ Succeeded(q, n) <=> Succeeded(q, n)'
          /\ puts'[q] = puts[q]
    BY <1>o, <1>1 DEF Succeeded
  <2>4. Succeeded(r, n)' /\ ~Succeeded(r, n)
    BY <1>o, <1>1, <1>3 DEF Succeeded
  <2>5. ValuesKnown(n)'
    <3> SUFFICES ASSUME NEW p \in Parameters, presets'[n][p] # Unset
                 PROVE  /\ Succeeded(presets[n][p], n)'
                        /\ p \in puts'[presets'[n][p]].keys
      BY DEF ValuesKnown
    <3>1. CASE p \in puts[r].keys
      <4>1. presets'[n][p] = r
        BY <2>1, <3>1
      <4>2. QED
        BY <1>1, <2>4, <3>1, <4>1 DEF Succeeded
    <3>2. CASE p \notin puts[r].keys
      <4>1. presets'[n][p] = presets[n][p] /\ presets[n][p] # Unset
        BY <2>1, <3>2
      <4>2. presets[n][p] \in PresetRequests
        BY <1>t, <1>1, <1>3, <4>1 DEF PresetsTypeOK, PresetValues, Exists
      <4>3. /\ Succeeded(presets[n][p], n)
            /\ p \in puts[presets[n][p]].keys
        BY <2>2, <4>1 DEF ValuesKnown
      <4>4. puts'[presets[n][p]] = puts[presets[n][p]]
        BY <2>3, <2>4, <4>2, <4>3
      <4>5. QED
        BY <1>1, <4>1, <4>3, <4>4 DEF Succeeded
    <3>3. QED
      BY <3>1, <3>2
  <2>6. NotMixed(n)'
    <3> SUFFICES ASSUME NEW r1 \in PresetRequests, NEW r2 \in PresetRequests,
                        Succeeded(r1, n)', Succeeded(r2, n)',
                        NEW p1 \in Parameters, NEW p2 \in Parameters,
                        p1 \in puts'[r1].keys, p1 \in puts'[r2].keys,
                        p2 \in puts'[r1].keys, p2 \in puts'[r2].keys,
                        presets'[n][p1] = r1, presets'[n][p2] = r2
                 PROVE  r1 = r2
      BY DEF NotMixed
    <3>1. CASE r1 = r
      BY <1>1, <2>1, <3>1
    <3>2. CASE r2 = r
      BY <1>1, <2>1, <3>2
    <3>3. CASE r1 # r /\ r2 # r
      <4>1. presets[n][p1] = r1 /\ presets[n][p2] = r2
        BY <2>1, <3>3
      <4>2. /\ Succeeded(r1, n) /\ puts'[r1] = puts[r1]
            /\ Succeeded(r2, n) /\ puts'[r2] = puts[r2]
        BY <2>3, <3>3
      <4>3. QED
        BY <2>2, <4>1, <4>2 DEF NotMixed
    <3>4. QED
      BY <3>1, <3>2, <3>3
  <2>7. QED
    BY <2>5, <2>6
<1>4. QED
  BY <1>2, <1>3

\* Every step keeps every value one that was requested.
LEMMA ValuesWereRequestedStep ==
  ASSUME PresetInv, [PresetsNext]_presetVars
  PROVE  ValuesWereRequested'
<1> SUFFICES ASSUME NEW n \in PresetNames, Exists(n)'
             PROVE  ValuesKnown(n)' /\ NotMixed(n)'
  BY DEF ValuesWereRequested, ValuesKnown, NotMixed, GetPreset
<1>t. PresetsTypeOK
  BY DEF PresetInv
\* A step that does not commit to the preset.
<1>q. ASSUME NEW r \in PresetRequests,
             \/ BeginPost(r) \/ BeginPut(r) \/ SaveParameter(r)
             \/ SaveDeleted(r) \/ Rollback(r) \/ DeletePreset(r),
             presets'[n] = presets[n], UNCHANGED stamp, ~Succeeded(r, n)'
      PROVE  ValuesKnown(n)' /\ NotMixed(n)'
  <2>1. /\ puts[r].at # "done"
        /\ \A q \in PresetRequests \ {r} : puts'[q] = puts[q]
    BY <1>t, <1>q, OnlyItsState
  <2>2. QED
    BY <1>q, <2>1, PresetKept DEF Exists
<1>1. ASSUME NEW r \in PresetRequests, BeginPost(r) \/ BeginPut(r)
      PROVE  ValuesKnown(n)' /\ NotMixed(n)'
  <2>1. UNCHANGED <<presets, stamp>>
    BY <1>1 DEF BeginPost, BeginPut
  <2>2. \E at \in {"posting", "saving", "failed"} : \E m, ks :
          BeginRequest(r, at, m, ks)
    BY <1>1 DEF BeginPost, BeginPut
  <2>3. puts'[r].at # "done"
    BY <1>t, <2>2 DEF BeginRequest, PresetsTypeOK
  <2>4. QED
    BY <1>1, <1>q, <2>1, <2>3 DEF Succeeded
<1>2. ASSUME NEW r \in PresetRequests, SaveParameter(r)
      PROVE  ValuesKnown(n)' /\ NotMixed(n)'
  <2>1. puts'[r].at = "saving"
    BY <1>t, <1>2 DEF SaveParameter, PresetsTypeOK, PutStates
  <2>2. QED
    BY <1>2, <1>q, <2>1 DEF SaveParameter, Succeeded
<1>3. ASSUME NEW r \in PresetRequests, Rollback(r)
      PROVE  ValuesKnown(n)' /\ NotMixed(n)'
  <2>1. puts'[r].at = "failed"
    BY <1>t, <1>3 DEF Rollback, EndRequest, PresetsTypeOK
  <2>2. QED
    BY <1>3, <1>q, <2>1 DEF Rollback, Succeeded
<1>4. ASSUME NEW r \in PresetRequests, SaveDeleted(r)
      PROVE  ValuesKnown(n)' /\ NotMixed(n)'
  <2>1. UNCHANGED <<presets, stamp>> /\ ~StillThere(r)
    BY <1>4 DEF SaveDeleted
  <2>2. puts'[r].name = puts[r].name /\ puts'[r].stamp = puts[r].stamp
    BY <1>t, <1>4 DEF SaveDeleted, EndRequest, PresetsTypeOK, PutStates
  <2>3. ~Succeeded(r, n)'
    BY <2>1, <2>2 DEF Succeeded, StillThere, Exists
  <2>4. QED
    BY <1>4, <1>q, <2>1, <2>3
<1>5. ASSUME NEW r \in PresetRequests, DeletePreset(r)
      PROVE  ValuesKnown(n)' /\ NotMixed(n)'
  <2>1. PICK m \in PresetNames :
          /\ presets' = [presets EXCEPT ![m] = Absent]
          /\ BeginRequest(r, IF Exists(m) THEN "done" ELSE "failed", m, {})
    BY <1>5 DEF DeletePreset
  <2>2. n # m /\ presets'[n] = presets[n]
    BY <1>t, <2>1 DEF PresetsTypeOK, Exists
  <2>3. puts'[r].name = m
    BY <1>t, <2>1 DEF BeginRequest, PresetsTypeOK
  <2>4. QED
    BY <1>5, <1>q, <2>2, <2>3 DEF DeletePreset, Succeeded
<1>6. CASE UNCHANGED presetVars
  BY <1>6, ByPreset
    DEF presetVars, PresetInv, Exists, ValuesKnown, NotMixed, Succeeded
<1>7. QED
  BY <1>1, <1>2, <1>3, <1>4, <1>5, <1>6, ValuesOfPost, ValuesOfPut
    DEF PresetsNext

\* The presets start within the invariant.
LEMMA PresetInvInit ==
  ASSUME PresetsAssumption, PresetsInit
  PROVE  PresetInv
<1>1. (CHOOSE n \in PresetNames : TRUE) \in PresetNames
  BY DEF PresetsAssumption
<1>2. PresetsTypeOK
  BY <1>1 DEF PresetsInit, PresetsTypeOK, PutStates
<1>3. \A n \in PresetNames : ~Exists(n)
  BY DEF PresetsInit, Exists
<1>4. QED
  BY <1>2, <1>3 DEF PresetInv, ValuesWereRequested

(***************************************************************************)
(* For every number of presets, parameters and requests: the values of a   *)
(* preset are of requests that succeeded about this creation of it, and    *)
(* requests are not mixed (ValuesWereRequested).                           *)
(***************************************************************************)
THEOREM ValuesAlwaysRequested ==
  ASSUME PresetsAssumption
  PROVE  PresetsSpec => []ValuesWereRequested
<1>1. PresetsInit => PresetInv
  BY PresetInvInit
<1>2. PresetInv /\ [PresetsNext]_presetVars => PresetInv'
  BY PresetTypesStep, ValuesWereRequestedStep DEF PresetInv
<1>3. PresetInv => ValuesWereRequested
  BY DEF PresetInv
<1>4. QED
  BY <1>1, <1>2, <1>3, PTL DEF PresetsSpec

-----------------------------------------------------------------------------
(* Types of the run settings.                                              *)

\* A set of numbers has a least one.
LEMMA LeastNat ==
  ASSUME NEW T \in SUBSET Nat, T # {}
  PROVE  \E x \in T : \A y \in T : x <= y
<1>1. PICK x \in T : \A y \in T : ~(<<y, x>> \in OpToRel(<, Nat))
  BY NatLessThanWellFounded, WFMin
<1>2. \A y \in T : ~(y < x)
  BY <1>1 DEF OpToRel
<1>3. QED
  BY <1>2

\* Settings whose every value is one of a known pair.
LEMMA WithinByPairs ==
  ASSUME NEW settings, DOMAIN settings \subseteq Schemas,
         \A s, k : Has(settings, <<s, k>>) =>
           <<s, k>> \in Pairs /\ settings[s][k] \in SettingValues
  PROVE  SettingsWithin(settings)
BY DEF SettingsWithin, Has

\* A value that settings have is within the declared values.
LEMMA WithinHas ==
  ASSUME NEW settings, SettingsWithin(settings), NEW s, NEW k,
         Has(settings, <<s, k>>)
  PROVE  <<s, k>> \in Pairs /\ settings[s][k] \in SettingValues
BY DEF SettingsWithin, Has

\* The settings of no record.
LEMMA NoneWithin == SettingsWithin(None) /\ PairsOf(None) = {}
BY DEF SettingsWithin, None, PairsOf, Has

\* What storing a value as text makes of it.
LEMMA TextTyped ==
  ASSUME NEW v \in SettingValues
  PROVE  /\ Text(v) \in SettingValues /\ Text(v).form # "int"
         /\ Text(Text(v)) = Text(v)
         /\ Text(v).form = "digits" => Text([Text(v) EXCEPT !.form = "int"])
                                         = Text(v)
<1>1. Text(v) \in SettingValues /\ Text(v).form # "int"
  BY DEF Text, SettingValues, Forms
<1>2. Text(Text(v)) = Text(v)
  BY <1>1 DEF Text
<1>3. ASSUME NEW w \in SettingValues, w.form = "digits"
      PROVE  [[w EXCEPT !.form = "int"] EXCEPT !.form = "digits"] = w
             /\ [w EXCEPT !.form = "int"].form = "int"
  BY <1>3 DEF SettingValues
<1>4. QED
  BY <1>1, <1>2, <1>3 DEF Text

\* What transfer leaves: the pairs of both, with the values of the new one.
LEMMA TransferPairs ==
  ASSUME NEW old, NEW new, NEW s, NEW k
  PROVE  /\ Has(Transfer(old, new), <<s, k>>)
              <=> Has(old, <<s, k>>) \/ Has(new, <<s, k>>)
         /\ Has(new, <<s, k>>) => Transfer(old, new)[s][k] = new[s][k]
         /\ Has(old, <<s, k>>) /\ ~Has(new, <<s, k>>) =>
              Transfer(old, new)[s][k] = old[s][k]
<1> DEFINE both == Transfer(old, new)
<1>1. DOMAIN both
        = DOMAIN old \cup {t \in DOMAIN new : DOMAIN new[t] # {}}
  BY DEF Transfer
<1>2. CASE s \in DOMAIN old /\ s \in DOMAIN new
  <2>1. both[s] = Over(new[s], old[s])
    BY <1>2 DEF Transfer
  <2>2. /\ DOMAIN both[s] = DOMAIN new[s] \cup DOMAIN old[s]
        /\ k \in DOMAIN new[s] => both[s][k] = new[s][k]
        /\ k \in DOMAIN old[s] \ DOMAIN new[s] => both[s][k] = old[s][k]
    BY <2>1 DEF Over
  <2>3. QED
    BY <1>1, <1>2, <2>2 DEF Has
<1>3. CASE s \in DOMAIN old /\ s \notin DOMAIN new
  <2>1. both[s] = old[s]
    BY <1>3 DEF Transfer
  <2>2. QED
    BY <1>1, <1>3, <2>1 DEF Has
<1>4. CASE s \notin DOMAIN old /\ s \in DOMAIN new
  <2>1. DOMAIN new[s] # {} => both[s] = new[s]
    BY <1>4 DEF Transfer
  <2>2. QED
    BY <1>1, <1>4, <2>1 DEF Has
<1>5. CASE s \notin DOMAIN old /\ s \notin DOMAIN new
  BY <1>1, <1>5 DEF Has
<1>6. QED
  BY <1>2, <1>3, <1>4, <1>5

\* Transferring keeps within the declared values.
LEMMA TransferWithin ==
  ASSUME NEW old, NEW new, SettingsWithin(old), SettingsWithin(new)
  PROVE  SettingsWithin(Transfer(old, new))
<1>1. DOMAIN Transfer(old, new) \subseteq Schemas
  BY DEF Transfer, SettingsWithin
<1>2. ASSUME NEW s, NEW k, Has(Transfer(old, new), <<s, k>>)
      PROVE  <<s, k>> \in Pairs /\ Transfer(old, new)[s][k] \in SettingValues
  <2>1. CASE Has(new, <<s, k>>)
    BY <2>1, TransferPairs, WithinHas
  <2>2. CASE Has(old, <<s, k>>) /\ ~Has(new, <<s, k>>)
    BY <2>2, TransferPairs, WithinHas
  <2>3. QED
    BY <1>2, <2>1, <2>2, TransferPairs
<1>3. QED
  BY <1>1, <1>2, WithinByPairs

\* What update_run_settings leaves: texts of the settings in their schemas, and
\* the rows of the others.
LEMMA UpdatePairs ==
  ASSUME NEW old, NEW settings, NEW s, NEW k,
         Has(Update(old, settings), <<s, k>>)
  PROVE  \/ /\ Has(settings, <<s, k>>)
            /\ Update(old, settings)[s][k] = Text(settings[s][k])
         \/ /\ Has(old, <<s, k>>)
            /\ Update(old, settings)[s][k] = old[s][k]
BY DEF Update, Has, RowsOf

\* Updating keeps within the declared values.
LEMMA UpdateWithin ==
  ASSUME NEW old, NEW settings, SettingsWithin(old), SettingsWithin(settings)
  PROVE  /\ SettingsWithin(Update(old, settings))
         /\ PairsOf(Update(old, settings))
              \subseteq PairsOf(old) \cup PairsOf(settings)
<1>1. DOMAIN Update(old, settings) \subseteq Schemas
  BY DEF Update, SettingsWithin
<1>2. ASSUME NEW s, NEW k, Has(Update(old, settings), <<s, k>>)
      PROVE  /\ <<s, k>> \in Pairs
             /\ Update(old, settings)[s][k] \in SettingValues
             /\ Has(old, <<s, k>>) \/ Has(settings, <<s, k>>)
  <2>1. CASE /\ Has(settings, <<s, k>>)
             /\ Update(old, settings)[s][k] = Text(settings[s][k])
    BY <2>1, WithinHas, TextTyped
  <2>2. CASE /\ Has(old, <<s, k>>)
             /\ Update(old, settings)[s][k] = old[s][k]
    BY <2>2, WithinHas
  <2>3. QED
    BY <1>2, <2>1, <2>2, UpdatePairs
<1>3. SettingsWithin(Update(old, settings))
  BY <1>1, <1>2, WithinByPairs
<1>4. ASSUME NEW p \in PairsOf(Update(old, settings))
      PROVE  p \in PairsOf(old) \cup PairsOf(settings)
  <2>1. Has(Update(old, settings), <<p[1], p[2]>>)
    BY <1>4 DEF PairsOf, Has
  <2>2. Has(old, <<p[1], p[2]>>) \/ Has(settings, <<p[1], p[2]>>)
    BY <1>2, <2>1
  <2>3. QED
    BY <1>4, <2>2 DEF PairsOf, Has
<1>5. QED
  BY <1>3, <1>4

\* So does reading the record back.
LEMMA GetContextWithin ==
  ASSUME NEW old, SettingsWithin(old)
  PROVE  SettingsWithin(GetContext(old))
<1>1. DOMAIN GetContext(old) = DOMAIN old
  BY DEF GetContext
<1>2. ASSUME NEW s, NEW k, Has(GetContext(old), <<s, k>>)
      PROVE  <<s, k>> \in Pairs /\ GetContext(old)[s][k] \in SettingValues
  <2>1. Has(old, <<s, k>>)
    BY <1>2 DEF Has, GetContext
  <2>2. <<s, k>> \in Pairs /\ old[s][k] \in SettingValues
    BY <2>1, WithinHas
  <2>3. GetContext(old)[s][k] = old[s][k]
          \/ GetContext(old)[s][k] = [old[s][k] EXCEPT !.form = "int"]
    BY <2>1 DEF Has, GetContext
  <2>4. QED
    BY <2>2, <2>3 DEF SettingValues, Forms
<1>3. QED
  BY <1>1, <1>2, WithinByPairs DEF SettingsWithin

\* So does setting values.
LEMMA SetValsWithin ==
  ASSUME RunSettingsAssumption, NEW settings, SettingsWithin(settings),
         NEW ps \in SUBSET Pairs, NEW v \in SettingValues
  PROVE  SettingsWithin(SetVals(settings, ps, v))
<1> DEFINE set == SetVals(settings, ps, v)
<1>1. DOMAIN set = DOMAIN settings \cup {p[1] : p \in ps}
  BY DEF SetVals
<1>2. DOMAIN set \subseteq Schemas
  BY <1>1 DEF Schemas, SettingsWithin
<1>3. ASSUME NEW s, NEW k, Has(set, <<s, k>>)
      PROVE  <<s, k>> \in Pairs /\ set[s][k] \in SettingValues
  <2> DEFINE ks == {p[2] : p \in {q \in ps : q[1] = s}}
             others == IF s \in DOMAIN settings THEN settings[s] ELSE None
  <2>1. set[s] = Over([j \in ks |-> v], others) /\ k \in DOMAIN set[s]
    BY <1>1, <1>3 DEF SetVals, Has
  <2>2. /\ k \in ks \/ k \in DOMAIN others
        /\ k \in ks => set[s][k] = v
        /\ k \notin ks => set[s][k] = others[k]
    BY <2>1 DEF Over
  <2>3. CASE k \in ks
    <3>1. PICK p \in ps : p[1] = s /\ p[2] = k
      BY <2>3
    <3>2. p = <<s, k>>
      BY <3>1 DEF RunSettingsAssumption
    <3>3. QED
      BY <2>2, <2>3, <3>2
  <2>4. CASE k \notin ks
    <3>1. s \in DOMAIN settings
      BY <2>2, <2>4 DEF None
    <3>2. QED
      BY <2>2, <2>4, <3>1 DEF SettingsWithin
  <2>5. QED
    BY <2>3, <2>4
<1>4. QED
  BY <1>2, <1>3, WithinByPairs

\* So does deleting one.
LEMMA DelKeyWithin ==
  ASSUME NEW settings, SettingsWithin(settings), NEW p \in PairsOf(settings)
  PROVE  SettingsWithin(DelKey(settings, p))
<1>1. DOMAIN DelKey(settings, p) = DOMAIN settings
  BY DEF DelKey
<1>2. ASSUME NEW s, NEW k, Has(DelKey(settings, p), <<s, k>>)
      PROVE  /\ Has(settings, <<s, k>>)
             /\ DelKey(settings, p)[s][k] = settings[s][k]
  BY <1>2 DEF DelKey, Has
<1>3. QED
  BY <1>1, <1>2, WithinHas, WithinByPairs DEF SettingsWithin

\* What is left of the rows when a name of the settings is unknown.
LEMMA FailedUpdatesWithin ==
  ASSUME NEW old, NEW settings, SettingsWithin(old), SettingsWithin(settings),
         PairsOf(old) \subseteq Declared,
         NEW left \in FailedUpdates(old, settings)
  PROVE  SettingsWithin(left) /\ PairsOf(left) \subseteq Declared
<1>1. PICK p \in PairsOf(settings) \ Declared :
        left \in FailedIn(old, settings, p[1])
  BY DEF FailedUpdates
<1>2. PICK set \in SUBSET KnownNames(settings, p[1]),
           done \in SUBSET KnownSchemas(settings) :
        left = Update(IF p[1] \in DeclaredSchemas
                      THEN PartlyUpdated(old, settings, p[1], set) ELSE old,
                      [s \in done |-> settings[s]])
  BY <1>1 DEF FailedIn
<1> DEFINE kept == {k \in DOMAIN settings[p[1]] : Has(old, <<p[1], k>>)}
           row == [k \in set \cup kept |->
                     IF k \in set THEN Text(settings[p[1]][k])
                     ELSE old[p[1]][k]]
           begun == PartlyUpdated(old, settings, p[1], set)
           finished == [s \in done |-> settings[s]]
<1>3. left = Update(begun, finished) \/ left = Update(old, finished)
  BY <1>2
<1>4. p[1] \in DOMAIN settings /\ p[1] \in Schemas
  BY DEF PairsOf, Has, SettingsWithin
<1>5. /\ DOMAIN begun = {p[1]} \cup DOMAIN old
      /\ begun[p[1]] = row
      /\ \A s \in DOMAIN old \ {p[1]} : begun[s] = old[s]
  BY DEF PartlyUpdated, Over
<1>k. \A s \in DOMAIN settings : \A k \in KnownNames(settings, s) :
        /\ <<s, k>> \in Declared /\ settings[s][k] \in SettingValues
  BY DEF KnownNames, SettingsWithin
<1>6. ASSUME NEW s, NEW k, Has(begun, <<s, k>>)
      PROVE  <<s, k>> \in Declared /\ begun[s][k] \in SettingValues
  <2>1. CASE s = p[1] /\ k \in set
    <3>1. <<s, k>> \in Declared /\ settings[s][k] \in SettingValues
      BY <1>4, <1>k, <2>1
    <3>2. begun[s][k] = Text(settings[s][k])
      BY <1>5, <2>1
    <3>3. QED
      BY <3>1, <3>2, TextTyped
  <2>2. CASE s = p[1] /\ k \in kept \ set
    <3>1. Has(old, <<s, k>>) /\ begun[s][k] = old[s][k]
      BY <1>5, <2>2 DEF Has
    <3>2. <<s, k>> \in PairsOf(old) /\ old[s][k] \in SettingValues
      BY <3>1, WithinHas DEF PairsOf
    <3>3. QED
      BY <3>1, <3>2
  <2>3. CASE s # p[1]
    <3>1. Has(old, <<s, k>>) /\ begun[s][k] = old[s][k]
      BY <1>5, <1>6, <2>3 DEF Has
    <3>2. <<s, k>> \in PairsOf(old) /\ old[s][k] \in SettingValues
      BY <3>1, WithinHas DEF PairsOf
    <3>3. QED
      BY <3>1, <3>2
  <2>4. QED
    BY <1>5, <1>6, <2>1, <2>2, <2>3 DEF Has
<1>7. SettingsWithin(begun) /\ PairsOf(begun) \subseteq Declared
  <2>1. DOMAIN begun \subseteq Schemas
    BY <1>4, <1>5 DEF SettingsWithin
  <2>2. SettingsWithin(begun)
    BY <1>6, <2>1, WithinByPairs DEF Pairs
  <2>3. ASSUME NEW q \in PairsOf(begun) PROVE q \in Declared
    <3>1. Has(begun, <<q[1], q[2]>>)
      BY <2>3 DEF PairsOf, Has
    <3>2. <<q[1], q[2]>> \in Declared
      BY <1>6, <3>1
    <3>3. q = <<q[1], q[2]>>
      BY PartsAreSound DEF PortalAssumption, RunSettingsAssumption, PairsOf
    <3>4. QED
      BY <3>2, <3>3
  <2>4. QED
    BY <2>2, <2>3
<1>8. SettingsWithin(finished) /\ PairsOf(finished) \subseteq Declared
  <2>1. SettingsWithin(finished)
    BY DEF SettingsWithin, KnownSchemas
  <2>2. ASSUME NEW q \in PairsOf(finished) PROVE q \in Declared
    <3>1. <<q[1], q[2]>> \in Declared
      BY <2>2 DEF PairsOf, Has, KnownSchemas, KnownNames
    <3>2. q = <<q[1], q[2]>>
      BY PartsAreSound DEF PortalAssumption, RunSettingsAssumption, PairsOf
    <3>3. QED
      BY <3>1, <3>2
  <2>3. QED
    BY <2>1, <2>2
<1>9. QED
  <2> HIDE DEF begun, finished
  <2>1. QED
    BY <1>3, <1>7, <1>8, UpdateWithin

(***************************************************************************)
(* The settings with which the stages are checked are defined by recursion *)
(* over the stages: such a function exists, by induction.                  *)
(***************************************************************************)
LEMMA TestDefined ==
  ASSUME RunSettingsAssumption, NEW settings
  PROVE  /\ DOMAIN SettingsToTest(settings) = {0} \cup Stages
         /\ SettingsToTest(settings)[0] = settings
         /\ \A i \in Stages : SettingsToTest(settings)[i]
              = Transfer(Own[i], SettingsToTest(settings)[i - 1])
<1> DEFINE N == Cardinality(Stages)
           Tests(n, f) ==
             f = [i \in 0 .. n |-> IF i = 0 THEN settings
                                   ELSE Transfer(Own[i], f[i - 1])]
           T == {n \in Nat : ~ \E f : Tests(n, f)}
<1>1. N \in Nat /\ {0} \cup Stages = 0 .. N /\ Stages = 1 .. N
  <2>1. N \in Nat /\ Stages = 1 .. N
    BY FS_CardinalityType DEF RunSettingsAssumption
  <2>2. QED
    BY <2>1
<1>2. T = {}
  <2> SUFFICES ASSUME T # {} PROVE FALSE
    OBVIOUS
  <2>1. PICK n \in T : \A m \in T : n <= m
    BY LeastNat
  <2>2. n # 0
    <3> SUFFICES ASSUME n = 0 PROVE FALSE
      OBVIOUS
    <3>1. Tests(0, [i \in 0 .. 0 |-> settings])
      OBVIOUS
    <3>2. QED
      BY <3>1
  <2>3. n \in Nat /\ n - 1 \in Nat /\ n - 1 \notin T
    BY <2>1, <2>2
  <2>4. PICK f : Tests(n - 1, f)
    BY <2>3
  <2> DEFINE g == [i \in 0 .. n |-> IF i = n THEN Transfer(Own[n], f[n - 1])
                                    ELSE f[i]]
             h == [i \in 0 .. n |-> IF i = 0 THEN settings
                                    ELSE Transfer(Own[i], g[i - 1])]
  <2>5. ASSUME NEW i \in 0 .. n PROVE g[i] = h[i]
    <3>1. CASE i = n
      <4>1. g[n - 1] = f[n - 1]
        BY <2>2, <2>3
      <4>2. h[n] = Transfer(Own[n], f[n - 1])
        BY <2>2, <2>3, <4>1
      <4>3. QED
        BY <3>1, <4>2
    <3>2. CASE i = 0
      <4>1. f[0] = settings
        BY <2>3, <2>4
      <4>2. QED
        BY <2>2, <3>2, <4>1
    <3>3. CASE i # n /\ i # 0
      <4>1. i \in 0 .. n - 1 /\ i - 1 \in 0 .. n /\ i - 1 # n
        BY <2>3, <3>3
      <4>2. f[i] = Transfer(Own[i], f[i - 1])
        BY <2>4, <3>3, <4>1
      <4>3. g[i] = f[i] /\ g[i - 1] = f[i - 1]
        BY <3>3, <4>1
      <4>4. QED
        BY <3>3, <4>2, <4>3
    <3>4. QED
      BY <3>1, <3>2, <3>3
  <2>6. g = h
    BY <2>5
  <2>7. Tests(n, g)
    BY <2>6
  <2>8. QED
    BY <2>1, <2>7
<1>3. \E f : Tests(N, f)
  BY <1>1, <1>2
<1>4. SettingsToTest(settings)
        = CHOOSE f : f = [i \in {0} \cup Stages |->
                            IF i = 0 THEN settings
                            ELSE Transfer(Own[i], f[i - 1])]
  BY DEF SettingsToTest
<1>5. SettingsToTest(settings) = CHOOSE f : Tests(N, f)
  BY <1>1, <1>4
<1>6. Tests(N, SettingsToTest(settings))
  BY <1>3, <1>5
<1>7. QED
  <2> DEFINE f == SettingsToTest(settings)
  <2> HIDE DEF f
  <2>1. f = [i \in 0 .. N |-> IF i = 0 THEN settings
                              ELSE Transfer(Own[i], f[i - 1])]
    BY <1>6 DEF f
  <2>2. DOMAIN f = 0 .. N /\ f[0] = settings
    BY <1>1, <2>1
  <2>3. \A i \in Stages : f[i] = Transfer(Own[i], f[i - 1])
    BY <1>1, <2>1
  <2>4. QED
    BY <1>1, <2>2, <2>3 DEF f

\* So does what the submission hands to the stages' checks.
LEMMA TestsWithin ==
  ASSUME RunSettingsAssumption, NEW settings, SettingsWithin(settings),
         NEW i \in {0} \cup Stages
  PROVE  SettingsWithin(SettingsToTest(settings)[i])
<1> DEFINE test == SettingsToTest(settings)
           T == {n \in Nat : n \in {0} \cup Stages /\ ~SettingsWithin(test[n])}
<1>1. Cardinality(Stages) \in Nat /\ Stages = 1 .. Cardinality(Stages)
  BY FS_CardinalityType DEF RunSettingsAssumption
<1>2. T = {}
  <2> SUFFICES ASSUME T # {} PROVE FALSE
    OBVIOUS
  <2>1. PICK n \in T : \A m \in T : n <= m
    BY LeastNat
  <2>2. n # 0
    BY TestDefined
  <2>3. /\ n \in Stages /\ n - 1 \in Nat /\ n - 1 \in {0} \cup Stages
        /\ ~(n <= n - 1)
    BY <1>1, <2>2
  <2>4. SettingsWithin(test[n - 1])
    BY <2>1, <2>3
  <2>5. test[n] = Transfer(Own[n], test[n - 1])
    BY <2>3, TestDefined
  <2>6. SettingsWithin(Own[n])
    BY <2>3 DEF RunSettingsAssumption
  <2>7. SettingsWithin(test[n])
    BY <2>4, <2>5, <2>6, TransferWithin
  <2>8. QED
    BY <2>1, <2>7
<1>3. i \in Nat
  BY <1>1
<1>4. QED
  BY <1>2, <1>3

(***************************************************************************)
(* The types of the run settings; those of a pass are a record, and only   *)
(* a live job has one.                                                     *)
(***************************************************************************)
SettingsTyped ==
  /\ SettingsTypeOK
  /\ job # "live" => pass.at = "idle"
  /\ pass = [at |-> pass.at, settings |-> pass.settings, todo |-> pass.todo]

\* What a stage may leave is typed, as are its own settings.
LEMMA OutputsWithin ==
  ASSUME RunSettingsAssumption, SettingsTyped, NEW i \in StageSet,
         NEW settings \in Outputs(i)
  PROVE  SettingsWithin(settings)
<1>1. i \in Stages
  BY DEF StageSet
<1>2. SettingsWithin(Task(i))
  BY <1>1, TransferWithin
     DEF Task, RunSettingsAssumption, SettingsTyped, SettingsTypeOK
<1>4. CASE settings \in {SetVals(Task(i), ps, [by |-> i, form |-> f]) :
              ps \in {qs \in SUBSET Pairs : Cardinality(qs) <= 2}, f \in Forms}
  <2>1. PICK ps \in SUBSET Pairs, f \in Forms :
          settings = SetVals(Task(i), ps, [by |-> i, form |-> f])
    BY <1>4
  <2>2. [by |-> i, form |-> f] \in SettingValues
    BY <1>1 DEF SettingValues
  <2>3. QED
    BY <1>2, <2>1, <2>2, SetValsWithin
<1>5. CASE settings \in {DelKey(Task(i), p) : p \in PairsOf(Task(i))}
  BY <1>2, <1>5, DelKeyWithin
<1>6. QED
  BY <1>4, <1>5 DEF Outputs

\* The settings start within their types.
LEMMA SettingsTypedInit ==
  ASSUME SettingsInit
  PROVE  SettingsTyped
<1>1. DOMAIN None = {}
  BY DEF None
<1>2. QED
  BY <1>1, NoneWithin
     DEF SettingsInit, SettingsTyped, SettingsTypeOK, NoPass

\* Every step keeps the types of the settings.
LEMMA SettingsTypedStep ==
  ASSUME RunSettingsAssumption, SettingsTyped, [SettingsNext]_settingVars
  PROVE  SettingsTyped'
<1> USE DEF SettingsTyped
<1> DEFINE RowsTyped(old) ==
             SettingsWithin(old) /\ PairsOf(old) \subseteq Declared
<1>t. /\ RowsTyped(committed) /\ RowsTyped(stored)
      /\ pass.todo \subseteq Stages
  BY DEF SettingsTypeOK
<1>p. NoPass = [at |-> "idle", settings |-> None, todo |-> {}]
  BY DEF NoPass
<1>1. CASE MakeRunContext
  <2>1. SettingsWithin(given')
    BY <1>1 DEF MakeRunContext, RunSettingsAssumption
  <2>2. CASE /\ PairsOf(given') \subseteq Declared
             /\ job' = "live"
             /\ checked' = SettingsToTest(given')
             /\ committed' = Update(None, given')
             /\ last' = given'
    <3>1. RowsTyped(Update(None, given'))
      BY <2>1, <2>2, NoneWithin, UpdateWithin
    <3>2. \A i \in DOMAIN checked' :
            i \in {0} \cup Stages /\ SettingsWithin(checked'[i])
      BY <2>1, <2>2, TestDefined, TestsWithin
    <3>3. QED
      BY <1>1, <2>1, <2>2, <3>1, <3>2 DEF MakeRunContext, SettingsTypeOK
  <2>3. CASE job' = "refused" /\ UNCHANGED <<checked, committed, last>>
    BY <1>1, <1>t, <2>1, <2>3 DEF MakeRunContext, SettingsTypeOK
  <2>4. QED
    BY <1>1, <2>2, <2>3 DEF MakeRunContext
<1>2. CASE BeginPass
  <2>1. SettingsWithin(GetContext(committed))
    BY <1>t, GetContextWithin
  <2>2. StageSet \subseteq Stages
    BY DEF StageSet
  <2>3. QED
    BY <1>2, <2>1, <2>2 DEF BeginPass, SettingsTypeOK
<1>3. ASSUME NEW i \in StageSet, SkipStage(i) PROVE SettingsTyped'
  <2>1. /\ pass'.at = pass.at /\ pass'.settings = pass.settings
        /\ pass'.todo = pass.todo \ {i}
        /\ pass' = [at |-> pass'.at, settings |-> pass'.settings,
                    todo |-> pass'.todo]
    BY <1>3 DEF SkipStage
  <2>2. QED
    BY <1>3, <2>1 DEF SkipStage, SettingsTypeOK
<1>4. ASSUME NEW i \in StageSet, StoreOutput(i) PROVE SettingsTyped'
  <2>1. PICK settings \in Outputs(i) :
          /\ PairsOf(settings) \subseteq Declared
          /\ stored' = Update(stored, settings)
          /\ last' = settings
    BY <1>4 DEF StoreOutput
  <2>2. SettingsWithin(settings)
    BY OutputsWithin
  <2>3. RowsTyped(Update(stored, settings))
    BY <1>t, <2>1, <2>2, UpdateWithin
  <2>4. QED
    BY <1>4, <1>p, <2>1, <2>2, <2>3, NoneWithin DEF StoreOutput, SettingsTypeOK
<1>5. ASSUME NEW i \in StageSet, FailToStore(i) PROVE SettingsTyped'
  <2>1. PICK settings \in Outputs(i) :
          stored' \in FailedUpdates(stored, settings)
    BY <1>5 DEF FailToStore
  <2>2. RowsTyped(stored')
    BY <1>t, <2>1, OutputsWithin, FailedUpdatesWithin
  <2>3. /\ pass'.at = "failed" /\ pass'.settings = pass.settings
        /\ pass'.todo = {} /\ job = "live"
        /\ pass' = [at |-> pass'.at, settings |-> pass'.settings,
                    todo |-> pass'.todo]
    BY <1>5 DEF FailToStore
  <2>4. QED
    BY <1>5, <2>2, <2>3 DEF FailToStore, SettingsTypeOK
<1>6. CASE NoStageTriggered
  BY <1>6, <1>p, <1>t, NoneWithin DEF NoStageTriggered, SettingsTypeOK
<1>7. CASE AbortPass
  BY <1>7, <1>p, <1>t, NoneWithin DEF AbortPass, SettingsTypeOK
<1>8. CASE UNCHANGED settingVars
  BY <1>8 DEF settingVars, SettingsTypeOK
<1>9. QED
  BY <1>1, <1>2, <1>3, <1>4, <1>5, <1>6, <1>7, <1>8 DEF SettingsNext

(* The run settings keep their types (SettingsTypeOK).                     *)
THEOREM SettingsTypeCorrect ==
  ASSUME RunSettingsAssumption
  PROVE  SettingsSpec => []SettingsTypeOK
<1>1. SettingsInit => SettingsTyped
  BY SettingsTypedInit
<1>2. SettingsTyped /\ [SettingsNext]_settingVars => SettingsTyped'
  BY SettingsTypedStep
<1>3. SettingsTyped => SettingsTypeOK
  BY DEF SettingsTyped
<1>4. QED
  BY <1>1, <1>2, <1>3, PTL DEF SettingsSpec

-----------------------------------------------------------------------------
(* The rows of a job that goes on.                                         *)

(***************************************************************************)
(* RowsAreFromOneStage is not inductive.  It needs to know what a pass     *)
(* works on: it starts from the committed rows and has the schemas of      *)
(* all of them, so that its output replaces every row; the rows that a     *)
(* failing stage has changed are seen by no other stage of the pass.       *)
(***************************************************************************)
RowsKnown ==
  job = "live" =>
    /\ committed = [s \in DOMAIN last |-> RowsOf(last, s)]
    /\ pass.at # "failed" => stored = committed
    /\ pass.at = "asking" => DOMAIN committed \subseteq DOMAIN pass.settings

SettingsInv == SettingsTyped /\ RowsKnown

\* Settings that have every schema of the rows replace all of them.
LEMMA UpdateReplaces ==
  ASSUME NEW old, NEW settings, DOMAIN old \subseteq DOMAIN settings
  PROVE  Update(old, settings) = [s \in DOMAIN settings |-> RowsOf(settings, s)]
<1>1. DOMAIN settings \cup DOMAIN old = DOMAIN settings
  OBVIOUS
<1>2. QED
  BY <1>1 DEF Update

\* A stage drops no schema of what it works with.
LEMMA OutputsKeepSchemas ==
  ASSUME NEW i \in StageSet, NEW settings \in Outputs(i)
  PROVE  DOMAIN pass.settings \subseteq DOMAIN settings
<1>1. DOMAIN pass.settings \subseteq DOMAIN Task(i)
  BY DEF Task, Transfer
<1>2. CASE settings \in {SetVals(Task(i), ps, [by |-> i, form |-> f]) :
              ps \in {qs \in SUBSET Pairs : Cardinality(qs) <= 2}, f \in Forms}
  <2>1. PICK ps \in SUBSET Pairs, f \in Forms :
          settings = SetVals(Task(i), ps, [by |-> i, form |-> f])
    BY <1>2
  <2>2. DOMAIN settings = DOMAIN Task(i) \cup {p[1] : p \in ps}
    BY <2>1 DEF SetVals
  <2>3. QED
    BY <1>1, <2>2
<1>3. CASE settings \in {DelKey(Task(i), p) : p \in PairsOf(Task(i))}
  BY <1>1, <1>3 DEF DelKey
<1>4. QED
  BY <1>2, <1>3 DEF Outputs

\* Every step keeps the rows those of one stage.
LEMMA RowsKnownStep ==
  ASSUME RowsKnown, SettingsTyped, SettingsTyped', [SettingsNext]_settingVars
  PROVE  RowsKnown'
<1>p. NoPass.at = "idle"
  BY DEF NoPass
<1>1. CASE MakeRunContext
  <2>1. CASE job' = "live"
    <3>1. /\ committed' = Update(None, given') /\ last' = given'
          /\ stored' = committed' /\ UNCHANGED pass
      BY <1>1, <2>1 DEF MakeRunContext
    <3>2. DOMAIN None \subseteq DOMAIN last'
      BY DEF None
    <3>3. committed' = [s \in DOMAIN last' |-> RowsOf(last', s)]
      BY <3>1, <3>2, UpdateReplaces
    <3>4. pass.at # "asking"
      BY <1>1 DEF MakeRunContext, SettingsTyped
    <3>5. QED
      BY <3>1, <3>3, <3>4 DEF RowsKnown, RowsOf
  <2>2. QED
    BY <2>1 DEF RowsKnown
<1>2. CASE BeginPass
  <2>1. DOMAIN GetContext(committed) = DOMAIN committed
    BY DEF GetContext
  <2>2. QED
    BY <1>2, <2>1 DEF BeginPass, RowsKnown, RowsOf
<1>3. ASSUME NEW i \in StageSet, StoreOutput(i) PROVE RowsKnown'
  <2>1. PICK settings \in Outputs(i) :
          stored' = Update(stored, settings) /\ last' = settings
    BY <1>3 DEF StoreOutput
  <2>2. CASE job = "live"
    <3>1. DOMAIN stored \subseteq DOMAIN settings
      BY <1>3, <2>2, OutputsKeepSchemas DEF StoreOutput, RowsKnown
    <3>2. committed' = [s \in DOMAIN last' |-> RowsOf(last', s)]
      BY <1>3, <2>1, <3>1, UpdateReplaces DEF StoreOutput
    <3>3. QED
      BY <1>3, <1>p, <3>2 DEF StoreOutput, RowsKnown, RowsOf
  <2>3. QED
    BY <1>3, <2>2 DEF StoreOutput, RowsKnown
<1>4. ASSUME NEW i \in StageSet, SkipStage(i) PROVE RowsKnown'
  BY <1>4 DEF SkipStage, RowsKnown, RowsOf, SettingsTyped
<1>5. ASSUME NEW i \in StageSet, FailToStore(i) PROVE RowsKnown'
  BY <1>5 DEF FailToStore, RowsKnown, RowsOf, SettingsTyped
<1>6. CASE NoStageTriggered
  BY <1>6 DEF NoStageTriggered, RowsKnown
<1>7. CASE AbortPass
  BY <1>7, <1>p DEF AbortPass, RowsKnown, RowsOf
<1>8. CASE UNCHANGED settingVars
  BY <1>8 DEF settingVars, RowsKnown, RowsOf
<1>9. QED
  BY <1>1, <1>2, <1>3, <1>4, <1>5, <1>6, <1>7, <1>8 DEF SettingsNext

(***************************************************************************)
(* For any schemas, names, stages and submissions: the rows of a job that  *)
(* goes on are exactly the settings last stored without an error, although *)
(* failing stages leave some of theirs in the transaction                  *)
(* (RowsAreFromOneStage).                                                  *)
(***************************************************************************)
THEOREM RowsFromOneStage ==
  ASSUME RunSettingsAssumption
  PROVE  SettingsSpec => []RowsAreFromOneStage
<1>1. SettingsInit => SettingsInv
  BY SettingsTypedInit DEF SettingsInit, SettingsInv, RowsKnown
<1>2. SettingsInv /\ [SettingsNext]_settingVars => SettingsInv'
  BY SettingsTypedStep, RowsKnownStep DEF SettingsInv
<1>3. SettingsInv => RowsAreFromOneStage
  BY DEF SettingsInv, RowsKnown, RowsAreFromOneStage
<1>4. QED
  BY <1>1, <1>2, <1>3, PTL DEF SettingsSpec

-----------------------------------------------------------------------------
(* What a stage is checked with and what it works with.                    *)

(***************************************************************************)
(* The pairs that stage i is checked with are those of the submission and  *)
(* of the stages up to i, and the submission's values win.                 *)
(***************************************************************************)
LEMMA TestPairs ==
  ASSUME RunSettingsAssumption, NEW settings, NEW s, NEW k,
         NEW i \in {0} \cup Stages
  PROVE  /\ Has(SettingsToTest(settings)[i], <<s, k>>) <=>
              Has(settings, <<s, k>>) \/ \E j \in 1 .. i : Has(Own[j], <<s, k>>)
         /\ Has(settings, <<s, k>>) =>
              SettingsToTest(settings)[i][s][k] = settings[s][k]
<1> DEFINE test == SettingsToTest(settings)
           p == <<s, k>>
           Good(n) ==
             /\ Has(test[n], p) <=>
                  Has(settings, p) \/ \E j \in 1 .. n : Has(Own[j], p)
             /\ Has(settings, p) => test[n][s][k] = settings[s][k]
           T == {n \in Nat : n \in {0} \cup Stages /\ ~Good(n)}
<1>1. Cardinality(Stages) \in Nat /\ Stages = 1 .. Cardinality(Stages)
  BY FS_CardinalityType DEF RunSettingsAssumption
<1>2. T = {}
  <2> SUFFICES ASSUME T # {} PROVE FALSE
    OBVIOUS
  <2>1. PICK n \in T : \A m \in T : n <= m
    BY LeastNat
  <2>2. n # 0
    <3>1. test[0] = settings
      BY TestDefined
    <3>2. Good(0)
      BY <3>1
    <3>3. QED
      BY <2>1, <3>2
  <2>3. /\ n \in Stages /\ n - 1 \in Nat /\ n - 1 \in {0} \cup Stages
        /\ ~(n <= n - 1)
    BY <1>1, <2>2
  <2>4. Good(n - 1)
    BY <2>1, <2>3
  <2>5. test[n] = Transfer(Own[n], test[n - 1])
    BY <2>3, TestDefined
  <2>6. 1 .. n = (1 .. n - 1) \cup {n}
    BY <1>1, <2>3
  <2>7. Has(test[n], p) <=> Has(Own[n], p) \/ Has(test[n - 1], p)
    BY <2>5, TransferPairs
  <2>8. (\E j \in 1 .. n : Has(Own[j], p))
          <=> Has(Own[n], p) \/ \E j \in 1 .. n - 1 : Has(Own[j], p)
    BY <2>6
  <2>9. Has(settings, p) => test[n][s][k] = settings[s][k]
    BY <2>4, <2>5, TransferPairs
  <2>10. Good(n)
    <3> HIDE DEF test, p
    <3>1. QED
      BY <2>4, <2>7, <2>8, <2>9
  <2>11. QED
    BY <2>1, <2>10
<1>3. i \in Nat
  BY <1>1
<1>4. Good(i)
  BY <1>2, <1>3
<1>5. QED
  BY <1>4

\* A value that the submission does not give is that of a stage.
LEMMA TestSource ==
  ASSUME RunSettingsAssumption, NEW settings, NEW s, NEW k,
         NEW i \in {0} \cup Stages, ~Has(settings, <<s, k>>),
         Has(SettingsToTest(settings)[i], <<s, k>>)
  PROVE  \E j \in 1 .. i :
           /\ Has(Own[j], <<s, k>>)
           /\ SettingsToTest(settings)[i][s][k] = Own[j][s][k]
<1> DEFINE test == SettingsToTest(settings)
           p == <<s, k>>
           Good(n) == Has(test[n], p) =>
             \E j \in 1 .. n : Has(Own[j], p) /\ test[n][s][k] = Own[j][s][k]
           T == {n \in Nat : n \in {0} \cup Stages /\ ~Good(n)}
<1>1. Cardinality(Stages) \in Nat /\ Stages = 1 .. Cardinality(Stages)
  BY FS_CardinalityType DEF RunSettingsAssumption
<1>2. T = {}
  <2> SUFFICES ASSUME T # {} PROVE FALSE
    OBVIOUS
  <2>1. PICK n \in T : \A m \in T : n <= m
    BY LeastNat
  <2>2. n # 0
    BY <2>1, TestDefined
  <2>3. /\ n \in Stages /\ n - 1 \in Nat /\ n - 1 \in {0} \cup Stages
        /\ ~(n <= n - 1)
    BY <1>1, <2>2
  <2>4. Good(n - 1)
    BY <2>1, <2>3
  <2>5. test[n] = Transfer(Own[n], test[n - 1])
    BY <2>3, TestDefined
  <2>6. 1 .. n = (1 .. n - 1) \cup {n}
    BY <1>1, <2>3
  <2>7. /\ Has(test[n], p) <=> Has(Own[n], p) \/ Has(test[n - 1], p)
        /\ Has(test[n - 1], p) => test[n][s][k] = test[n - 1][s][k]
        /\ Has(Own[n], p) /\ ~Has(test[n - 1], p) =>
             test[n][s][k] = Own[n][s][k]
    BY <2>5, TransferPairs
  <2>8. Good(n)
    <3> HIDE DEF test, p
    <3>1. CASE Has(test[n - 1], p)
      BY <2>4, <2>6, <2>7, <3>1
    <3>2. CASE ~Has(test[n - 1], p)
      BY <2>6, <2>7, <3>2
    <3>3. QED
      BY <3>1, <3>2
  <2>9. QED
    BY <2>1, <2>8
<1>3. i \in Nat
  BY <1>1
<1>4. Good(i)
  BY <1>2, <1>3
<1>5. QED
  BY <1>4

(***************************************************************************)
(* What was checked is what the submission gives with the stages' own      *)
(* settings, as long as the job is live.                                   *)
(***************************************************************************)
CheckedIsTest == job = "live" => checked = SettingsToTest(given)

SubmissionInv == SettingsInv /\ CheckedIsTest

\* A value of the submission that no stage up to i sets, as stage i sees it.
LEMMA SubmittedValue ==
  ASSUME RunSettingsAssumption, SubmissionInv, job = "live", last = given,
         Readable(committed), NEW i \in Stages, NEW s, NEW k,
         <<s, k>> \in Pairs,
         Has(given, <<s, k>>), ~Has(Own[i], <<s, k>>)
  PROVE  /\ Has(TaskRunSettings(committed, i), <<s, k>>)
         /\ Text(TaskRunSettings(committed, i)[s][k])
              = Text(SettingsToTest(given)[i][s][k])
<1> DEFINE v == given[s][k]
           context == GetContext(committed)
<1>1. v \in SettingValues
  BY WithinHas DEF SubmissionInv, SettingsInv, SettingsTyped, SettingsTypeOK
<1>2. /\ s \in DOMAIN committed /\ k \in DOMAIN committed[s]
      /\ committed[s][k] = Text(v)
  <2>1. s \in DOMAIN given /\ k \in DOMAIN given[s]
    BY DEF Has
  <2>2. s \in DOMAIN committed /\ committed[s] = RowsOf(given, s)
    BY <2>1 DEF SubmissionInv, SettingsInv, RowsKnown
  <2>3. QED
    BY <2>1, <2>2 DEF RowsOf
<1>3. /\ Has(context, <<s, k>>)
      /\ context[s][k] = IF <<s, k>> \in Numeric
                         THEN [Text(v) EXCEPT !.form = "int"] ELSE Text(v)
  BY <1>2 DEF GetContext, Has
<1>4. <<s, k>> \in Numeric => Text(v).form = "digits"
  BY <1>2 DEF Readable, PairsOf, Has
<1>5. Text(context[s][k]) = Text(v)
  BY <1>1, <1>3, <1>4, TextTyped
<1>6. /\ Has(TaskRunSettings(committed, i), <<s, k>>)
      /\ TaskRunSettings(committed, i)[s][k] = context[s][k]
  BY <1>3, TransferPairs DEF TaskRunSettings
<1>7. SettingsToTest(given)[i][s][k] = v
  BY TestPairs
<1>8. QED
  BY <1>5, <1>6, <1>7

\* Hence the checks saw what the stages are given, or the stage hides it.
LEMMA CheckedAsExecuted ==
  ASSUME RunSettingsAssumption, SubmissionInv
  PROVE  ExecutedAsChecked
<1> SUFFICES ASSUME job = "live", last = given, Readable(committed),
                    NEW i \in StageSet, NEW p \in Pairs
             PROVE  LET task == TaskRunSettings(committed, i)
                    IN  /\ Has(checked[i], p) <=> Sources(p, i) # {}
                        /\ Has(task, p) <=> Sources(p, i) \cap {0, i} # {}
                        /\ Has(task, p) /\ Text(task[p[1]][p[2]])
                                             # Text(checked[i][p[1]][p[2]]) =>
                             /\ i \in Sources(p, i)
                             /\ \E j \in Sources(p, i) :
                                  TextBy(j, p) # TextBy(i, p)
  BY DEF ExecutedAsChecked
<1> DEFINE task == TaskRunSettings(committed, i)
<1>1. i \in Stages /\ i \in Nat \ {0} /\ i \in 1 .. i
  <2>1. i \in Stages
    BY DEF StageSet
  <2>2. /\ Cardinality(Stages) \in Nat
        /\ Stages = 1 .. Cardinality(Stages)
    BY FS_CardinalityType DEF RunSettingsAssumption
  <2>3. QED
    BY <2>1, <2>2
<1>2. PICK s, k : p = <<s, k>>
  BY DEF RunSettingsAssumption
<1>3. checked = SettingsToTest(given)
  BY DEF SubmissionInv, CheckedIsTest
<1>4. /\ 0 \in Sources(p, i) <=> Has(given, p)
      /\ \A j \in 1 .. i : j \in Sources(p, i) <=> Has(Own[j], p)
      /\ Sources(p, i) \subseteq {0} \cup 1 .. i
  BY <1>1 DEF Sources
<1>5. Has(checked[i], p) <=>
        Has(given, p) \/ \E j \in 1 .. i : Has(Own[j], p)
  BY <1>1, <1>2, <1>3, TestPairs
<1>6. Has(task, p) <=> Has(given, p) \/ Has(Own[i], p)
  <2>1. committed = [t \in DOMAIN given |-> RowsOf(given, t)]
    BY DEF SubmissionInv, SettingsInv, RowsKnown
  <2>2. Has(GetContext(committed), <<s, k>>) <=> Has(given, <<s, k>>)
    BY <2>1 DEF GetContext, Has, RowsOf
  <2>3. QED
    BY <1>2, <2>2, TransferPairs DEF TaskRunSettings
<1>7. ASSUME Has(task, p), Text(task[s][k]) # Text(checked[i][s][k])
      PROVE  /\ i \in Sources(p, i)
             /\ \E j \in Sources(p, i) : TextBy(j, p) # TextBy(i, p)
  <2>1. Has(Own[i], p)
    BY <1>1, <1>2, <1>3, <1>6, <1>7, SubmittedValue
  <2>2. task[s][k] = Own[i][s][k] /\ TextBy(i, p) = Text(Own[i][s][k])
    BY <1>1, <1>2, <2>1, TransferPairs DEF TaskRunSettings, TextBy
  <2>3. CASE Has(given, p)
    <3>1. checked[i][s][k] = given[s][k]
      BY <1>1, <1>2, <1>3, <2>3, TestPairs
    <3>2. TextBy(0, p) = Text(given[s][k])
      BY <1>2 DEF TextBy
    <3>3. QED
      BY <1>1, <1>4, <1>7, <2>1, <2>2, <2>3, <3>1, <3>2
  <2>4. CASE ~Has(given, p)
    <3>1. Has(checked[i], p)
      BY <1>1, <1>5, <2>1
    <3>2. PICK j \in 1 .. i : /\ Has(Own[j], p)
                              /\ checked[i][s][k] = Own[j][s][k]
      BY <1>1, <1>2, <1>3, <2>4, <3>1, TestSource
    <3>3. TextBy(j, p) = Text(Own[j][s][k])
      BY <1>1, <1>2 DEF TextBy
    <3>4. j \in Sources(p, i) /\ i \in Sources(p, i)
      BY <1>1, <1>4, <2>1, <3>2
    <3>5. QED
      BY <1>7, <2>2, <3>2, <3>3, <3>4
  <2>5. QED
    BY <2>3, <2>4
<1>8. Has(checked[i], p) <=> Sources(p, i) # {}
  BY <1>4, <1>5
<1>9. Has(task, p) <=> Sources(p, i) \cap {0, i} # {}
  BY <1>1, <1>4, <1>6
<1>10. QED
  BY <1>2, <1>7, <1>8, <1>9

(***************************************************************************)
(* For any stages, settings of them and submission, conflicts included:    *)
(* what a stage is first executed with was checked, except where a setting *)
(* of its own hides one that the check saw (ExecutedAsChecked).            *)
(***************************************************************************)
THEOREM AlwaysExecutedAsChecked ==
  ASSUME RunSettingsAssumption
  PROVE  SettingsSpec => []ExecutedAsChecked
<1>1. SettingsInit => SubmissionInv
  BY SettingsTypedInit
     DEF SettingsInit, SubmissionInv, SettingsInv, RowsKnown, CheckedIsTest
<1>2. SubmissionInv /\ [SettingsNext]_settingVars => SubmissionInv'
  <2> SUFFICES ASSUME SubmissionInv, [SettingsNext]_settingVars
               PROVE  SubmissionInv'
    OBVIOUS
  <2>1. SettingsTyped'
    BY SettingsTypedStep DEF SubmissionInv, SettingsInv
  <2>2. RowsKnown'
    BY <2>1, RowsKnownStep DEF SubmissionInv, SettingsInv
  <2>3. CheckedIsTest'
    <3>1. CASE MakeRunContext
      BY <3>1 DEF MakeRunContext, CheckedIsTest, SubmissionInv
    <3>2. CASE UNCHANGED <<given, checked>> /\ (job' = job \/ job' = "over")
      BY <3>2 DEF CheckedIsTest, SubmissionInv
    <3>3. QED
      BY <3>1, <3>2 DEF SettingsNext, settingVars, BeginPass, SkipStage,
         StoreOutput, FailToStore, NoStageTriggered, AbortPass
  <2>4. QED
    BY <2>1, <2>2, <2>3 DEF SubmissionInv, SettingsInv
<1>3. SubmissionInv => ExecutedAsChecked
  BY CheckedAsExecuted
<1>4. QED
  BY <1>1, <1>2, <1>3, PTL DEF SettingsSpec

-----------------------------------------------------------------------------
(* The portal: one part moves, the others stay as they are.                *)
PortalInv ==
  /\ part \in Parts
  /\ Typed /\ PresetInv /\ MessagesTyped /\ SettingsTyped

\* Every step of one part keeps the invariant of all.
LEMMA PortalStep ==
  ASSUME PortalInv, [PortalNext]_portalVars
  PROVE  PortalInv'
<1>1. /\ part' = part
      /\ [Next]_vars /\ [PresetsNext]_presetVars
      /\ [MessagesNext]_messageVars /\ [SettingsNext]_settingVars
  BY DEF PortalNext, portalVars, presetVars, messageVars, settingVars
<1>2. /\ PlatformsAssumption /\ PresetsAssumption
      /\ JobMessagesAssumption /\ RunSettingsAssumption
  BY PartsAreSound DEF PortalAssumption
<1>3. Typed'
  BY <1>1, <1>2, TypedStep DEF PortalInv
<1>4. PresetInv'
  BY <1>1, <1>2, PresetTypesStep, ValuesWereRequestedStep
     DEF PortalInv, PresetInv
<1>5. MessagesTyped'
  BY <1>1, <1>2, MessagesTypedStep DEF PortalInv
<1>6. SettingsTyped'
  BY <1>1, <1>2, SettingsTypedStep DEF PortalInv
<1>7. QED
  BY <1>1, <1>3, <1>4, <1>5, <1>6 DEF PortalInv

(* The variables of every part keep their types (PortalTypeOK).            *)
THEOREM PortalTypeCorrect == PortalSpec => []PortalTypeOK
<1>1. PortalInit => PortalInv
  <2> SUFFICES ASSUME PortalInit PROVE PortalInv
    OBVIOUS
  <2>1. /\ PlatformsAssumption /\ PresetsAssumption
        /\ JobMessagesAssumption /\ RunSettingsAssumption
    BY PartsAreSound DEF PortalAssumption
  <2>2. Typed
    BY <2>1, InitTyped DEF PortalInit
  <2>3. PresetInv
    BY <2>1, PresetInvInit DEF PortalInit
  <2>4. MessagesTyped
    BY <2>1, MessagesInitInv DEF PortalInit
  <2>5. SettingsTyped
    BY <2>1, SettingsTypedInit DEF PortalInit
  <2>6. QED
    BY <2>2, <2>3, <2>4, <2>5 DEF PortalInit, PortalInv
<1>2. PortalInv /\ [PortalNext]_portalVars => PortalInv'
  BY PortalStep
<1>3. PortalInv => PortalTypeOK
  BY DEF PortalInv, PortalTypeOK, Typed, PresetInv, MessagesTyped,
     SettingsTyped
<1>4. QED
  BY <1>1, <1>2, <1>3, PTL DEF PortalSpec

(***************************************************************************)
(* Each part of the portal behaves as its own specification says, so that  *)
(* its properties hold of the composition.                                 *)
(***************************************************************************)
THEOREM PortalCorrect ==
  PortalSpec => [](/\ KeysWork /\ ValuesWereRequested /\ RowsAtMostWriters
                   /\ RowsAreFromOneStage /\ ExecutedAsChecked)
<1>1. PortalInit => Init /\ PresetsInit /\ MessagesInit /\ SettingsInit
  BY DEF PortalInit
<1>2. [PortalNext]_portalVars =>
        /\ [Next]_vars /\ [PresetsNext]_presetVars
        /\ [MessagesNext]_messageVars /\ [SettingsNext]_settingVars
  BY DEF PortalNext, portalVars, presetVars, messageVars, settingVars
<1>3. /\ PlatformsAssumption /\ PresetsAssumption
      /\ JobMessagesAssumption /\ RunSettingsAssumption
  BY PartsAreSound DEF PortalAssumption
<1>4. Spec => []KeysWork
  BY <1>3, KeysAlwaysWork
<1>5. PresetsSpec => []ValuesWereRequested
  BY <1>3, ValuesAlwaysRequested
<1>6. MessagesSpec => []RowsAtMostWriters
  BY <1>3, RowsBounded
<1>7. SettingsSpec => []RowsAreFromOneStage
  BY <1>3, RowsFromOneStage
<1>8. SettingsSpec => []ExecutedAsChecked
  BY <1>3, AlwaysExecutedAsChecked
<1>9. QED
  BY <1>1, <1>2, <1>4, <1>5, <1>6, <1>7, <1>8, PTL
     DEF PortalSpec, Spec, PresetsSpec, MessagesSpec, SettingsSpec

=============================================================================
