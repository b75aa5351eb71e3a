------------------------------ MODULE Presets ------------------------------
(***************************************************************************)
(* Presets of the submission form: named sets of parameter values of one   *)
(* user (smartconnectorscheduler/views.py, preset_list and preset_detail). *)
(* Requests are served concurrently.  Each is one transaction, committed   *)
(* with its response and undone when it raises (TransactionMiddleware,     *)
(* settings_changeme.py:125).                                              *)
(***************************************************************************)
EXTENDS Naturals

CONSTANTS
  PresetNames,    \* names of presets
  PresetRequests, \* requests of the user
  Parameters,     \* names of parameters that one schema declares
  Undeclared,     \* a name that its schema does not declare
  NoSchema,       \* a name of a schema that does not exist
  Absent,         \* no such preset
  Unset           \* a preset without a value for the parameter

PresetsAssumption ==
  PresetNames # {} /\ {Undeclared, NoSchema} \cap Parameters = {}

VARIABLES
  presets,  \* committed values; a value is the request that wrote it
  stamp,    \* which creation of the preset this is
  puts      \* the state of each request

presetVars == <<presets, stamp, puts>>

\* The parameters of a preset: what its creation gave a value, by whom.
PresetValues == [Parameters -> PresetRequests \cup {Unset}]

\* What a request may name.
RequestKeys == Parameters \cup {Undeclared, NoSchema}

\* saved: rows that the transaction has changed, which it has locked.
PutStates ==
  [at : {"idle", "posting", "saving", "done", "failed"},
   name : PresetNames, keys : SUBSET RequestKeys,
   saved : SUBSET RequestKeys, stamp : Nat]

PresetsTypeOK ==
  /\ presets \in [PresetNames -> PresetValues \cup {Absent}]
  /\ stamp \in [PresetNames -> Nat]
  /\ puts \in [PresetRequests -> PutStates]

PresetsInit ==
  /\ presets = [n \in PresetNames |-> Absent]
  /\ stamp = [n \in PresetNames |-> 0]
  /\ puts \in [PresetRequests ->
       [at : {"idle"}, name : {CHOOSE n \in PresetNames : TRUE},
        keys : {{}}, saved : {{}}, stamp : {0}]]

Exists(n) == presets[n] # Absent

\* Request r begins: what it names, and the preset that it finds.
BeginRequest(r, at, n, keys) ==
  puts' = [puts EXCEPT ![r] = [at |-> at, name |-> n, keys |-> keys,
                               saved |-> {}, stamp |-> stamp[n]]]
EndRequest(r, result) == puts' = [puts EXCEPT ![r].at = result]

\* The preset that request r has found is still there.
StillThere(r) == Exists(puts[r].name) /\ stamp[puts[r].name] = puts[r].stamp

\* A transaction that has not ended has saved the row.
RowLocked(n, p) ==
  \E r \in PresetRequests :
    puts[r].at = "saving" /\ puts[r].name = n /\ p \in puts[r].saved

\* has_session_key, logged_in_or_basicauth: others are answered with 401.
Authenticated(r) == puts[r].at = "idle"

\* post_preset looks whether the name is in use ...
BeginPost(r) ==
  /\ Authenticated(r)
  /\ \E n \in PresetNames, keys \in SUBSET RequestKeys :
       BeginRequest(r, IF Exists(n) THEN "failed" ELSE "posting", n, keys)
  /\ UNCHANGED <<presets, stamp>>

(***************************************************************************)
(* ... and creates the preset, unless another request has by then (names   *)
(* are unique for a user, models.py:707).  Parameters that their schema    *)
(* does not declare are skipped; a schema that does not exist is not:      *)
(* logging it raises, and the transaction is undone.                       *)
(***************************************************************************)
EndPost(r) ==
  /\ puts[r].at = "posting"
  /\ LET n == puts[r].name
     IN  IF Exists(n) \/ NoSchema \in puts[r].keys
         THEN EndRequest(r, "failed") /\ UNCHANGED <<presets, stamp>>
         ELSE /\ presets' = [presets EXCEPT ![n] = [p \in Parameters |->
                   IF p \in puts[r].keys THEN r ELSE Unset]]
              /\ stamp' = [stamp EXCEPT ![n] = @ + 1]
              /\ puts' = [puts EXCEPT ![r].at = "done",
                                      ![r].stamp = stamp[n] + 1]

\* put_preset, of the list by name and of preset_detail by id, reads the rows
\* of the preset, of which the request may name some ...
BeginPut(r) ==
  /\ Authenticated(r)
  /\ \E n \in PresetNames, keys \in SUBSET Parameters :
       IF Exists(n)
       THEN BeginRequest(r, "saving", n, {p \in keys : presets[n][p] # Unset})
       ELSE BeginRequest(r, "failed", n, {})
  /\ UNCHANGED <<presets, stamp>>

\* A bug: each row is committed as it is saved.
SaveAndCommit(r) ==
  /\ puts[r].at = "saving" /\ StillThere(r)
  /\ \E p \in puts[r].keys \ puts[r].saved :
       /\ puts' = [puts EXCEPT ![r].saved = @ \cup {p}]
       /\ presets' = [presets EXCEPT ![puts[r].name][p] = r]
  /\ UNCHANGED stamp

\* ... and saves them one by one, in any order.  A row that another request
\* has saved is waited for.
SaveParameter(r) ==
  /\ puts[r].at = "saving" /\ StillThere(r)
  /\ \E p \in puts[r].keys \ puts[r].saved :
       /\ ~RowLocked(puts[r].name, p)
       /\ puts' = [puts EXCEPT ![r].saved = @ \cup {p}]
  /\ UNCHANGED <<presets, stamp>>

\* The rows were deleted: there is nothing to change, or they are inserted
\* without the preset they belong to, which the database refuses.
SaveDeleted(r) ==
  /\ puts[r].at = "saving" /\ ~StillThere(r)
  /\ \E result \in {"done", "failed"} : EndRequest(r, result)
  /\ UNCHANGED <<presets, stamp>>

\* A bug: rows are looked up by name when the transaction commits.
CommitByName(r) ==
  /\ puts[r].at = "saving" /\ Exists(puts[r].name)
  /\ presets' = [presets EXCEPT ![puts[r].name] =
       [p \in Parameters |-> IF p \in puts[r].keys THEN r ELSE @[p]]]
  /\ EndRequest(r, "done")
  /\ UNCHANGED stamp

\* The response: what was saved is committed.
CommitPut(r) ==
  /\ puts[r].at = "saving" /\ StillThere(r)
  /\ puts[r].saved = puts[r].keys
  /\ presets' = [presets EXCEPT ![puts[r].name] =
       [p \in Parameters |-> IF p \in puts[r].saved THEN r ELSE @[p]]]
  /\ EndRequest(r, "done")
  /\ UNCHANGED stamp

\* A request raises, or is chosen to end a deadlock: it is undone.
Rollback(r) ==
  /\ puts[r].at \in {"posting", "saving"}
  /\ EndRequest(r, "failed")
  /\ UNCHANGED <<presets, stamp>>

\* _delete_preset: the preset with everything that refers to it, once no
\* other request has changed rows of it.
DeletePreset(r) ==
  /\ Authenticated(r)
  /\ \E n \in PresetNames :
       /\ \A p \in Parameters : ~RowLocked(n, p)
       /\ presets' = [presets EXCEPT ![n] = Absent]
       /\ BeginRequest(r, IF Exists(n) THEN "done" ELSE "failed", n, {})
  /\ UNCHANGED stamp

\* get_preset, of the list and of one preset.
GetPreset(n) == presets[n]

PresetsNext ==
  \E r \in PresetRequests :
    \/ BeginPost(r) \/ EndPost(r)
    \/ BeginPut(r) \/ SaveParameter(r) \/ SaveDeleted(r) \/ CommitPut(r)
    \/ Rollback(r) \/ DeletePreset(r)

PresetsSpec == PresetsInit /\ [][PresetsNext]_presetVars

-----------------------------------------------------------------------------
\* Request r has answered with success about the present creation of n.
Succeeded(r, n) ==
  puts[r].at = "done" /\ puts[r].name = n /\ puts[r].stamp = stamp[n]

(***************************************************************************)
(* Every value of a preset was given by a request that succeeded, names    *)
(* the parameter and was about this very creation of the preset: nothing   *)
(* survives from a deleted preset of the same name, from a request that    *)
(* failed halfway or from a second creation.  And requests are not mixed:  *)
(* of two that both name two parameters, one does not keep the first and   *)
(* the other the second, although they save row by row and in any order    *)
(* (views.py:976-1093, 1118-1158, 1276-1331).                              *)
(***************************************************************************)
ValuesWereRequested ==
  \A n \in PresetNames : Exists(n) =>
    /\ \A p \in Parameters : GetPreset(n)[p] # Unset =>
         Succeeded(GetPreset(n)[p], n) /\ p \in puts[GetPreset(n)[p]].keys
    /\ \A r, q \in PresetRequests : Succeeded(r, n) /\ Succeeded(q, n) =>
         \A p1, p2 \in puts[r].keys \cap puts[q].keys \cap Parameters :
           GetPreset(n)[p1] = r /\ GetPreset(n)[p2] = q => r = q

=============================================================================
