-------------------------- MODULE Platforms_proofs --------------------------
(***************************************************************************)
(* Proofs about Platforms, for any names, kinds of platform, requests,     *)
(* jobs and bounds.                                                        *)
(***************************************************************************)
EXTENDS Platforms, TLAPS

Busy(r) == requests[r].at \in {"checked", "named", "written", "ready"}

(***************************************************************************)
(* What a request has at its steps: a type, a path of that type, and, when *)
(* it is an update, the record that its values stem from.  The file of a   *)
(* key that was made is there.                                             *)
(***************************************************************************)
RequestsFilled ==
  \A r \in Requests : Busy(r) =>
    /\ requests[r].type \in Kinds
    /\ requests[r].path \in Paths
    /\ requests[r].path.type = requests[r].type
    /\ requests[r].op \in {"create", "update"}
    /\ requests[r].name \in Names /\ requests[r].new \in Names
    /\ requests[r].op = "update" => requests[r].from \in 1 .. MaxKeys
    /\ requests[r].at = "written" => files[requests[r].path] # NoKey

Typed == TypeOK /\ RequestsFilled

(***************************************************************************)
(* The hook of a type is a hook; one that makes no key is for types whose  *)
(* schema stores no path.                                                  *)
(***************************************************************************)
LEMMA HookKinds ==
  ASSUME NEW type \in KnownTypes
  PROVE  /\ Hook(type) \in PlatformClasses
         /\ Hook(type).key \in {"ssh", "cloud", "none"}
         /\ Hook(type).key = "none" => ~StoresKeyPath(type)
         /\ Hook(type).key # "none" => Hook(type).setsPath
<1>1. PICK hook \in PlatformClasses : type \in hook.types
  BY DEF KnownTypes
<1>2. Hook(type) \in PlatformClasses /\ type \in Hook(type).types
  BY <1>1 DEF Hook
<1>3. QED
  BY <1>2 DEF PlatformClasses, RemoteFileSystemPlatform, CloudPlatform,
     JenkinsPlatform, MyTardisPlatform, HadoopPlatform, StoresKeyPath

\* A path with another counter is a path of the same type and name.
LEMMA PathCounter ==
  ASSUME NEW path \in Paths, NEW n \in 0 .. MaxCounter
  PROVE  /\ [path EXCEPT !.n = n] \in Paths
         /\ [path EXCEPT !.n = n].type = path.type
BY DEF Paths

\* A request that has taken a step, or also chosen a path, is one.
LEMMA StepTyped ==
  ASSUME NEW q \in RequestStates,
         NEW step \in {"idle", "checked", "named", "written", "ready", "done"}
  PROVE  /\ [q EXCEPT !.at = step] \in RequestStates
         /\ \A path \in Paths :
              [q EXCEPT !.at = step, !.path = path] \in RequestStates
BY DEF RequestStates

\* A request that ends.
LEMMA DoneTyped ==
  ASSUME Typed, NEW r \in Requests,
         requests' = [requests EXCEPT ![r].at = "done"], files' = files
  PROVE  RequestsFilled' /\ requests' \in [Requests -> RequestStates]
<1>1. [requests[r] EXCEPT !.at = "done"] \in RequestStates
  BY StepTyped DEF Typed, TypeOK
<1>2. requests' \in [Requests -> RequestStates]
  BY <1>1 DEF Typed, TypeOK
<1>3. RequestsFilled'
  BY DEF Typed, TypeOK, RequestsFilled, Busy, RequestStates
<1>4. QED
  BY <1>2, <1>3

-----------------------------------------------------------------------------
(***************************************************************************)
(* Type correctness.                                                       *)
(***************************************************************************)
LEMMA TypedStep ==
  ASSUME PlatformsAssumption, Typed, [Next]_vars
  PROVE  Typed'
<1> USE DEF Typed
<1>t. TypeOK /\ RequestsFilled
  OBVIOUS
<1>1. ASSUME NEW r \in Requests, BeginCreate(r) PROVE Typed'
  <2>1. PICK name \in Names, type \in Kinds : requests' =
          [requests EXCEPT ![r] =
            [at |-> "checked", op |-> "create", name |-> name, new |-> name,
             type |-> type, path |-> Path(type, name, 0), from |-> 0]]
    BY <1>1 DEF BeginCreate
  <2>2. Path(type, name, 0) \in Paths /\ Path(type, name, 0).type = type
    BY DEF Path, Paths, PlatformsAssumption
  <2>3. requests' \in [Requests -> RequestStates]
    BY <2>1, <2>2 DEF TypeOK, RequestStates, PlatformsAssumption
  <2>4. RequestsFilled'
    BY <1>1, <2>1, <2>2
       DEF BeginCreate, TypeOK, RequestStates, RequestsFilled, Busy
  <2>5. QED
    BY <1>1, <2>3, <2>4 DEF BeginCreate, TypeOK
<1>2. ASSUME NEW r \in Requests, BeginUpdate(r) PROVE Typed'
  <2>1. PICK name \in Names, new \in Names : requests' =
          [requests EXCEPT ![r] =
            IF Used(name)
            THEN [at |-> "checked", op |-> "update", name |-> name, new |-> new,
                  type |-> rows[name].type,
                  path |-> Path(rows[name].type, new, 0),
                  from |-> rows[name].from]
            ELSE NoRequest]
    BY <1>2 DEF BeginUpdate
  <2>2. CASE Used(name)
    <3>1. /\ rows[name].type \in Kinds
          /\ rows[name].from \in 1 .. MaxKeys
      BY <2>2 DEF TypeOK, Used, Rows
    <3>2. /\ Path(rows[name].type, new, 0) \in Paths
          /\ Path(rows[name].type, new, 0).type = rows[name].type
      BY <3>1 DEF Path, Paths, PlatformsAssumption
    <3>3. requests' \in [Requests -> RequestStates]
      BY <2>1, <2>2, <3>1, <3>2
         DEF TypeOK, RequestStates, PlatformsAssumption
    <3>4. RequestsFilled'
      BY <1>2, <2>1, <2>2, <3>1, <3>2
         DEF BeginUpdate, TypeOK, RequestStates, RequestsFilled, Busy
    <3>5. QED
      BY <1>2, <3>3, <3>4 DEF BeginUpdate, TypeOK
  <2>3. CASE ~Used(name)
    <3>1. requests' \in [Requests -> RequestStates]
      BY <2>1, <2>3
         DEF TypeOK, RequestStates, NoRequest, PlatformsAssumption
    <3>2. RequestsFilled'
      BY <1>2, <2>1, <2>3
         DEF BeginUpdate, TypeOK, RequestStates, NoRequest, RequestsFilled, Busy
    <3>3. QED
      BY <1>2, <3>1, <3>2 DEF BeginUpdate, TypeOK
  <2>4. QED
    BY <2>2, <2>3
<1>3. ASSUME NEW r \in Requests,
             Refuse(r) \/ NoKeyToGenerate(r) \/ CreateSecurityGroup(r)
      PROVE Typed'
  <2>1. PICK step \in {"done", "ready"} :
          requests' = [requests EXCEPT ![r].at = step]
    BY <1>3 DEF Refuse, NoKeyToGenerate, CreateSecurityGroup, Goto
  <2>2. Busy(r)
    BY <1>3 DEF Refuse, NoKeyToGenerate, CreateSecurityGroup, Busy
  <2>3. UNCHANGED <<rows, files, authorized, registered, keys, rowIds, passes,
                    overlap>>
    BY <1>3 DEF Refuse, NoKeyToGenerate, CreateSecurityGroup
  <2>4. requests' \in [Requests -> RequestStates]
    <3>1. [requests[r] EXCEPT !.at = step] \in RequestStates
      BY StepTyped DEF TypeOK
    <3>2. QED
      BY <2>1, <3>1 DEF TypeOK
  <2>5. RequestsFilled'
    BY <2>1, <2>2, <2>3 DEF TypeOK, RequestStates, RequestsFilled, Busy
  <2>6. QED
    BY <2>3, <2>4, <2>5 DEF TypeOK
<1>4. ASSUME NEW r \in Requests, ChooseKeyFile(r) PROVE Typed'
  <2>1. PICK n \in FreeCounters(r) :
          requests' = [requests EXCEPT ![r] = [@ EXCEPT !.at = "named",
                         !.path = [requests[r].path EXCEPT !.n = n]]]
    BY <1>4 DEF ChooseKeyFile
  <2>2. requests[r].path \in Paths /\ n \in 0 .. MaxCounter
    BY <1>4 DEF ChooseKeyFile, RequestsFilled, Busy, FreeCounters
  <2>3. /\ [requests[r].path EXCEPT !.n = n] \in Paths
        /\ [requests[r].path EXCEPT !.n = n].type = requests[r].path.type
    BY <2>2, PathCounter
  <2>4. requests' \in [Requests -> RequestStates]
    <3>1. requests[r] \in RequestStates
      BY DEF TypeOK
    <3>2. QED
      BY <2>1, <2>3, <3>1, StepTyped DEF TypeOK
  <2>5. RequestsFilled'
    BY <1>4, <2>1, <2>3
       DEF ChooseKeyFile, TypeOK, RequestStates, RequestsFilled, Busy
  <2>6. overlap' \in BOOLEAN
    BY <1>4 DEF ChooseKeyFile
  <2>7. QED
    BY <1>4, <2>4, <2>5, <2>6 DEF ChooseKeyFile, TypeOK
<1>5. ASSUME NEW r \in Requests, WriteKeyFile(r) PROVE Typed'
  <2>1. keys' \in 0 .. MaxKeys /\ keys + 1 \in KeyPairs
    BY <1>5 DEF WriteKeyFile, TypeOK, KeyPairs, PlatformsAssumption
  <2>2. requests' = [requests EXCEPT ![r].at = "written"]
    BY <1>5 DEF WriteKeyFile, Goto
  <2>3. requests' \in [Requests -> RequestStates]
    BY <2>2 DEF TypeOK, RequestStates
  <2>4. files' = [files EXCEPT ![requests[r].path] = keys + 1]
    BY <1>5 DEF WriteKeyFile
  <2>5. files' \in [Paths -> KeyPairs \cup {NoKey}]
    BY <2>1, <2>4 DEF TypeOK
  <2>6. keys + 1 # NoKey
    BY <2>1 DEF KeyPairs, PlatformsAssumption
  <2>7. requests[r].path \in Paths /\ Busy(r)
    BY <1>5 DEF WriteKeyFile, RequestsFilled, Busy
  <2>8. RequestsFilled'
    BY <2>2, <2>4, <2>6, <2>7 DEF TypeOK, RequestStates, RequestsFilled, Busy
  <2>9. QED
    BY <1>5, <2>1, <2>3, <2>5, <2>8 DEF WriteKeyFile, TypeOK
<1>6. ASSUME NEW r \in Requests, InstallKey(r) PROVE Typed'
  <2>1. requests[r].path \in Paths
    BY <1>6 DEF InstallKey, RequestsFilled, Busy
  <2>2. requests' = [requests EXCEPT ![r].at = "ready"]
    BY <1>6 DEF InstallKey, Goto
  <2>3. RequestsFilled'
    BY <1>6, <2>2 DEF InstallKey, TypeOK, RequestStates, RequestsFilled, Busy
  <2>4. requests' \in [Requests -> RequestStates]
    BY <2>2 DEF TypeOK, RequestStates
  <2>5. authorized' \subseteq KeyPairs
    <3>1. files[requests[r].path] \in KeyPairs
      BY <1>6, <2>1 DEF InstallKey, RequestsFilled, Busy, TypeOK
    <3>2. QED
      BY <1>6, <3>1 DEF InstallKey, TypeOK
  <2>6. QED
    BY <1>6, <2>3, <2>4, <2>5 DEF InstallKey, TypeOK
<1>7. ASSUME NEW r \in Requests, CreateKeyPair(r) PROVE Typed'
  <2> DEFINE named(n) == [requests[r].path EXCEPT !.n = n]
  <2>1. PICK n \in 0 .. MaxCounter :
          /\ registered' = registered \cup {named(n)}
          /\ requests' = [requests EXCEPT ![r].at = "written",
                                          ![r].path = named(n)]
          /\ files' = [files EXCEPT ![named(n)] = keys + 1]
    BY <1>7 DEF CreateKeyPair
  <2>2. requests[r].path \in Paths
    BY <1>7 DEF CreateKeyPair, RequestsFilled, Busy
  <2>3. named(n) \in Paths /\ named(n).type = requests[r].path.type
    BY <2>2, PathCounter
  <2> HIDE DEF named
  <2>4. /\ keys < MaxKeys /\ keys' = keys + 1
        /\ requests[r].at = "checked"
        /\ authorized' = authorized \cup {keys + 1}
        /\ UNCHANGED <<rows, rowIds, passes, overlap>>
    BY <1>7 DEF CreateKeyPair
  <2>5. keys' \in 0 .. MaxKeys /\ keys + 1 \in KeyPairs
    BY <2>4 DEF TypeOK, KeyPairs, PlatformsAssumption
  <2>10. keys + 1 # NoKey
    BY <2>5 DEF KeyPairs, PlatformsAssumption
  <2>6. requests' \in [Requests -> RequestStates]
    <3>1. requests[r] \in RequestStates
      BY DEF TypeOK
    <3>2. QED
      BY <2>1, <2>3, <3>1, StepTyped DEF TypeOK
  <2>7. RequestsFilled'
    BY <2>10, <2>1, <2>2, <2>3, <2>4
       DEF TypeOK, RequestStates, RequestsFilled, Busy
  <2>8. /\ files' \in [Paths -> KeyPairs \cup {NoKey}]
        /\ registered' \subseteq Paths
        /\ authorized' \subseteq KeyPairs
    BY <2>1, <2>3, <2>4, <2>5 DEF TypeOK
  <2>9. QED
    BY <2>4, <2>5, <2>6, <2>7, <2>8 DEF TypeOK
<1>8. ASSUME NEW r \in Requests, DbCreatePlatform(r) PROVE Typed'
  <2>0. files' = files
    BY <1>8 DEF DbCreatePlatform
  <2>1. requests' = [requests EXCEPT ![r].at = "done"]
    BY <1>8 DEF DbCreatePlatform, Goto
  <2>2. RequestsFilled' /\ requests' \in [Requests -> RequestStates]
    BY <2>0, <2>1, DoneTyped
  <2>3. CASE Used(requests[r].name)
    BY <1>8, <2>2, <2>3 DEF DbCreatePlatform, TypeOK
  <2>4. CASE ~Used(requests[r].name)
    <3>1. /\ requests[r].type \in Kinds /\ requests[r].path \in Paths
          /\ requests[r].name \in Names
      BY <1>8 DEF DbCreatePlatform, RequestsFilled, Busy
    <3>2. StoredPath(r, requests[r].type, NoKey) \in Paths \cup {NoKey}
      BY <3>1 DEF StoredPath
    <3>3. rowIds + 1 \in 1 .. MaxKeys /\ rowIds' = rowIds + 1
      BY <1>8, <2>4 DEF DbCreatePlatform, TypeOK, PlatformsAssumption
    <3>4. rows' \in [Names -> Rows \cup {NoRow}]
      BY <1>8, <2>4, <3>1, <3>2, <3>3 DEF DbCreatePlatform, TypeOK, Rows
    <3>5. TypeOK'
      BY <1>8, <2>2, <3>3, <3>4 DEF DbCreatePlatform, TypeOK
    <3>6. QED
      BY <2>2, <3>5
  <2>5. QED
    BY <2>3, <2>4
<1>9. ASSUME NEW r \in Requests, DbUpdatePlatform(r) PROVE Typed'
  <2>0. files' = files
    BY <1>9 DEF DbUpdatePlatform
  <2>1. requests' = [requests EXCEPT ![r].at = "done"]
    BY <1>9 DEF DbUpdatePlatform, Goto
  <2>2. RequestsFilled' /\ requests' \in [Requests -> RequestStates]
    BY <2>0, <2>1, DoneTyped
  <2> DEFINE name == requests[r].name
             new == requests[r].new
             updated ==
               [rows[name] EXCEPT
                  !.type = requests[r].type,
                  !.path = StoredPath(r, rows[name].schema, @),
                  !.from = requests[r].from]
  <2>3. /\ requests[r].type \in Kinds /\ requests[r].path \in Paths
        /\ requests[r].from \in 1 .. MaxKeys
        /\ name \in Names /\ new \in Names
    BY <1>9 DEF DbUpdatePlatform, RequestsFilled, Busy
  <2>4. Used(name) => updated \in Rows
    <3> SUFFICES ASSUME Used(name) PROVE updated \in Rows
      OBVIOUS
    <3>1. rows[name] \in Rows
      BY <2>3 DEF Used, TypeOK
    <3>2. StoredPath(r, rows[name].schema, rows[name].path)
            \in Paths \cup {NoKey}
      BY <2>3, <3>1 DEF StoredPath, Rows
    <3>3. QED
      BY <2>3, <3>1, <3>2 DEF Rows
  <2>5. \/ Used(name)
           /\ rows' = [[rows EXCEPT ![name] = NoRow] EXCEPT ![new] = updated]
        \/ rows' = rows
    BY <1>9 DEF DbUpdatePlatform
  <2>6. rows' \in [Names -> Rows \cup {NoRow}]
    <3> HIDE DEF updated, name, new
    <3> QED
      BY <2>3, <2>4, <2>5 DEF TypeOK
  <2>7. TypeOK'
    BY <1>9, <2>2, <2>6 DEF DbUpdatePlatform, TypeOK
  <2>8. QED
    BY <2>2, <2>7
<1>10. ASSUME NEW r \in Requests, DeletePlatform(r) PROVE Typed'
  <2>0. files' = files
    BY <1>10 DEF DeletePlatform
  <2>1. requests' = [requests EXCEPT ![r].at = "done"]
    BY <1>10 DEF DeletePlatform, Goto
  <2>2. RequestsFilled' /\ requests' \in [Requests -> RequestStates]
    BY <2>0, <2>1, DoneTyped
  <2>3. TypeOK'
    BY <1>10, <2>2 DEF DeletePlatform, TypeOK
  <2>4. QED
    BY <2>2, <2>3
<1>11. ASSUME NEW j \in Jobs, GetPlatformSettings(j) \/ EndPass(j)
       PROVE Typed'
  <2>1. passes' \in [Jobs -> [name : Names, row : Rows \cup {NoRow},
                              at : {"idle", "connecting", "failed"}]]
    BY <1>11 DEF GetPlatformSettings, EndPass, TypeOK
  <2>2. QED
    BY <1>11, <2>1
       DEF GetPlatformSettings, EndPass, TypeOK, RequestsFilled, Busy
<1>12. CASE UNCHANGED vars
  BY <1>12 DEF vars, TypeOK, RequestsFilled, Busy
<1>13. QED
  BY <1>1, <1>2, <1>3, <1>4, <1>5, <1>6, <1>7, <1>8, <1>9, <1>10, <1>11, <1>12
     DEF Next, Request

\* The initial platforms are within their types.
LEMMA InitTyped ==
  ASSUME PlatformsAssumption, Init
  PROVE  Typed
<1>1. 0 \in 0 .. MaxKeys
  BY DEF PlatformsAssumption
<1>2. requests \in [Requests -> RequestStates]
  BY <1>1 DEF Init, NoRequest, RequestStates
<1>3. RequestsFilled
  BY DEF Init, NoRequest, RequestsFilled, Busy
<1>4. /\ rows \in [Names -> Rows \cup {NoRow}]
      /\ files \in [Paths -> KeyPairs \cup {NoKey}]
  BY DEF Init
<1>5. passes \in [Jobs -> [name : Names, row : Rows \cup {NoRow},
                          at : {"idle", "connecting", "failed"}]]
  BY DEF Init
<1>6. QED
  BY <1>1, <1>2, <1>3, <1>4, <1>5 DEF Init, Typed, TypeOK

(* The variables keep their types (TypeOK).                                *)
THEOREM TypeCorrect ==
  ASSUME PlatformsAssumption
  PROVE  Spec => []TypeOK
<1>1. Init => Typed
  BY InitTyped
<1>2. Typed /\ [Next]_vars => Typed'
  BY TypedStep
<1>3. Typed => TypeOK
  BY DEF Typed
<1>4. QED
  BY <1>1, <1>2, <1>3, PTL DEF Spec

-----------------------------------------------------------------------------
(***************************************************************************)
(* The inductive invariant behind KeysWork.                                *)
(***************************************************************************)
\* Ids of records are not given out again, and values that stem from a record
\* are of its type.
OriginsAgree ==
  /\ \A m \in Names : Used(m) =>
       /\ rows[m].id <= rowIds /\ rows[m].from <= rowIds
       /\ \A n \in Names :
            Used(n) /\ rows[n].id = rows[m].from =>
              rows[n].schema = rows[m].type
  /\ \A r \in Requests : Busy(r) /\ requests[r].op = "update" =>
       /\ requests[r].from <= rowIds
       /\ \A n \in Names :
            Used(n) /\ rows[n].id = requests[r].from =>
              rows[n].schema = requests[r].type

\* A schema without the parameter has no path of a key.
PathsHaveParameter ==
  \A m \in Names : Used(m) /\ ~StoresKeyPath(rows[m].schema) =>
    rows[m].path = NoKey

\* A file whose name the cloud has given is registered there.
CloudFilesRegistered ==
  \A path \in Paths :
    Hook(path.type).key = "cloud" /\ files[path] # NoKey => path \in registered

\* The file whose name a request has chosen is not there, and is its own.
NamesChosen ==
  \A r \in Requests : requests[r].at = "named" =>
    /\ Hook(requests[r].path.type).key = "ssh"
    /\ ~overlap =>
         /\ files[requests[r].path] = NoKey
         /\ \A q \in Requests \ {r} :
              requests[q].at = "named" => requests[q].path # requests[r].path

\* The key that a request will store, and those stored, are accepted.
KeysMade ==
  ~overlap => \A r \in Requests :
    \/ requests[r].at = "ready" /\ KeySource(r) # "none"
    \/ requests[r].at = "written" /\ KeySource(r) = "cloud"
    => files[requests[r].path] \in authorized

\* A pass that connects has read a record.
PassesFilled ==
  \A j \in Jobs : passes[j].at = "connecting" => passes[j].row \in Rows

KeyInv ==
  /\ Typed /\ PassesFilled /\ OriginsAgree /\ PathsHaveParameter
  /\ CloudFilesRegistered /\ NamesChosen /\ KeysMade /\ KeysWork

\* What a request has keeps its values until it ends.
LEMMA RequestsKeep ==
  ASSUME Typed, [Next]_vars, NEW r \in Requests, Busy(r)'
  PROVE  \/ BeginCreate(r) \/ BeginUpdate(r)
         \/ /\ Busy(r)
            /\ requests'[r].op = requests[r].op
            /\ requests'[r].type = requests[r].type
            /\ requests'[r].from = requests[r].from
<1> USE DEF Typed, TypeOK, RequestStates, Busy
<1>1. ASSUME NEW q \in Requests, BeginCreate(q) \/ BeginUpdate(q), q # r
      PROVE  requests'[r] = requests[r]
  BY <1>1 DEF BeginCreate, BeginUpdate
<1>2. ASSUME NEW q \in Requests,
             Refuse(q) \/ NoKeyToGenerate(q) \/ WriteKeyFile(q)
               \/ InstallKey(q) \/ CreateSecurityGroup(q)
      PROVE  /\ Busy(r) /\ requests'[r].op = requests[r].op
             /\ requests'[r].type = requests[r].type
             /\ requests'[r].from = requests[r].from
  BY <1>2 DEF Refuse, NoKeyToGenerate, WriteKeyFile, InstallKey,
     CreateSecurityGroup, Goto
<1>3. ASSUME NEW q \in Requests, ChooseKeyFile(q) \/ CreateKeyPair(q)
      PROVE  /\ Busy(r) /\ requests'[r].op = requests[r].op
             /\ requests'[r].type = requests[r].type
             /\ requests'[r].from = requests[r].from
  <2>1. \E step \in {"named", "written"} : \E path :
          requests' = [requests EXCEPT ![q].at = step, ![q].path = path]
    BY <1>3 DEF ChooseKeyFile, CreateKeyPair
  <2>2. requests[q].at = "checked"
    BY <1>3 DEF ChooseKeyFile, CreateKeyPair
  <2>3. QED
    BY <2>1, <2>2
<1>4. ASSUME NEW q \in Requests,
             DbCreatePlatform(q) \/ DbUpdatePlatform(q) \/ DeletePlatform(q)
      PROVE  requests'[r] = requests[r]
  BY <1>4 DEF DbCreatePlatform, DbUpdatePlatform, DeletePlatform, Goto
<1>5. ASSUME NEW j \in Jobs, GetPlatformSettings(j) \/ EndPass(j)
      PROVE  requests' = requests
  BY <1>5 DEF GetPlatformSettings, EndPass
<1>6. CASE UNCHANGED vars
  BY <1>6 DEF vars
<1>7. QED
  BY <1>1, <1>2, <1>3, <1>4, <1>5, <1>6 DEF Next, Request

\* Records of platforms are changed by the three transactions only.
LEMMA RowsKeep ==
  ASSUME [Next]_vars
  PROVE  \/ UNCHANGED <<rows, rowIds>>
         \/ \E r \in Requests : DbCreatePlatform(r) \/ DbUpdatePlatform(r)
                                  \/ DeletePlatform(r)
BY DEF Next, Request, vars, BeginCreate, BeginUpdate, Refuse, NoKeyToGenerate,
   ChooseKeyFile, WriteKeyFile, InstallKey, CreateKeyPair, CreateSecurityGroup,
   GetPlatformSettings, EndPass

\* Every step keeps values of the type of the record they stem from.
LEMMA OriginsStep ==
  ASSUME PlatformsAssumption, Typed, OriginsAgree, [Next]_vars
  PROVE  OriginsAgree'
<1> DEFINE Stems(from, type) ==
             /\ from <= rowIds
             /\ \A n \in Names : Used(n) /\ rows[n].id = from =>
                                   rows[n].schema = type
           NextStems(from, type) ==
             /\ from <= rowIds'
             /\ \A n \in Names : Used(n)' /\ rows'[n].id = from =>
                                   rows'[n].schema = type
<1>t. /\ rows \in [Names -> Rows \cup {NoRow}] /\ rowIds \in 0 .. MaxKeys
      /\ \A n \in Names : Used(n) => rows[n] \in Rows
  BY DEF Typed, TypeOK, Used
<1>o. /\ \A m \in Names : Used(m) => /\ rows[m].id <= rowIds
                                     /\ Stems(rows[m].from, rows[m].type)
      /\ \A r \in Requests : Busy(r) /\ requests[r].op = "update" =>
           Stems(requests[r].from, requests[r].type)
  BY DEF OriginsAgree
<1>1. ASSUME UNCHANGED <<rows, rowIds>> PROVE OriginsAgree'
  <2>1. ASSUME NEW r \in Requests, Busy(r)', requests'[r].op = "update"
        PROVE  Stems(requests'[r].from, requests'[r].type)
    <3>1. CASE BeginUpdate(r)
      <4>1. PICK name \in Names : Used(name)
              /\ requests'[r].from = rows[name].from
              /\ requests'[r].type = rows[name].type
        BY <2>1, <3>1
           DEF BeginUpdate, Typed, TypeOK, RequestStates, Busy, NoRequest
      <4>2. QED
        BY <1>o, <4>1
    <3>2. CASE BeginCreate(r)
      BY <2>1, <3>2 DEF BeginCreate, Typed, TypeOK, RequestStates
    <3>3. CASE /\ Busy(r)
               /\ requests'[r].op = requests[r].op
               /\ requests'[r].type = requests[r].type
               /\ requests'[r].from = requests[r].from
      BY <1>o, <2>1, <3>3
    <3>4. QED
      BY <2>1, <3>1, <3>2, <3>3, RequestsKeep
  <2>2. QED
    BY <1>1, <1>o, <2>1 DEF OriginsAgree, Used
<1>2. ASSUME NEW q \in Requests, requests' = [requests EXCEPT ![q].at = "done"],
             rowIds' \in {rowIds, rowIds + 1},
             \A m \in Names : Used(m)' =>
               /\ rows'[m].id <= rowIds'
               /\ NextStems(rows'[m].from, rows'[m].type),
             \A n \in Names : Used(n)' =>
               \/ rows'[n].id > rowIds
               \/ \E m \in Names : Used(m) /\ rows[m].id = rows'[n].id
                                     /\ rows[m].schema = rows'[n].schema
      PROVE  OriginsAgree'
  <2>1. ASSUME NEW r \in Requests, Busy(r)', requests'[r].op = "update"
        PROVE  NextStems(requests'[r].from, requests'[r].type)
    <3>1. /\ Busy(r) /\ requests[r].op = "update"
          /\ requests'[r].from = requests[r].from
          /\ requests'[r].type = requests[r].type
      BY <1>2, <2>1 DEF Typed, TypeOK, RequestStates, Busy
    <3>2. /\ requests[r].from \in Nat /\ rowIds \in Nat
          /\ Stems(requests[r].from, requests[r].type)
      BY <1>o, <1>t, <2>1, <3>1 DEF Typed, TypeOK, RequestStates
    <3>3. ASSUME NEW n \in Names, Used(n)', rows'[n].id = requests[r].from
          PROVE  rows'[n].schema = requests[r].type
      <4>1. ~(rows'[n].id > rowIds)
        BY <3>2, <3>3
      <4>2. PICK m \in Names : Used(m) /\ rows[m].id = rows'[n].id
                                       /\ rows[m].schema = rows'[n].schema
        BY <1>2, <3>3, <4>1
      <4>3. QED
        BY <3>2, <3>3, <4>2
    <3>4. QED
      BY <1>2, <3>1, <3>2, <3>3
  <2>2. QED
    BY <1>2, <2>1 DEF OriginsAgree
<1>3. ASSUME NEW q \in Requests, DeletePlatform(q) PROVE OriginsAgree'
  <2>1. PICK name \in Names : rows' = [rows EXCEPT ![name] = NoRow]
    BY <1>3 DEF DeletePlatform
  <2>2. /\ requests' = [requests EXCEPT ![q].at = "done"] /\ rowIds' = rowIds
    BY <1>3 DEF DeletePlatform, Goto
  <2>3. ASSUME NEW m \in Names, Used(m)' PROVE Used(m) /\ rows'[m] = rows[m]
    BY <1>t, <2>1, <2>3 DEF Used
  <2>4. ASSUME NEW m \in Names, Used(m)'
        PROVE  rows'[m].id <= rowIds' /\ NextStems(rows'[m].from, rows'[m].type)
    BY <1>o, <2>2, <2>3, <2>4
  <2>5. QED
    BY <1>2, <2>2, <2>3, <2>4
<1>4. ASSUME NEW q \in Requests, DbCreatePlatform(q) PROVE OriginsAgree'
  <2>1. requests' = [requests EXCEPT ![q].at = "done"]
    BY <1>4 DEF DbCreatePlatform, Goto
  <2> DEFINE name == requests[q].name
             type == requests[q].type
             row == [schema |-> type, type |-> type,
                     path |-> StoredPath(q, type, NoKey),
                     id |-> rowIds + 1, from |-> rowIds + 1]
  <2>2. CASE Used(name)
    <3>1. UNCHANGED <<rows, rowIds>>
      BY <1>4, <2>2 DEF DbCreatePlatform
    <3>2. QED
      BY <1>1, <3>1
  <2>3. CASE ~Used(name)
    <3>1. rowIds' = rowIds + 1 /\ rows' = [rows EXCEPT ![name] = row]
      BY <1>4, <2>3 DEF DbCreatePlatform
    <3>2. name \in Names
      BY <1>4 DEF DbCreatePlatform, Typed, RequestsFilled, Busy
    <3>3. /\ rows'[name] = row
          /\ \A m \in Names \ {name} : rows'[m] = rows[m]
      BY <1>t, <3>1, <3>2
    <3>4. row.id = rowIds + 1 /\ row.from = rowIds + 1
            /\ row.schema = type /\ row.type = type
      OBVIOUS
    <3> HIDE DEF row, name, type
    <3>5. rowIds \in Nat
      BY <1>t
    <3>6. ASSUME NEW m \in Names \ {name}, Used(m)
          PROVE  rows[m].from \in Nat /\ rows[m].id \in Nat
      BY <1>t, <3>6 DEF Rows
    <3>7. ASSUME NEW m \in Names, Used(m)'
          PROVE  /\ rows'[m].id <= rowIds'
                 /\ NextStems(rows'[m].from, rows'[m].type)
      <4>1. CASE m = name
        <5>1. ASSUME NEW n \in Names, Used(n)', rows'[n].id = rowIds + 1
              PROVE  n = name
          <6>1. SUFFICES ASSUME n # name PROVE FALSE
            OBVIOUS
          <6>2. Used(n) /\ rows'[n] = rows[n]
            BY <3>3, <5>1, <6>1 DEF Used
          <6>3. rows[n].id <= rowIds /\ rows[n].id \in Nat
            BY <1>o, <3>6, <6>1, <6>2
          <6>4. QED
            BY <3>5, <5>1, <6>2, <6>3
        <5>2. QED
          BY <3>1, <3>3, <3>4, <3>5, <4>1, <5>1
      <4>2. CASE m # name
        <5>1. Used(m) /\ rows'[m] = rows[m]
          BY <3>3, <3>7, <4>2 DEF Used
        <5>2. /\ rows[m].id <= rowIds /\ Stems(rows[m].from, rows[m].type)
              /\ rows[m].id \in Nat /\ rows[m].from \in Nat
          BY <1>o, <3>6, <4>2, <5>1
        <5>3. ASSUME NEW n \in Names, Used(n)', rows'[n].id = rows[m].from
              PROVE  rows'[n].schema = rows[m].type
          <6>1. n # name
            BY <3>3, <3>4, <3>5, <5>2, <5>3
          <6>2. Used(n) /\ rows'[n] = rows[n]
            BY <3>3, <5>3, <6>1 DEF Used
          <6>3. QED
            BY <5>2, <5>3, <6>2
        <5>4. QED
          BY <3>1, <3>5, <5>1, <5>2, <5>3
      <4>3. QED
        BY <4>1, <4>2
    <3>8. ASSUME NEW n \in Names, Used(n)'
          PROVE  \/ rows'[n].id > rowIds
                 \/ \E m \in Names : Used(m) /\ rows[m].id = rows'[n].id
                                       /\ rows[m].schema = rows'[n].schema
      <4>1. CASE n = name
        BY <3>3, <3>4, <3>5, <4>1
      <4>2. CASE n # name
        BY <3>3, <3>8, <4>2 DEF Used
      <4>3. QED
        BY <4>1, <4>2
    <3>9. QED
      BY <1>2, <2>1, <3>1, <3>7, <3>8
  <2>4. QED
    BY <2>2, <2>3
<1>5. ASSUME NEW q \in Requests, DbUpdatePlatform(q) PROVE OriginsAgree'
  <2>1. /\ requests' = [requests EXCEPT ![q].at = "done"]
        /\ rowIds' = rowIds
        /\ Busy(q) /\ requests[q].op = "update"
    BY <1>5 DEF DbUpdatePlatform, Goto, Busy
  <2> DEFINE name == requests[q].name
             new == requests[q].new
             updated ==
               [rows[name] EXCEPT
                  !.type = requests[q].type,
                  !.path = StoredPath(q, rows[name].schema, @),
                  !.from = requests[q].from]
  <2>2. CASE rows' = rows
    BY <1>1, <2>1, <2>2
  <2>3. CASE /\ Used(name)
             /\ rows' = [[rows EXCEPT ![name] = NoRow] EXCEPT ![new] = updated]
    <3>1. name \in Names /\ new \in Names
      BY <2>1 DEF Typed, RequestsFilled
    <3>2. /\ rows'[new] = updated
          /\ \A m \in Names \ {new} : Used(m)' => Used(m) /\ rows'[m] = rows[m]
      BY <1>t, <2>3, <3>1 DEF Used
    <3>3. /\ updated.id = rows[name].id /\ updated.schema = rows[name].schema
          /\ updated.from = requests[q].from
          /\ updated.type = requests[q].type
      BY <1>t, <2>3, <3>1 DEF Rows
    <3> HIDE DEF updated, new, name
    <3>4. ASSUME NEW n \in Names, Used(n)'
          PROVE  \E m \in Names : Used(m) /\ rows[m].id = rows'[n].id
                                    /\ rows[m].schema = rows'[n].schema
      BY <2>3, <3>1, <3>2, <3>3, <3>4
    <3>5. ASSUME NEW from, NEW type, Stems(from, type)
          PROVE  NextStems(from, type)
      BY <2>1, <3>4, <3>5
    <3>6. ASSUME NEW m \in Names, Used(m)'
          PROVE  /\ rows'[m].id <= rowIds'
                 /\ NextStems(rows'[m].from, rows'[m].type)
      <4>1. CASE m = new
        <5>1. Stems(requests[q].from, requests[q].type)
          BY <1>o, <2>1
        <5>2. rows[name].id <= rowIds
          BY <1>o, <2>3, <3>1
        <5>3. NextStems(requests[q].from, requests[q].type)
          BY <3>5, <5>1
        <5> HIDE DEF NextStems
        <5>4. QED
          BY <2>1, <3>2, <3>3, <4>1, <5>2, <5>3
      <4>2. CASE m # new
        <5>1. Used(m) /\ rows'[m] = rows[m]
          BY <3>2, <3>6, <4>2
        <5>2. rows[m].id <= rowIds /\ Stems(rows[m].from, rows[m].type)
          BY <1>o, <5>1
        <5>3. NextStems(rows[m].from, rows[m].type)
          BY <3>5, <5>2
        <5> HIDE DEF NextStems
        <5>4. QED
          BY <2>1, <5>1, <5>2, <5>3
      <4>3. QED
        BY <4>1, <4>2
    <3>7. QED
      BY <1>2, <2>1, <3>4, <3>6
  <2>4. QED
    BY <1>5, <2>2, <2>3 DEF DbUpdatePlatform
<1>6. QED
  BY <1>1, <1>3, <1>4, <1>5, RowsKeep

\* No step gives a path of a key to a schema without the parameter.
LEMMA PathsHaveParameterStep ==
  ASSUME Typed, PathsHaveParameter, [Next]_vars
  PROVE  PathsHaveParameter'
<1>t. /\ rows \in [Names -> Rows \cup {NoRow}]
      /\ \A n \in Names : Used(n) => rows[n] \in Rows
  BY DEF Typed, TypeOK, Used
<1>1. CASE UNCHANGED <<rows, rowIds>>
  BY <1>1 DEF PathsHaveParameter, Used
<1>2. ASSUME NEW r \in Requests, DeletePlatform(r) PROVE PathsHaveParameter'
  <2>1. PICK name \in Names : rows' = [rows EXCEPT ![name] = NoRow]
    BY <1>2 DEF DeletePlatform
  <2>2. QED
    BY <1>t, <2>1 DEF PathsHaveParameter, Used
<1>3. ASSUME NEW r \in Requests, DbCreatePlatform(r) PROVE PathsHaveParameter'
  <2> DEFINE path == StoredPath(r, requests[r].type, NoKey)
  <2>1. ~StoresKeyPath(requests[r].type) => path = NoKey
    BY DEF StoredPath
  <2> HIDE DEF path
  <2>2. \/ rows' = rows
        \/ rows' = [rows EXCEPT ![requests[r].name] =
             [schema |-> requests[r].type, type |-> requests[r].type,
              path |-> path, id |-> rowIds + 1, from |-> rowIds + 1]]
    BY <1>3 DEF DbCreatePlatform, path
  <2>3. QED
    BY <1>t, <2>1, <2>2 DEF PathsHaveParameter, Used
<1>4. ASSUME NEW r \in Requests, DbUpdatePlatform(r) PROVE PathsHaveParameter'
  <2> DEFINE name == requests[r].name
             new == requests[r].new
             updated ==
               [rows[name] EXCEPT
                  !.type = requests[r].type,
                  !.path = StoredPath(r, rows[name].schema, @),
                  !.from = requests[r].from]
  <2>1. \/ rows' = rows
        \/ /\ Used(name)
           /\ rows' = [[rows EXCEPT ![name] = NoRow] EXCEPT ![new] = updated]
    BY <1>4 DEF DbUpdatePlatform
  <2>2. name \in Names
    BY <1>4 DEF DbUpdatePlatform, Typed, RequestsFilled, Busy
  <2>3. ASSUME Used(name), ~StoresKeyPath(updated.schema)
        PROVE  updated.path = NoKey
    <3>1. rows[name] \in Rows
      BY <1>t, <2>2, <2>3
    <3>2. updated.schema = rows[name].schema
      BY <3>1 DEF Rows
    <3>3. updated.path = StoredPath(r, rows[name].schema, rows[name].path)
      BY <3>1 DEF Rows
    <3>4. QED
      BY <2>2, <2>3, <3>2, <3>3 DEF StoredPath, PathsHaveParameter
  <2> HIDE DEF updated, new, name
  <2>4. QED
    BY <1>t, <2>1, <2>3 DEF PathsHaveParameter, Used
<1>5. QED
  BY <1>1, <1>2, <1>3, <1>4, RowsKeep

-----------------------------------------------------------------------------
(***************************************************************************)
(* Key files: they are written by two actions only, to names without one.  *)
(***************************************************************************)
LEMMA FilesWritten ==
  ASSUME PlatformsAssumption, Typed, CloudFilesRegistered, NamesChosen,
         [Next]_vars, NEW path \in Paths, files'[path] # files[path]
  PROVE  /\ ~overlap => files[path] = NoKey
         /\ \E r \in Requests :
              /\ requests[r].path.type = path.type
              /\ \/ WriteKeyFile(r) /\ path = requests[r].path
                 \/ CreateKeyPair(r) /\ path \in registered'
<1>1. PICK r \in Requests : WriteKeyFile(r) \/ CreateKeyPair(r)
  BY DEF Next, Request, vars, BeginCreate, BeginUpdate, Refuse, NoKeyToGenerate,
     ChooseKeyFile, InstallKey, CreateSecurityGroup, DbCreatePlatform,
     DbUpdatePlatform, DeletePlatform, GetPlatformSettings, EndPass
<1>2. CASE WriteKeyFile(r)
  <2>1. path = requests[r].path
    BY <1>2 DEF WriteKeyFile, Typed, TypeOK
  <2>2. ~overlap => files[path] = NoKey
    BY <1>2, <2>1 DEF WriteKeyFile, NamesChosen
  <2>3. QED
    BY <1>2, <2>1, <2>2
<1>3. CASE CreateKeyPair(r)
  <2> DEFINE named(n) == [requests[r].path EXCEPT !.n = n]
  <2>1. PICK n \in 0 .. MaxCounter :
          /\ named(n) \notin registered
          /\ registered' = registered \cup {named(n)}
          /\ files' = [files EXCEPT ![named(n)] = keys + 1]
    BY <1>3 DEF CreateKeyPair
  <2>2. requests[r].path \in Paths /\ requests[r].path.type = requests[r].type
          /\ KeySource(r) = "cloud"
    BY <1>3 DEF CreateKeyPair, Typed, RequestsFilled, Busy
  <2>3. named(n) \in Paths /\ named(n).type = requests[r].path.type
    BY <2>2, PathCounter
  <2> HIDE DEF named
  <2>4. path = named(n)
    BY <2>1 DEF Typed, TypeOK
  <2>5. path \in registered'
    BY <2>1, <2>4
  <2>6. files[path] = NoKey
    BY <2>1, <2>2, <2>3, <2>4 DEF CloudFilesRegistered, KeySource
  <2>7. QED
    BY <1>3, <2>3, <2>4, <2>5, <2>6
<1>4. QED
  BY <1>1, <1>2, <1>3

\* overlap is never reset.
LEMMA OverlapStays ==
  ASSUME [Next]_vars
  PROVE  overlap => overlap'
<1>1. ASSUME NEW r \in Requests, ChooseKeyFile(r) PROVE overlap => overlap'
  BY <1>1, Zenon DEF ChooseKeyFile
<1>2. CASE overlap' = overlap
  BY <1>2
<1>3. QED
  BY <1>1, <1>2 DEF Next, Request, vars, BeginCreate, BeginUpdate, Refuse,
     NoKeyToGenerate, WriteKeyFile, InstallKey, CreateKeyPair,
     CreateSecurityGroup, DbCreatePlatform, DbUpdatePlatform, DeletePlatform,
     GetPlatformSettings, EndPass

\* An accepted key stays in its file and stays accepted.
LEMMA KeysStay ==
  ASSUME PlatformsAssumption, Typed, CloudFilesRegistered, NamesChosen,
         [Next]_vars, ~overlap',
         NEW path \in Paths, files[path] \in authorized
  PROVE  ~overlap /\ files'[path] \in authorized'
<1>1. NoKey \notin authorized
  <2>1. authorized \subseteq Nat
    BY DEF Typed, TypeOK, KeyPairs, PlatformsAssumption
  <2>2. QED
    BY <2>1 DEF PlatformsAssumption
<1>2. overlap => overlap'
  BY OverlapStays
<1>3. files'[path] = files[path]
  BY <1>1, <1>2, FilesWritten
<1>4. authorized \subseteq authorized'
  BY DEF Next, Request, vars, BeginCreate, BeginUpdate, Refuse, NoKeyToGenerate,
     ChooseKeyFile, WriteKeyFile, InstallKey, CreateKeyPair,
     CreateSecurityGroup, DbCreatePlatform, DbUpdatePlatform, DeletePlatform,
     GetPlatformSettings, EndPass
<1>5. QED
  BY <1>2, <1>3, <1>4

\* A step of another request, or of a pass, leaves a request as it is.
LEMMA OthersKeep ==
  ASSUME Typed, [Next]_vars, NEW r \in Requests
  PROVE  requests'[r] = requests[r] \/ Request(r)
<1>1. ASSUME NEW q \in Requests, Request(q), q # r
      PROVE  requests'[r] = requests[r]
  BY <1>1 DEF Typed, TypeOK, Request, BeginCreate, BeginUpdate, Refuse,
     NoKeyToGenerate, ChooseKeyFile, WriteKeyFile, InstallKey, CreateKeyPair,
     CreateSecurityGroup, DbCreatePlatform, DbUpdatePlatform, DeletePlatform,
     Goto
<1>2. QED
  BY <1>1 DEF Next, vars, GetPlatformSettings, EndPass

\* Every step keeps the key files of clouds registered.
LEMMA CloudFilesRegisteredStep ==
  ASSUME PlatformsAssumption, Typed, CloudFilesRegistered, NamesChosen,
         [Next]_vars
  PROVE  CloudFilesRegistered'
<1> SUFFICES ASSUME NEW path \in Paths,
                    Hook(path.type).key = "cloud", files'[path] # NoKey
             PROVE  path \in registered'
  BY DEF CloudFilesRegistered
<1>1. registered \subseteq registered'
  BY DEF Next, Request, vars, BeginCreate, BeginUpdate, Refuse, NoKeyToGenerate,
     ChooseKeyFile, WriteKeyFile, InstallKey, CreateKeyPair,
     CreateSecurityGroup, DbCreatePlatform, DbUpdatePlatform, DeletePlatform,
     GetPlatformSettings, EndPass
<1>2. CASE files'[path] = files[path]
  BY <1>1, <1>2 DEF CloudFilesRegistered
<1>3. CASE files'[path] # files[path]
  <2>1. PICK r \in Requests :
          \/ WriteKeyFile(r) /\ path = requests[r].path
          \/ path \in registered'
    BY <1>3, FilesWritten
  <2>2. ~(WriteKeyFile(r) /\ path = requests[r].path)
    BY DEF WriteKeyFile, NamesChosen
  <2>3. QED
    BY <2>1, <2>2
<1>4. QED
  BY <1>2, <1>3

\* A request whose name is chosen has just chosen it, or had it before.
LEMMA NamedKeep ==
  ASSUME Typed, [Next]_vars, NEW r \in Requests, requests'[r].at = "named"
  PROVE  requests'[r] = requests[r] \/ ChooseKeyFile(r)
<1>1. SUFFICES ASSUME Request(r) PROVE ChooseKeyFile(r)
  BY OthersKeep
<1> USE DEF Typed, TypeOK, RequestStates
<1>2. ~BeginCreate(r)
  BY DEF BeginCreate
<1>3. ~BeginUpdate(r)
  BY DEF BeginUpdate, NoRequest
<1>4. ~(Refuse(r) \/ NoKeyToGenerate(r) \/ WriteKeyFile(r) \/ InstallKey(r)
        \/ CreateSecurityGroup(r))
  BY DEF Refuse, NoKeyToGenerate, WriteKeyFile, InstallKey,
     CreateSecurityGroup, Goto
<1>5. ~CreateKeyPair(r)
  <2>1. CreateKeyPair(r) => \E path :
          requests' = [requests EXCEPT ![r].at = "written", ![r].path = path]
    BY DEF CreateKeyPair
  <2>2. QED
    BY <2>1
<1>6. ~(DbCreatePlatform(r) \/ DbUpdatePlatform(r) \/ DeletePlatform(r))
  BY DEF DbCreatePlatform, DbUpdatePlatform, DeletePlatform, Goto
<1>7. QED
  BY <1>1, <1>2, <1>3, <1>4, <1>5, <1>6 DEF Request

\* The path that ChooseKeyFile has chosen.
LEMMA PathChosen ==
  ASSUME Typed, NEW r \in Requests, ChooseKeyFile(r)
  PROVE  /\ requests'[r].path \in Paths
         /\ Hook(requests'[r].path.type).key = "ssh"
         /\ files'[requests'[r].path] = NoKey
         /\ ~overlap' => \A q \in Requests \ {r} :
              requests[q].at = "named" => requests[q].path # requests'[r].path
         /\ \A q \in Requests \ {r} : requests'[q] = requests[q]
<1> DEFINE chosen(n) == [requests[r].path EXCEPT !.n = n]
<1>1. PICK n \in FreeCounters(r) :
        /\ requests' =
             [requests EXCEPT ![r].at = "named", ![r].path = chosen(n)]
        /\ ~overlap' => \A q \in Requests \ {r} :
             requests[q].at = "named" => requests[q].path # chosen(n)
  BY Zenon DEF ChooseKeyFile
<1>2. n \in 0 .. MaxCounter /\ files[chosen(n)] = NoKey
  BY DEF FreeCounters
<1>3. /\ requests[r].path \in Paths /\ requests[r].path.type = requests[r].type
      /\ KeySource(r) = "ssh" /\ files' = files
  BY DEF ChooseKeyFile, Typed, RequestsFilled, Busy
<1>4. chosen(n) \in Paths /\ chosen(n).type = requests[r].path.type
  BY <1>2, <1>3, PathCounter
<1> HIDE DEF chosen
<1>5. /\ requests'[r].path = chosen(n)
      /\ \A q \in Requests \ {r} : requests'[q] = requests[q]
  BY <1>1 DEF Typed, TypeOK, RequestStates
<1>6. QED
  BY <1>1, <1>2, <1>3, <1>4, <1>5 DEF KeySource

\* Every step keeps the file whose name a request has chosen free.
LEMMA NamesChosenStep ==
  ASSUME PlatformsAssumption, Typed, CloudFilesRegistered, NamesChosen,
         [Next]_vars
  PROVE  NamesChosen'
<1> SUFFICES ASSUME NEW r \in Requests, requests'[r].at = "named"
             PROVE  /\ Hook(requests'[r].path.type).key = "ssh"
                    /\ ~overlap' =>
                         /\ files'[requests'[r].path] = NoKey
                         /\ \A q \in Requests \ {r} :
                              requests'[q].at = "named" =>
                                requests'[q].path # requests'[r].path
  BY DEF NamesChosen
<1>1. Hook(requests'[r].path.type).key = "ssh"
  BY NamedKeep, PathChosen DEF NamesChosen
<1>2. ~overlap' => ~overlap
  BY OverlapStays
<1>3. ASSUME ~overlap' PROVE files'[requests'[r].path] = NoKey
  <2>1. CASE ChooseKeyFile(r)
    BY <2>1, PathChosen
  <2>2. CASE requests'[r] = requests[r]
    <3> DEFINE path == requests[r].path
    <3>1. path \in Paths /\ files[path] = NoKey
      BY <1>2, <1>3, <2>2 DEF NamesChosen, Typed, RequestsFilled, Busy
    <3>2. SUFFICES ASSUME files'[path] # files[path] PROVE FALSE
      BY <2>2, <3>1
    <3>3. PICK q \in Requests :
            /\ requests[q].path.type = path.type
            /\ \/ WriteKeyFile(q) /\ path = requests[q].path
               \/ CreateKeyPair(q)
      BY <3>1, <3>2, FilesWritten
    <3>4. CASE WriteKeyFile(q) /\ path = requests[q].path
      <4>1. q # r
        BY <2>2, <3>4 DEF WriteKeyFile, Goto, Typed, TypeOK, RequestStates
      <4>2. QED
        BY <1>2, <1>3, <2>2, <3>4, <4>1 DEF WriteKeyFile, NamesChosen
    <3>5. CASE CreateKeyPair(q)
      <4>1. requests[q].path.type = requests[q].type /\ KeySource(q) = "cloud"
        BY <3>5 DEF CreateKeyPair, Typed, RequestsFilled, Busy
      <4>2. Hook(path.type).key = "ssh"
        BY <2>2 DEF NamesChosen
      <4>3. QED
        BY <3>3, <4>1, <4>2 DEF KeySource
    <3>6. QED
      BY <3>3, <3>4, <3>5
  <2>3. QED
    BY <2>1, <2>2, NamedKeep
<1>4. ASSUME ~overlap', NEW q \in Requests \ {r}, requests'[q].at = "named"
      PROVE  requests'[q].path # requests'[r].path
  <2>1. CASE ChooseKeyFile(r)
    BY <1>4, <2>1, PathChosen
  <2>2. CASE ChooseKeyFile(q)
    <3>1. r \in Requests \ {q} /\ q \in Requests
      BY <1>4
    <3>2. requests'[r] = requests[r]
      BY <2>2, <3>1, PathChosen
    <3>3. requests[r].path # requests'[q].path
      BY <1>4, <2>2, <3>1, <3>2, PathChosen
    <3>4. QED
      BY <3>2, <3>3
  <2>3. CASE requests'[r] = requests[r] /\ requests'[q] = requests[q]
    BY <1>2, <1>4, <2>3 DEF NamesChosen
  <2>4. QED
    BY <1>4, <2>1, <2>2, <2>3, NamedKeep
<1>5. QED
  BY <1>1, <1>3, <1>4

\* Every step keeps the key that a request will store accepted.
LEMMA KeysMadeStep ==
  ASSUME PlatformsAssumption, Typed, CloudFilesRegistered, NamesChosen,
         KeysMade,
         [Next]_vars
  PROVE  KeysMade'
<1> DEFINE Has(r) == \/ requests[r].at = "ready" /\ KeySource(r) # "none"
                     \/ requests[r].at = "written" /\ KeySource(r) = "cloud"
<1> SUFFICES ASSUME ~overlap', NEW r \in Requests, Has(r)'
             PROVE  files'[requests'[r].path] \in authorized'
  BY DEF KeysMade
<1> USE DEF KeySource
<1>o. ~overlap
  BY OverlapStays
<1>1. ASSUME Has(r), requests'[r].path = requests[r].path
      PROVE  files'[requests'[r].path] \in authorized'
  <2>1. requests[r].path \in Paths /\ files[requests[r].path] \in authorized
    BY <1>o, <1>1 DEF KeysMade, Typed, RequestsFilled, Busy
  <2>2. QED
    BY <1>1, <2>1, KeysStay
<1>2. CASE requests'[r] = requests[r]
  BY <1>1, <1>2
<1>3. CASE Request(r)
  <2> USE DEF Typed, TypeOK, RequestStates
  <2>1. ~BeginCreate(r)
    BY DEF BeginCreate
  <2>2. ~BeginUpdate(r)
    BY DEF BeginUpdate, NoRequest
  <2>3. ~(Refuse(r) \/ NoKeyToGenerate(r))
    BY DEF Refuse, NoKeyToGenerate, Goto
  <2>4. ~ChooseKeyFile(r)
    <3>1. ChooseKeyFile(r) => \E path :
            requests' = [requests EXCEPT ![r].at = "named", ![r].path = path]
      BY DEF ChooseKeyFile
    <3>2. QED
      BY <3>1
  <2>5. ~WriteKeyFile(r)
    <3>1. SUFFICES ASSUME WriteKeyFile(r) PROVE FALSE
      OBVIOUS
    <3>2. requests' = [requests EXCEPT ![r].at = "written"]
      BY <3>1 DEF WriteKeyFile, Goto
    <3>3. KeySource(r) = "ssh"
      BY <3>1 DEF WriteKeyFile, NamesChosen, RequestsFilled, Busy
    <3>4. QED
      BY <3>2, <3>3
  <2>6. CASE InstallKey(r)
    BY <2>6 DEF InstallKey, Goto
  <2>7. CASE CreateKeyPair(r)
    <3>1. PICK path :
            /\ requests' =
                 [requests EXCEPT ![r].at = "written", ![r].path = path]
            /\ files' = [files EXCEPT ![path] = keys + 1]
      BY <2>7 DEF CreateKeyPair
    <3>2. path \in Paths
      BY <3>1, TypedStep DEF RequestsFilled, Busy
    <3>3. files'[requests'[r].path] = keys + 1
      BY <3>1, <3>2
    <3>4. QED
      BY <2>7, <3>3 DEF CreateKeyPair
  <2>8. CASE CreateSecurityGroup(r)
    <3>1. /\ requests' = [requests EXCEPT ![r].at = "ready"]
          /\ Has(r)
      BY <2>8 DEF CreateSecurityGroup, Goto
    <3>2. requests'[r].path = requests[r].path
      BY <3>1
    <3>3. QED
      BY <1>1, <3>1, <3>2
  <2>9. ~(DbCreatePlatform(r) \/ DbUpdatePlatform(r) \/ DeletePlatform(r))
    BY DEF DbCreatePlatform, DbUpdatePlatform, DeletePlatform, Goto
  <2>10. QED
    BY <1>3, <2>1, <2>2, <2>3, <2>4, <2>5, <2>6, <2>7, <2>8, <2>9 DEF Request
<1>4. QED
  BY <1>2, <1>3, OthersKeep

\* A pass connects with a record that it has read.
LEMMA PassesFilledStep ==
  ASSUME Typed, PassesFilled, [Next]_vars
  PROVE  PassesFilled'
<1>1. CASE passes' = passes
  BY <1>1 DEF PassesFilled
<1>2. ASSUME NEW j \in Jobs, GetPlatformSettings(j) PROVE PassesFilled'
  <2> DEFINE name == passes[j].name
  <2>1. name \in Names
    BY DEF Typed, TypeOK
  <2>2. passes' = [passes EXCEPT ![j].row = rows[name],
                     ![j].at = IF Used(name) THEN "connecting" ELSE "failed"]
    BY <1>2 DEF GetPlatformSettings
  <2>3. Used(name) => rows[name] \in Rows
    BY <2>1 DEF Typed, TypeOK, Used
  <2> HIDE DEF name
  <2>4. QED
    BY <2>2, <2>3 DEF Typed, TypeOK, PassesFilled
<1>3. ASSUME NEW j \in Jobs, EndPass(j) PROVE PassesFilled'
  BY <1>3 DEF EndPass, Typed, TypeOK, PassesFilled
<1>4. QED
  BY <1>1, <1>2, <1>3 DEF Next, Request, vars, BeginCreate, BeginUpdate, Refuse,
     NoKeyToGenerate, ChooseKeyFile, WriteKeyFile, InstallKey, CreateKeyPair,
     CreateSecurityGroup, DbCreatePlatform, DbUpdatePlatform, DeletePlatform

\* The settings of passes are records that were stored.
LEMMA SettingsStep ==
  ASSUME Typed, PassesFilled, [Next]_vars, NEW row \in Settings'
  PROVE  \/ row \in Settings
         \/ \E name \in Names : Used(name)' /\ row = rows'[name]
<1>1. CASE \E name \in Names : Used(name)' /\ row = rows'[name]
  BY <1>1
<1>2. ASSUME NEW j \in Jobs, passes'[j].at = "connecting", row = passes'[j].row
      PROVE  row \in Settings
  <2>1. CASE passes'[j] = passes[j]
    BY <1>2, <2>1 DEF Settings
  <2>2. CASE GetPlatformSettings(j)
    <3> DEFINE name == passes[j].name
    <3>1. name \in Names
      BY DEF Typed, TypeOK
    <3>2. passes' = [passes EXCEPT ![j].row = rows[name],
                       ![j].at = IF Used(name) THEN "connecting" ELSE "failed"]
      BY <2>2 DEF GetPlatformSettings
    <3> HIDE DEF name
    <3>3. Used(name) /\ row = rows[name]
      BY <1>2, <3>2 DEF Typed, TypeOK
    <3>4. QED
      BY <3>1, <3>3 DEF Settings
  <2>3. CASE EndPass(j)
    BY <1>2, <2>3 DEF EndPass, Typed, TypeOK
  <2>4. QED
    <3>1. ASSUME NEW i \in Jobs, GetPlatformSettings(i) \/ EndPass(i), i # j
          PROVE  passes'[j] = passes[j]
      BY <3>1 DEF GetPlatformSettings, EndPass, Typed, TypeOK
    <3>2. QED
      BY <2>1, <2>2, <2>3, <3>1 DEF Next, Request, vars, BeginCreate,
         BeginUpdate, Refuse, NoKeyToGenerate, ChooseKeyFile, WriteKeyFile,
         InstallKey, CreateKeyPair, CreateSecurityGroup, DbCreatePlatform,
         DbUpdatePlatform, DeletePlatform
<1>3. QED
  BY <1>1, <1>2 DEF Settings, Used

\* Every step keeps the stored keys accepted.
LEMMA KeysWorkStep ==
  ASSUME PlatformsAssumption, KeyInv, [Next]_vars
  PROVE  KeysWork'
<1> USE DEF KeyInv
<1>t. /\ rows \in [Names -> Rows \cup {NoRow}]
      /\ \A n \in Names : Used(n) => rows[n] \in Rows
  BY DEF Typed, TypeOK, Used
<1> SUFFICES ASSUME ~overlap', NEW row \in Settings', row.path # NoKey,
                    row.from = row.id
             PROVE  files'[row.path] \in authorized'
  BY DEF KeysWork
<1>o. ~overlap
  BY OverlapStays
\* A row as it was.
<1>1. ASSUME row \in Settings PROVE files'[row.path] \in authorized'
  <2>1. row \in Rows
    BY <1>t, <1>1 DEF Settings, PassesFilled
  <2>2. row.path \in Paths
    BY <2>1 DEF Rows
  <2>3. files[row.path] \in authorized
    BY <1>o, <1>1 DEF KeysWork
  <2>4. QED
    BY <2>2, <2>3, KeysStay
\* A row with the path of a request.
<1>2. ASSUME NEW r \in Requests, requests[r].at = "ready",
             StoresKeyPath(requests[r].type), row.path = requests[r].path
      PROVE  files'[row.path] \in authorized'
  <2>1. /\ requests[r].path \in Paths
        /\ requests[r].type \in KnownTypes
    BY <1>2 DEF Typed, RequestsFilled, Busy, PlatformsAssumption
  <2>2. KeySource(r) # "none"
    BY <1>2, <2>1, HookKinds DEF KeySource
  <2>3. files[row.path] \in authorized
    BY <1>o, <1>2, <2>2 DEF KeysMade
  <2>4. QED
    BY <1>2, <2>1, <2>3, KeysStay
<1>3. ASSUME NEW name \in Names, Used(name)', row = rows'[name],
             row \notin Settings
      PROVE  files'[row.path] \in authorized'
  <2>1. ~(Used(name) /\ rows'[name] = rows[name])
    BY <1>3 DEF Settings
  <2>2. ASSUME NEW r \in Requests, DbCreatePlatform(r)
        PROVE  files'[row.path] \in authorized'
    <3> DEFINE type == requests[r].type
               path == StoredPath(r, type, NoKey)
    <3>1. \/ rows' = rows
          \/ rows' = [rows EXCEPT ![requests[r].name] =
               [schema |-> type, type |-> type, path |-> path,
                id |-> rowIds + 1, from |-> rowIds + 1]]
      BY <2>2 DEF DbCreatePlatform
    <3>2. row.path = path
      <4> HIDE DEF path, type
      <4>1. QED
        BY <1>t, <1>3, <2>1, <3>1 DEF Used
    <3>3. StoresKeyPath(type) /\ path = requests[r].path
      BY <3>2 DEF StoredPath
    <3>4. QED
      BY <1>2, <2>2, <3>2, <3>3 DEF DbCreatePlatform
  <2>3. ASSUME NEW r \in Requests, DbUpdatePlatform(r)
        PROVE  files'[row.path] \in authorized'
    <3> DEFINE old == requests[r].name
               new == requests[r].new
               updated ==
                 [rows[old] EXCEPT
                    !.type = requests[r].type,
                    !.path = StoredPath(r, rows[old].schema, @),
                    !.from = requests[r].from]
    <3>1. \/ rows' = rows
          \/ /\ Used(old)
             /\ rows' = [[rows EXCEPT ![old] = NoRow] EXCEPT ![new] = updated]
      BY <2>3 DEF DbUpdatePlatform
    <3>2. /\ requests[r].at = "ready" /\ requests[r].op = "update"
          /\ old \in Names /\ new \in Names
          /\ requests[r].type \in KnownTypes
      BY <2>3 DEF DbUpdatePlatform, Typed, RequestsFilled, Busy,
         PlatformsAssumption
    <3>3. Used(old) /\ row = updated
      <4> HIDE DEF old, new, updated
      <4>1. QED
        BY <1>t, <1>3, <2>1, <3>1, <3>2 DEF Used
    <3>4. rows[old] \in Rows
      BY <1>t, <3>2, <3>3
    <3>5. /\ row.id = rows[old].id /\ row.from = requests[r].from
          /\ row.path = StoredPath(r, rows[old].schema, rows[old].path)
      BY <3>3, <3>4 DEF Rows
    <3>6. rows[old].schema = requests[r].type
      <4>1. rows[old].id = requests[r].from
        BY <3>5
      <4>2. QED
        BY <3>2, <3>3, <4>1 DEF OriginsAgree, Busy
    <3>7. StoresKeyPath(requests[r].type)
      <4>1. SUFFICES ASSUME ~StoresKeyPath(rows[old].schema) PROVE FALSE
        BY <3>6
      <4>2. row.path = rows[old].path
        BY <3>5, <4>1 DEF StoredPath
      <4>3. QED
        BY <3>2, <3>3, <4>1, <4>2 DEF PathsHaveParameter
    <3>8. row.path = requests[r].path
      BY <3>2, <3>5, <3>6, <3>7, HookKinds DEF StoredPath
    <3>9. QED
      BY <1>2, <3>2, <3>7, <3>8
  <2>4. ASSUME NEW r \in Requests, DeletePlatform(r) PROVE FALSE
    <3>1. PICK other \in Names : rows' = [rows EXCEPT ![other] = NoRow]
      BY <2>4 DEF DeletePlatform
    <3>2. QED
      BY <1>t, <1>3, <2>1, <3>1 DEF Used
  <2>5. CASE UNCHANGED <<rows, rowIds>>
    BY <1>3, <2>1, <2>5 DEF Used
  <2>6. QED
    BY <2>2, <2>3, <2>4, <2>5, RowsKeep
<1>4. QED
  BY <1>1, <1>3, SettingsStep

(***************************************************************************)
(* KeysWork, in every reachable state.                                     *)
(***************************************************************************)
THEOREM KeysAlwaysWork ==
  ASSUME PlatformsAssumption
  PROVE  Spec => []KeysWork
<1>1. Init => KeyInv
  <2> SUFFICES ASSUME Init PROVE KeyInv
    OBVIOUS
  <2>1. Typed
    BY InitTyped
  <2>2. /\ \A n \in Names : ~Used(n)
        /\ \A r \in Requests : requests[r].at = "idle"
        /\ \A j \in Jobs : passes[j].at = "idle"
        /\ \A path \in Paths : files[path] = NoKey
    BY DEF Init, NoRequest, Used
  <2>3. OriginsAgree /\ PathsHaveParameter /\ PassesFilled
    BY <2>2 DEF OriginsAgree, PathsHaveParameter, PassesFilled, Busy
  <2>4. CloudFilesRegistered /\ NamesChosen /\ KeysMade
    BY <2>2 DEF CloudFilesRegistered, NamesChosen, KeysMade
  <2>5. KeysWork
    BY <2>2 DEF KeysWork, Settings
  <2>6. QED
    BY <2>1, <2>3, <2>4, <2>5 DEF KeyInv
<1>2. KeyInv /\ [Next]_vars => KeyInv'
  BY TypedStep, PassesFilledStep, OriginsStep, PathsHaveParameterStep,
     CloudFilesRegisteredStep, NamesChosenStep, KeysMadeStep, KeysWorkStep
     DEF KeyInv
<1>3. KeyInv => KeysWork
  BY DEF KeyInv
<1>4. QED
  BY <1>1, <1>2, <1>3, PTL DEF Spec

=============================================================================
