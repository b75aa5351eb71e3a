----------------------------- MODULE Platforms -----------------------------
(***************************************************************************)
(* The platforms of one user: requests of the web and REST interfaces that *)
(* create, update and delete platform records (platform/manage.py), the    *)
(* key pairs made on the way (platform/generatekeys.py, botoconnector.py), *)
(* and the passes of jobs that read a record and then connect with its     *)
(* key.  Requests are served by separate processes: between the steps of   *)
(* one, which are calls of other machines, others run.                     *)
(*                                                                         *)
(* A form is posted for the kind of platform that its user sees.           *)
(***************************************************************************)
EXTENDS Naturals, FiniteSets

CONSTANTS
  Names,      \* names of platforms
  Kinds,      \* kinds of platform that are used, a subset of KnownTypes
  Requests,   \* requests of the web and REST interfaces
  Jobs,       \* jobs, each with one computation platform
  NoRow,      \* no record has the name
  NoKey,      \* no key file, or a platform without keys
  MaxCounter, \* bound: counter in the name of a key file
  MaxKeys     \* bound: key pairs

(***************************************************************************)
(* The hooks of PLATFORM_CLASSES: the types of platform each serves and    *)
(* where the private key comes from: "ssh" is generated here and installed *)
(* on the host, "cloud" is generated by the cloud, "none" makes no key.    *)
(* configure sets the parameter private_key_path, or does not.             *)
(***************************************************************************)
RemoteFileSystemPlatform ==
  [types |-> {"rfs", "nci"}, key |-> "ssh", setsPath |-> TRUE]
CloudPlatform ==
  [types |-> {"csrack", "nectar", "amazon"}, key |-> "cloud",
   setsPath |-> TRUE]
JenkinsPlatform == [types |-> {"jenkins"}, key |-> "none", setsPath |-> FALSE]
MyTardisPlatform == [types |-> {"mytardis"}, key |-> "none", setsPath |-> TRUE]
HadoopPlatform == [types |-> {"hadoop"}, key |-> "ssh", setsPath |-> TRUE]

PlatformClasses == {RemoteFileSystemPlatform, CloudPlatform, JenkinsPlatform,
                    MyTardisPlatform, HadoopPlatform}
KnownTypes == UNION {hook.types : hook \in PlatformClasses}
Hook(type) == CHOOSE hook \in PlatformClasses : type \in hook.types

\* Schemas with a parameter private_key_path; other schemas drop its value.
StoresKeyPath(type) == type \notin {"jenkins", "mytardis"}

PlatformsAssumption ==
  /\ Kinds \subseteq KnownTypes
  /\ NoKey \notin Nat
  /\ MaxCounter \in Nat
  /\ MaxKeys \in Nat

VARIABLES
  rows,       \* the record stored under each name
  requests,   \* the state of each request
  files,      \* key files on the portal: the key pair in each
  authorized, \* key pairs that the hosts and clouds accept
  registered, \* names of key pairs taken in the account at the cloud
  keys,       \* number of key pairs made
  rowIds,     \* number of records created
  passes,     \* the settings that a pass of each job has read
  overlap     \* two requests have chosen the same name for a key file

vars == <<rows, requests, files, authorized, registered, keys, rowIds, passes,
          overlap>>

KeyPairs == 1 .. MaxKeys
Paths == [type : Kinds, name : Names, n : 0 .. MaxCounter]
\* .../bdp_<name>, .../bdp_<name>_1, ...
Path(type, name, n) == [type |-> type, name |-> name, n |-> n]
\* A record: its schema, the parameters platform_type and private_key_path,
\* its identity, and the identity of the record that its values stem from.
Rows == [schema : Kinds, type : Kinds, path : Paths \cup {NoKey},
         id : 1 .. MaxKeys, from : 1 .. MaxKeys]
\* What a request has done and the values it has computed.
RequestStates ==
  [at : {"idle", "checked", "named", "written", "ready", "done"},
   op : {"create", "update", "none"},
   name : Names \cup {NoRow}, new : Names \cup {NoRow},
   type : Kinds \cup {NoKey}, path : Paths \cup {NoKey},
   from : 0 .. MaxKeys]
NoRequest == [at |-> "done", op |-> "none", name |-> NoRow, new |-> NoRow,
              type |-> NoKey, path |-> NoKey, from |-> 0]

TypeOK ==
  /\ rows \in [Names -> Rows \cup {NoRow}]
  /\ requests \in [Requests -> RequestStates]
  /\ files \in [Paths -> KeyPairs \cup {NoKey}]
  /\ authorized \subseteq KeyPairs
  /\ registered \subseteq Paths
  /\ keys \in 0 .. MaxKeys
  /\ rowIds \in 0 .. MaxKeys
  /\ passes \in [Jobs -> [name : Names, row : Rows \cup {NoRow},
                          at : {"idle", "connecting", "failed"}]]
  /\ overlap \in BOOLEAN

Init ==
  /\ rows = [n \in Names |-> NoRow]
  /\ requests = [r \in Requests |-> [NoRequest EXCEPT !.at = "idle"]]
  /\ files = [p \in Paths |-> NoKey]
  /\ authorized = {}
  /\ registered = {}
  /\ keys = 0
  /\ rowIds = 0
  /\ passes \in [Jobs -> [name : Names, row : {NoRow}, at : {"idle"}]]
  /\ overlap = FALSE

Used(n) == rows[n] # NoRow
Goto(r, step) == requests' = [requests EXCEPT ![r].at = step]

-----------------------------------------------------------------------------
\* _create_platform, create_platform up to _configure_platform: a hook serves
\* the type; the name is not looked up yet.
BeginCreate(r) ==
  /\ requests[r].at = "idle"
  /\ \E name \in Names, type \in Kinds :
       requests' = [requests EXCEPT ![r] =
         [at |-> "checked", op |-> "create", name |-> name, new |-> name,
          type |-> type, path |-> Path(type, name, 0), from |-> 0]]
  /\ UNCHANGED <<rows, files, authorized, registered, keys, rowIds, passes,
                 overlap>>

\* update_platform: the record is read, outside of any transaction, and merged
\* with the parameters of the form; its type stays.  A record that is not there
\* is a KeyError.
BeginUpdate(r) ==
  /\ requests[r].at = "idle"
  /\ \E name \in Names, new \in Names :
       requests' = [requests EXCEPT ![r] =
         IF Used(name)
         THEN [at |-> "checked", op |-> "update", name |-> name, new |-> new,
               type |-> rows[name].type,
               path |-> Path(rows[name].type, new, 0),
               from |-> rows[name].from]
         ELSE NoRequest]
  /\ UNCHANGED <<rows, files, authorized, registered, keys, rowIds, passes,
                 overlap>>

\* Missing parameters, a path or an address that does not exist, a password or
\* an account that is refused, an error of the network: the message of the
\* exception is returned.  Keys that were made stay.
Refuse(r) ==
  /\ requests[r].at \in {"checked", "written"}
  /\ Goto(r, "done")
  /\ UNCHANGED <<rows, files, authorized, registered, keys, rowIds, passes,
                 overlap>>

KeySource(r) == Hook(requests[r].type).key

\* jenkins.generate_key, mytardis.generate_key
NoKeyToGenerate(r) ==
  /\ requests[r].at = "checked"
  /\ KeySource(r) = "none"
  /\ Goto(r, "ready")
  /\ UNCHANGED <<rows, files, authorized, registered, keys, rowIds, passes,
                 overlap>>

FreeCounters(r) ==
  {n \in 0 .. MaxCounter :
     files[[requests[r].path EXCEPT !.n = n]] = NoKey}

\* A bug: the file of an earlier key pair of the name is taken again.
ChooseSameKeyFile(r) ==
  /\ requests[r].at = "checked"
  /\ KeySource(r) = "ssh"
  /\ requests' = [requests EXCEPT ![r].at = "named"]
  /\ overlap' = (overlap \/ \E q \in Requests \ {r} :
       requests[q].at = "named" /\ requests[q].path = requests[r].path)
  /\ UNCHANGED <<rows, files, authorized, registered, keys, rowIds, passes>>

\* generate_rfs_key: the first name for which no file exists.
ChooseKeyFile(r) ==
  /\ requests[r].at = "checked"
  /\ KeySource(r) = "ssh"
  /\ \E n \in FreeCounters(r) :
       LET path == [requests[r].path EXCEPT !.n = n]
       IN  /\ \A m \in FreeCounters(r) : n <= m
           /\ requests' = [requests EXCEPT ![r].at = "named", ![r].path = path]
           /\ overlap' = (overlap \/ \E q \in Requests \ {r} :
                            requests[q].at = "named" /\ requests[q].path = path)
  /\ UNCHANGED <<rows, files, authorized, registered, keys, rowIds, passes>>

\* write_private_key_file overwrites.
WriteKeyFile(r) ==
  /\ requests[r].at = "named"
  /\ keys < MaxKeys
  /\ keys' = keys + 1
  /\ files' = [files EXCEPT ![requests[r].path] = keys + 1]
  /\ Goto(r, "written")
  /\ UNCHANGED <<rows, authorized, registered, rowIds, passes, overlap>>

\* The public key is computed from the file and appended to authorized_keys.
InstallKey(r) ==
  /\ requests[r].at = "written"
  /\ KeySource(r) = "ssh"
  /\ authorized' = authorized \cup {files[requests[r].path]}
  /\ Goto(r, "ready")
  /\ UNCHANGED <<rows, files, registered, keys, rowIds, passes, overlap>>

\* create_key_pair: the cloud refuses a name that is taken in the account, the
\* next one is tried.  (The loop also skips names of files, without the
\* extension that key files have: there are none.)
CreateKeyPair(r) ==
  /\ requests[r].at = "checked"
  /\ KeySource(r) = "cloud"
  /\ keys < MaxKeys
  /\ \E n \in 0 .. MaxCounter :
       LET path == [requests[r].path EXCEPT !.n = n]
       IN  /\ path \notin registered
           /\ \A m \in 0 .. n - 1 : [path EXCEPT !.n = m] \in registered
           /\ registered' = registered \cup {path}
           /\ requests' = [requests EXCEPT ![r].at = "written",
                                           ![r].path = path]
           \* key_pair.save: no file has the name, the cloud gives it once
           /\ files' = [files EXCEPT ![path] = keys + 1]
  /\ keys' = keys + 1
  /\ authorized' = authorized \cup {keys + 1}
  /\ UNCHANGED <<rows, rowIds, passes, overlap>>

\* create_ssh_security_group: found or created, else Refuse.
CreateSecurityGroup(r) ==
  /\ requests[r].at = "written"
  /\ KeySource(r) = "cloud"
  /\ Goto(r, "ready")
  /\ UNCHANGED <<rows, files, authorized, registered, keys, rowIds, passes,
                 overlap>>

\* The value of private_key_path in a record: old, unless the request has one
\* and the schema knows the parameter.
StoredPath(r, schema, old) ==
  IF StoresKeyPath(schema) /\ Hook(requests[r].type).setsPath
  THEN requests[r].path ELSE old

\* _db_create_platform, one transaction: the name is unique for its owner.
DbCreatePlatform(r) ==
  /\ requests[r].at = "ready" /\ requests[r].op = "create"
  /\ rowIds < MaxKeys
  /\ LET type == requests[r].type IN
     IF Used(requests[r].name)
     THEN UNCHANGED <<rows, rowIds>>
     ELSE /\ rowIds' = rowIds + 1
          /\ rows' = [rows EXCEPT ![requests[r].name] =
               [schema |-> type, type |-> type,
                path |-> StoredPath(r, type, NoKey),
                id |-> rowIds + 1, from |-> rowIds + 1]]
  /\ Goto(r, "done")
  /\ UNCHANGED <<files, authorized, registered, keys, passes, overlap>>

\* _db_update_platform, one transaction: the record that has the name now gets
\* the new name and every parameter that its schema knows.
DbUpdatePlatform(r) ==
  /\ requests[r].at = "ready" /\ requests[r].op = "update"
  /\ LET name == requests[r].name
         new == requests[r].new
         updated ==
           [rows[name] EXCEPT
              !.type = requests[r].type,
              !.path = StoredPath(r, rows[name].schema, @),
              !.from = requests[r].from]
     IN  IF Used(name) /\ (new = name \/ ~Used(new))
         THEN rows' = [[rows EXCEPT ![name] = NoRow] EXCEPT ![new] = updated]
         ELSE UNCHANGED rows
  /\ Goto(r, "done")
  /\ UNCHANGED <<files, authorized, registered, keys, rowIds, passes, overlap>>

\* delete_platform.  Key files and jobs are left alone.
DeletePlatform(r) ==
  /\ requests[r].at = "idle"
  /\ \E name \in Names : rows' = [rows EXCEPT ![name] = NoRow]
  /\ Goto(r, "done")
  /\ UNCHANGED <<files, authorized, registered, keys, rowIds, passes, overlap>>

-----------------------------------------------------------------------------
\* get_platform_settings in a stage: retrieve_platform, then the hook of the
\* type.  A record that is not there is a KeyError, which ends the job.
GetPlatformSettings(j) ==
  /\ passes[j].at = "idle"
  /\ passes' = [passes EXCEPT
       ![j].row = rows[passes[j].name],
       ![j].at = IF Used(passes[j].name) THEN "connecting" ELSE "failed"]
  /\ UNCHANGED <<rows, requests, files, authorized, registered, keys, rowIds,
                 overlap>>

\* The pass is over; its settings are not used again.
EndPass(j) ==
  /\ passes[j].at = "connecting"
  /\ passes' = [passes EXCEPT ![j].at = "idle", ![j].row = NoRow]
  /\ UNCHANGED <<rows, requests, files, authorized, registered, keys, rowIds,
                 overlap>>

Request(r) ==
  \/ BeginCreate(r) \/ BeginUpdate(r) \/ Refuse(r)
  \/ NoKeyToGenerate(r)
  \/ ChooseKeyFile(r) \/ WriteKeyFile(r) \/ InstallKey(r)
  \/ CreateKeyPair(r) \/ CreateSecurityGroup(r)
  \/ DbCreatePlatform(r) \/ DbUpdatePlatform(r)
  \/ DeletePlatform(r)

Next ==
  \/ \E r \in Requests : Request(r)
  \/ \E j \in Jobs : GetPlatformSettings(j) \/ EndPass(j)

Spec == Init /\ [][Next]_vars

-----------------------------------------------------------------------------
Settings ==
  {rows[n] : n \in {m \in Names : Used(m)}}
    \cup {passes[j].row : j \in {i \in Jobs : passes[i].at = "connecting"}}

(***************************************************************************)
(* The private key that a stored record, or the settings that a pass has   *)
(* read from one, points to is in its file and is accepted, whatever was   *)
(* updated, renamed, deleted, refused or retried since, unless two         *)
(* requests chose the same file name at once (generatekeys.py:61-73) or    *)
(* its values stem from another record, which it has replaced while an     *)
(* update was computed.                                                    *)
(***************************************************************************)
KeysWork ==
  ~overlap =>
    \A row \in Settings :
      row.path # NoKey /\ row.from = row.id => files[row.path] \in authorized

=============================================================================
