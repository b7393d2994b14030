-------------------------------- MODULE Fleet --------------------------------
(***************************************************************************)
(* The machines gotoni rents: the commands launch, kill and firewall       *)
(* (cmd/launch.go, cmd/kill.go, cmd/firewall.go) over the three cloud      *)
(* providers (pkg/remote), the SpiceDB ledger of who owns what             *)
(* (pkg/spicedb) and the local database and key files of each operator     *)
(* (pkg/db).                                                               *)
(*                                                                         *)
(* An operator runs one command at a time, and a command is a process of   *)
(* its own: it can be interrupted between any two calls it makes.  A call  *)
(* to a cloud may fail, or be carried out and lose its answer.  The        *)
(* commands of Access run beside these, one at a time in each home.        *)
(***************************************************************************)
EXTENDS Access

CONSTANTS
  Names,        \* names of instances
  NoId,         \* the empty string where an ID should be
  Regions, Filesystems, Ports,
  KeyNames,     \* lambda-key-<unix second>
  Providers,    \* some of "lambda", "orgo", "modal"
  LaunchFlags,  \* [name, wait, region, fs] a launch may be called with
  KillArgs,     \* the sets of names and IDs a kill may be called with
  Rulesets,     \* the sets of ports 'firewall replace' may be called with
  Fleets        \* what may already run: functions from some of Ids to
                \* [by, name, region, key]

FleetAssumption ==
  /\ Ids \cap Names = {} /\ NoId \notin Ids \cup Names
  /\ None \notin Regions \cup Filesystems \cup KeyNames \cup Names
  /\ None \notin Ops
  /\ Providers \subseteq {"lambda", "orgo", "modal"}
  /\ LaunchFlags \subseteq [name : Names, wait : BOOLEAN, region : Regions,
                            fs : Filesystems \cup {None}]
  /\ KillArgs \subseteq SUBSET (Names \cup Ids)
  /\ Rulesets \subseteq SUBSET Ports
  /\ \A f \in Fleets :
       /\ DOMAIN f \subseteq Ids
       /\ f \in [DOMAIN f -> [by : Ops, name : Names, region : Regions,
                              key : KeyNames]]

ASSUME FleetAssumption

VARIABLES
  provider,   \* --provider, the same for everyone
  proc,       \* the command of this module each operator runs
  inst,       \* the cloud's instances
  cloudKeys,  \* names of the keys the cloud knows
  fss,        \* the cloud's filesystems, as <<name, region>>
  rules,      \* the ports of the global firewall ruleset
  files,      \* the private keys in ~/.ssh of each operator
  keyRows,    \* table ssh_keys
  fsRow,      \* table filesystems: the region recorded for a name
  instRow,    \* table instances, by ID
  sshHosts,   \* the hosts in ~/.ssh/config
  reported,   \* the instances whose launch command reported success
  disowned,   \* those with a relationship that was not written, and those a
              \* kill was answered without
  admins      \* the users who have administered the organization

cloud == <<inst, cloudKeys, fss, rules>>
local == <<files, keyRows, fsRow, instRow, sshHosts>>
homes == <<endpoint, identity, contacts, minted, adm, alone, received, typed>>
ghosts == <<reported, disowned>>
fleet == <<provider, proc, cloud, local, ghosts>>
vars == <<access, fleet, commands, admins>>

Idle ==
  [pc |-> "idle", name |-> None, wait |-> FALSE, region |-> None, fs |-> None,
   key |-> None, id |-> NoId, args |-> {}, ids |-> {}, left |-> {},
   port |-> None, read |-> {}, send |-> {}]

NoInstance ==
  [status |-> "none", name |-> None, by |-> None, owner |-> None,
   region |-> None, fs |-> None, key |-> None, killer |-> None]

Phases ==
  {"idle", "poll", "fs", "mkfs", "allowed", "key", "file", "row", "post", "wait",
   "config", "owner", "keyrow", "list", "resolve", "check", "kill", "unledger",
   "rules", "patch"}

Command ==
  [pc : Phases, name : Names \cup {None}, wait : BOOLEAN,
   region : Regions \cup {None}, fs : Filesystems \cup {None},
   key : KeyNames \cup {None}, id : Ids \cup {NoId},
   args : SUBSET (Names \cup Ids), ids : SUBSET (Ids \cup {NoId}),
   left : SUBSET (Names \cup Ids \cup {NoId}),
   port : Ports \cup {None}, read : SUBSET Ports, send : SUBSET Ports]

Instance ==
  [status : {"none", "booting", "active", "gone"}, name : Names \cup {None},
   by : Ops \cup {None}, owner : Users \cup {None},
   region : Regions \cup {None}, fs : Filesystems \cup {None},
   key : KeyNames \cup {None}, killer : Ops \cup {None}]

\* The relationships of resource i that operator o writes and deletes.
Tuples(o, i) ==
  {<<i, "owner", Me(o)>>} \cup
  IF identity[o].project # None THEN {<<i, "project", identity[o].project>>}
  ELSE IF identity[o].org THEN {<<i, "org", Org>>} ELSE {}

Owner(o) == IF Enabled(o) THEN Me(o) ELSE None

Live == {i \in Ids : inst[i].status \in {"booting", "active"}}

TypeOK ==
  /\ AccessTypeOK /\ admins \subseteq Users
  /\ provider \in Providers
  /\ proc \in [Ops -> Command] /\ inst \in [Ids -> Instance]
  /\ cloudKeys \subseteq KeyNames /\ fss \subseteq Filesystems \X Regions
  /\ rules \subseteq Ports
  /\ files \in [Ops -> SUBSET KeyNames] /\ keyRows \in [Ops -> SUBSET KeyNames]
  /\ fsRow \in [Ops -> [Filesystems -> Regions \cup {None}]]
  /\ instRow \in [Ops -> SUBSET Ids] /\ sshHosts \in [Ops -> SUBSET Names]
  /\ reported \subseteq Ids /\ disowned \subseteq Ids

\* The instances of a fleet were launched with success, before the commands
\* that are modelled.
Init ==
  /\ AccessInit
  /\ provider \in Providers
  /\ proc = [o \in Ops |-> Idle]
  /\ \E f \in Fleets :
       LET By(o) == {i \in DOMAIN f : f[i].by = o}
           Keys(o) == IF provider = "lambda"
                      THEN {f[i].key : i \in By(o)} ELSE {}
       IN /\ inst = [i \in Ids |->
                IF i \in DOMAIN f
                THEN [status |-> "active", name |-> f[i].name,
                      by |-> f[i].by, owner |-> Owner(f[i].by),
                      region |-> f[i].region, fs |-> None, killer |-> None,
                      key |-> IF provider = "lambda" THEN f[i].key
                                                     ELSE None]
                ELSE NoInstance]
          /\ cloudKeys = UNION {Keys(o) : o \in Ops}
          /\ files = [o \in Ops |-> Keys(o)] /\ keyRows = files
          /\ instRow = [o \in Ops |-> IF provider = "lambda" THEN {} ELSE By(o)]
          /\ ledger = Members \cup
               UNION {Tuples(f[i].by, i) : i \in {j \in DOMAIN f :
                                                  Enabled(f[j].by)}}
          /\ reported = DOMAIN f
  /\ admins = {u \in Users : AdminAccess(u)}
  /\ fss = {} /\ rules = {} /\ disowned = {}
  /\ fsRow = [o \in Ops |-> [f \in Filesystems |-> None]]
  /\ sshHosts = [o \in Ops |-> {}]

-----------------------------------------------------------------------------
\* The process of a command

At(o, pc) == proc[o].pc = pc
Goto(o, pc) == proc' = [proc EXCEPT ![o].pc = pc]

\* The command returns, ends in log.Fatalf, or is interrupted.
Exit(o) == proc' = [proc EXCEPT ![o] = Idle]

Begin(o) ==
  /\ At(o, "idle") /\ Doing(o, "idle") /\ Count
  /\ UNCHANGED <<access, provider, cloud, local, ghosts>>

Interrupt(o) ==
  /\ ~At(o, "idle")
  /\ Exit(o)
  /\ UNCHANGED <<access, commands, provider, cloud, local, ghosts>>

\* A step that fails ends the command.
Fatal(o) ==
  /\ Exit(o)
  /\ UNCHANGED <<cloud, ledger, local, ghosts>>

-----------------------------------------------------------------------------
\* SpiceDB

\* Each write may fail, and the error is dropped.
WriteResourceOwnership(o, i) ==
  IF Enabled(o)
  THEN \E done \in SUBSET Tuples(o, i) :
         /\ ledger' = ledger \cup done
         /\ disowned' = IF done = Tuples(o, i) THEN disowned
                                                ELSE disowned \cup {i}
  ELSE UNCHANGED <<ledger, disowned>>

DeleteResource(o, i) ==
  IF Enabled(o)
  THEN \E done \in SUBSET Tuples(o, i) : ledger' = ledger \ done
  ELSE UNCHANGED ledger

-----------------------------------------------------------------------------
\* gotoni launch

LaunchStart(o, f) ==
  /\ Begin(o)
  /\ proc' = [proc EXCEPT ![o] =
       [Idle EXCEPT
          !.pc = IF f.wait /\ provider # "modal" THEN "poll" ELSE "fs",
          !.name = f.name, !.wait = f.wait, !.region = f.region, !.fs = f.fs]]

\* What CheckInstanceTypeAvailability may return when it finds any.
Capacity == SUBSET Regions \ {{}}

\* A poll that fails or finds nothing changes nothing.  The region asked for
\* gives way to another that has capacity.
PollAvailable(o) ==
  /\ At(o, "poll")
  /\ \E free \in Capacity : \E r \in free :
       /\ proc[o].region \in free => r = proc[o].region
       /\ proc' = [proc EXCEPT ![o].pc = "fs", ![o].region = r]
  /\ UNCHANGED <<cloud, ledger, local, ghosts>>

PollTimeout(o) == At(o, "poll") /\ Fatal(o)

\* Mutant of SaveFilesystem: two columns of the row are swapped.
SaveFilesystemSwapped(o, name, region) ==
  fsRow' = [fsRow EXCEPT ![o][name] = name]

SaveFilesystem(o, name, region) == fsRow' = [fsRow EXCEPT ![o][name] = region]

\* The regions of the filesystems listed under a name: the first one counts.
RegionsOf(name) == {r \in Regions : <<name, r>> \in fss}

ListFilesystems(o) ==
  /\ At(o, "fs")
  /\ LET p == proc[o]
         found == RegionsOf(p.fs)
     IN IF p.fs = None \/ provider = "orgo"
        THEN Goto(o, "allowed") /\ UNCHANGED <<cloud, ledger, local, ghosts>>
        ELSE \/ Fatal(o)
             \/ /\ found = {} /\ Goto(o, "mkfs")
                /\ UNCHANGED <<cloud, ledger, local, ghosts>>
             \/ /\ p.region \in found /\ Goto(o, "allowed")
                /\ SaveFilesystem(o, p.fs, p.region)
                /\ UNCHANGED <<cloud, ledger, files, keyRows, instRow, sshHosts,
                               ghosts>>

\* The row is written after the cloud has answered; either may fail.
CreateFilesystem(o) ==
  /\ At(o, "mkfs")
  /\ LET p == proc[o] IN
     \/ Fatal(o)
     \/ /\ fss' = fss \cup {<<p.fs, p.region>>}
        /\ \/ Exit(o) /\ UNCHANGED fsRow
           \/ Goto(o, "allowed") /\ SaveFilesystem(o, p.fs, p.region)
        /\ UNCHANGED <<inst, cloudKeys, rules, ledger, files, keyRows, instRow,
                       sshHosts, ghosts>>

\* project->edit or organization->write_access; the check itself may fail.
AskCreate(o) ==
  /\ At(o, "allowed")
  /\ \/ Fatal(o)
     \/ /\ CheckCreate(o)
        /\ Goto(o, IF provider = "lambda" THEN "key" ELSE "post")
        /\ UNCHANGED <<cloud, ledger, local, ghosts>>

\* createSSHKey: a launch names its key after the second it is in; the cloud
\* refuses a name it has.
CreateSSHKey(o) ==
  /\ At(o, "key")
  /\ \/ Fatal(o)
     \/ \E k \in KeyNames \ cloudKeys :
          /\ cloudKeys' = cloudKeys \cup {k}
          /\ proc' = [proc EXCEPT ![o].pc = "file", ![o].key = k]
          /\ UNCHANGED <<inst, fss, rules, ledger, local, ghosts>>

\* WriteFile with mode 0400: a file that is there cannot be opened for writing.
SaveKeyFile(o) ==
  /\ At(o, "file")
  /\ \/ Fatal(o)
     \/ /\ proc[o].key \notin files[o]
        /\ files' = [files EXCEPT ![o] = @ \cup {proc[o].key}]
        /\ Goto(o, "row")
        /\ UNCHANGED <<cloud, ledger, keyRows, fsRow, instRow, sshHosts,
                       ghosts>>

SaveSSHKey(o) == keyRows' = [keyRows EXCEPT ![o] = @ \cup {proc[o].key}]

SaveKeyRow(o) ==
  /\ At(o, "row") /\ provider = "lambda"
  /\ \/ Fatal(o)
     \/ /\ SaveSSHKey(o) /\ Goto(o, "post")
        /\ UNCHANGED <<cloud, ledger, files, fsRow, instRow, sshHosts, ghosts>>

\* The cloud creates an instance for the command of o.
Create(o, i, status, fs) ==
  /\ inst' = [inst EXCEPT ![i] =
       [status |-> status, name |-> proc[o].name, by |-> o, owner |-> Owner(o),
        region |-> proc[o].region, fs |-> fs, key |-> proc[o].key,
        killer |-> None]]
  /\ UNCHANGED <<cloudKeys, fss, rules>>

\* The ID the cloud gives to the next instance, while there is one left.
Fresh ==
  LET unused == {i \in Ids : inst[i].status = "none"}
  IN IF unused = {} THEN {} ELSE {CHOOSE i \in unused : TRUE}

\* The request is carried out and the command goes on, or loses the answer.
Post(o, next, status, fs) ==
  \E i \in Fresh :
    /\ Create(o, i, status, fs)
    /\ \/ proc' = [proc EXCEPT ![o].pc = next, ![o].id = i]
       \/ Exit(o)
    /\ UNCHANGED <<ledger, local, ghosts>>

\* The region of the filesystem is the one its row has.
LambdaLaunch(o) ==
  /\ At(o, "post") /\ provider = "lambda"
  /\ LET p == proc[o] IN
     \/ Fatal(o)
     \/ /\ p.fs # None => fsRow[o][p.fs] = p.region
        /\ Post(o, IF p.wait THEN "wait" ELSE "owner", "booting", p.fs)

OrgoLaunch(o) ==
  /\ At(o, "post") /\ provider = "orgo"
  /\ Fatal(o) \/ Post(o, "row", "booting", None)

ModalLaunch(o) ==
  /\ At(o, "post") /\ provider = "modal"
  /\ Fatal(o) \/ Post(o, "row", "active", None)

SaveRow(o) == instRow' = [instRow EXCEPT ![o] = @ \cup {proc[o].id}]

\* A row that cannot be written ends an Orgo launch; Modal's drops the error.
SaveInstance(o) ==
  /\ At(o, "row") /\ provider # "lambda"
  /\ \/ /\ SaveRow(o)
        /\ Goto(o, IF provider = "orgo" /\ proc[o].wait THEN "wait"
                   ELSE "owner")
        /\ UNCHANGED <<cloud, ledger, files, keyRows, fsRow, sshHosts, ghosts>>
     \/ provider = "orgo" /\ Fatal(o)
     \/ /\ provider = "modal" /\ Goto(o, "owner")
        /\ UNCHANGED <<cloud, ledger, local, ghosts>>

\* Any status but active and booting, and any failed read, ends the wait; so
\* does its timeout.
LambdaWait(o) ==
  /\ At(o, "wait") /\ provider = "lambda"
  /\ \/ Fatal(o)
     \/ /\ inst[proc[o].id].status = "active" /\ Goto(o, "config")
        /\ UNCHANGED <<cloud, ledger, local, ghosts>>

OrgoWait(o) ==
  /\ At(o, "wait") /\ provider = "orgo"
  /\ \/ Fatal(o)
     \/ /\ inst[proc[o].id].status = "active" /\ Goto(o, "owner")
        /\ UNCHANGED <<cloud, ledger, local, ghosts>>

\* remote.GetInstance asks for the view permission before anyone has it: the
\* ownership is written afterwards.
UpdateSSHConfig(o) ==
  /\ At(o, "config")
  /\ \E answered \in BOOLEAN :
       sshHosts' = IF answered /\ Check(o, ViewResource(proc[o].id, Me(o)))
                   THEN [sshHosts EXCEPT ![o] = @ \cup {proc[o].name}]
                   ELSE sshHosts
  /\ Goto(o, "owner")
  /\ UNCHANGED <<cloud, ledger, files, keyRows, fsRow, instRow, ghosts>>

RecordOwner(o) ==
  /\ At(o, "owner")
  /\ WriteResourceOwnership(o, proc[o].id)
  /\ Goto(o, "keyrow")
  /\ UNCHANGED <<cloud, local, reported>>

\* The key's row is written once more, or not; the launch is a success.
LaunchDone(o) ==
  /\ At(o, "keyrow")
  /\ IF proc[o].key # None THEN SaveSSHKey(o) ELSE UNCHANGED keyRows
  /\ reported' = reported \cup {proc[o].id}
  /\ Exit(o)
  /\ UNCHANGED <<cloud, ledger, files, fsRow, instRow, sshHosts, disowned>>

LaunchStep(o) ==
  /\ \/ PollAvailable(o) \/ PollTimeout(o) \/ ListFilesystems(o)
     \/ CreateFilesystem(o) \/ AskCreate(o)
     \/ CreateSSHKey(o) \/ SaveKeyFile(o) \/ SaveKeyRow(o)
     \/ LambdaLaunch(o) \/ OrgoLaunch(o) \/ ModalLaunch(o) \/ SaveInstance(o)
     \/ LambdaWait(o) \/ OrgoWait(o) \/ UpdateSSHConfig(o)
     \/ RecordOwner(o) \/ LaunchDone(o)
  /\ UNCHANGED <<homes, commands, provider>>

-----------------------------------------------------------------------------
\* gotoni kill

\* What ListRunningInstances may return, and the name it gives an instance.
LambdaList == {Live}
OrgoList == {{i \in Live : inst[i].status = "active"}, {}}
ModalList == {Live}

Listings == CASE provider = "lambda" -> LambdaList
              [] provider = "orgo"   -> OrgoList
              [] provider = "modal"  -> ModalList

\* Modal shows the name in the operator's own database, else the ID.
ListedName(o, i) ==
  IF provider = "modal" /\ i \notin instRow[o] THEN i ELSE inst[i].name

Known(a) == {a} \cap {i \in Ids : inst[i].status # "none"}

\* What GetInstance may return for a name or an ID, when it returns no error.
LambdaGet(a) == Known(a)

\* The status of the answer is not looked at: a refusal, without data, is an
\* instance without an ID.
OrgoGet(a) == {NoId} \cup (Known(a) \cap Live)

\* GetInstanceByName of the database: any row of this name.
RowsNamed(o, name) == {i \in instRow[o] : inst[i].name = name}

ModalGet(o, a) ==
  IF RowsNamed(o, a) # {} THEN RowsNamed(o, a) ELSE Known(a)

GetInstance(o, a) == CASE provider = "lambda" -> LambdaGet(a)
                       [] provider = "orgo"   -> OrgoGet(a)
                       [] provider = "modal"  -> ModalGet(o, a)

KillStart(o, args) ==
  /\ Begin(o)
  /\ proc' = [proc EXCEPT ![o] =
       [Idle EXCEPT !.pc = "resolve", !.args = args, !.left = args]]

KillAllStart(o) ==
  /\ Begin(o)
  /\ proc' = [proc EXCEPT ![o] = [Idle EXCEPT !.pc = "list"]]

\* kill --all: the names of all that is listed become the arguments.
KillAllList(o) ==
  /\ At(o, "list")
  /\ \/ Fatal(o)
     \/ \E listing \in Listings :
          LET args == {ListedName(o, i) : i \in listing} IN
          /\ args # {}
          /\ proc' = [proc EXCEPT ![o].pc = "resolve",
                                  ![o].args = args, ![o].left = args]
          /\ UNCHANGED <<cloud, ledger, local, ghosts>>

\* Mutant of Resolutions: a listing is searched for what contains the argument.
ResolutionsAny(o, a) ==
  GetInstance(o, a) \cup UNION Listings

\* resolveInstanceID: GetInstance, and where that fails the first of the
\* listing with this name or ID.
Resolutions(o, a) ==
  GetInstance(o, a) \cup
  UNION {{i \in listing : i = a \/ ListedName(o, i) = a} : listing \in Listings}

ResolveInstanceID(o) ==
  /\ At(o, "resolve")
  /\ \/ Fatal(o)
     \/ \E a \in proc[o].left : \E i \in Resolutions(o, a) :
          LET p == proc[o]
              ids == p.ids \cup {i}
              done == p.left = {a}
          IN /\ proc' = [proc EXCEPT ![o].ids = ids,
                           ![o].pc = IF done THEN "check" ELSE "resolve",
                           ![o].left = IF done THEN ids ELSE @ \ {a}]
             /\ UNCHANGED <<cloud, ledger, local, ghosts>>

\* Mutant of CheckDelete: the check of one ID stands for all.
CheckDeleteOne(o) ==
  /\ At(o, "check")
  /\ \E i \in proc[o].left : Check(o, DeleteResourceOk(i, Me(o)))
  /\ proc' = [proc EXCEPT ![o].pc = "kill", ![o].left = proc[o].ids]
  /\ UNCHANGED <<cloud, ledger, local, ghosts>>

\* Every ID is checked before the first is terminated.
CheckDelete(o) ==
  /\ At(o, "check")
  /\ \/ Fatal(o)
     \/ \E i \in proc[o].left :
          LET done == proc[o].left = {i} IN
          /\ Check(o, DeleteResourceOk(i, Me(o)))
          /\ proc' = [proc EXCEPT
               ![o].pc = IF done THEN "kill" ELSE "check",
               ![o].left = IF done THEN proc[o].ids ELSE @ \ {i}]
          /\ UNCHANGED <<cloud, ledger, local, ghosts>>

Terminate(o, ids) ==
  /\ inst' = [i \in Ids |->
       IF i \in ids \cap Live
       THEN [inst[i] EXCEPT !.status = "gone", !.killer = o] ELSE inst[i]]
  /\ UNCHANGED <<cloudKeys, fss, rules>>

ToUnledger(o) ==
  proc' = [proc EXCEPT ![o].pc = "unledger", ![o].left = proc[o].ids]

\* Mutant of LambdaTerminate: an error is only printed, as for Orgo.
LambdaTerminateGoesOn(o) ==
  /\ At(o, "kill") /\ provider = "lambda"
  /\ Terminate(o, proc[o].ids) \/ UNCHANGED cloud
  /\ ToUnledger(o)
  /\ UNCHANGED <<ledger, local, ghosts>>

\* One request for all IDs.  The cloud may end a part of them; which the answer
\* names is only printed.
LambdaTerminate(o) ==
  /\ At(o, "kill") /\ provider = "lambda"
  /\ \/ Fatal(o)
     \/ LET running == proc[o].ids \cap Live
        IN \E ended \in SUBSET running :
             /\ Terminate(o, ended)
             /\ \/ ToUnledger(o) /\ disowned' = disowned \cup (running \ ended)
                \/ Exit(o) /\ UNCHANGED disowned
             /\ UNCHANGED <<ledger, local, reported>>

\* The loop goes on to the next ID.
Continue(o, i) ==
  IF proc[o].left = {i} THEN ToUnledger(o)
                        ELSE proc' = [proc EXCEPT ![o].left = @ \ {i}]

\* One request for each ID; a refusal is only printed.
OrgoTerminate(o) ==
  /\ At(o, "kill") /\ provider = "orgo"
  /\ \/ Fatal(o)
     \/ \E i \in proc[o].left :
          /\ Continue(o, i)
          /\ Terminate(o, {i}) \/ UNCHANGED cloud
          /\ UNCHANGED <<ledger, local, ghosts>>

\* A sandbox that is not found or not terminated is skipped; the row of one that
\* is terminated goes if the database can be opened.
ModalTerminate(o) ==
  /\ At(o, "kill") /\ provider = "modal"
  /\ \E i \in proc[o].left :
       /\ Continue(o, i)
       /\ \/ UNCHANGED <<cloud, instRow>>
          \/ /\ Terminate(o, {i})
             /\ \/ instRow' = [instRow EXCEPT ![o] = @ \ {i}]
                \/ UNCHANGED instRow
  /\ UNCHANGED <<ledger, files, keyRows, fsRow, sshHosts, ghosts>>

KillDone(o) ==
  /\ At(o, "unledger")
  /\ \E i \in proc[o].left :
       /\ DeleteResource(o, i)
       /\ IF proc[o].left = {i} THEN Exit(o)
          ELSE proc' = [proc EXCEPT ![o].left = @ \ {i}]
  /\ UNCHANGED <<cloud, local, ghosts>>

KillStep(o) ==
  /\ \/ KillAllList(o) \/ ResolveInstanceID(o) \/ CheckDelete(o)
     \/ LambdaTerminate(o) \/ OrgoTerminate(o) \/ ModalTerminate(o)
     \/ KillDone(o)
  /\ UNCHANGED <<homes, commands, provider>>

-----------------------------------------------------------------------------
\* The firewall

PortStart(o, port) ==
  /\ Begin(o)
  /\ proc' = [proc EXCEPT ![o] = [Idle EXCEPT !.pc = "rules", !.port = port]]

ReplaceStart(o, ruleset) ==
  /\ Begin(o)
  /\ proc' = [proc EXCEPT ![o] = [Idle EXCEPT !.pc = "patch", !.send = ruleset]]

\* Mutant of EnsurePortOpen: only the new rule is sent.
EnsurePortOpenAlone(o) ==
  /\ At(o, "rules")
  /\ proc[o].port \notin rules
  /\ proc' = [proc EXCEPT ![o].pc = "patch", ![o].read = rules,
                          ![o].send = {proc[o].port}]
  /\ UNCHANGED <<cloud, ledger, local, ghosts>>

\* EnsurePortOpen: a port that is open ends it.
EnsurePortOpen(o) ==
  /\ At(o, "rules")
  /\ \/ Fatal(o)
     \/ /\ proc[o].port \notin rules
        /\ proc' = [proc EXCEPT ![o].pc = "patch", ![o].read = rules,
                                ![o].send = rules \cup {proc[o].port}]
        /\ UNCHANGED <<cloud, ledger, local, ghosts>>

\* UpdateGlobalFirewallRules replaces the whole ruleset.
UpdateRules(o) ==
  /\ At(o, "patch")
  /\ rules' = proc[o].send \/ UNCHANGED rules
  /\ Exit(o)
  /\ UNCHANGED <<inst, cloudKeys, fss, ledger, local, ghosts>>

FirewallStep(o) ==
  /\ EnsurePortOpen(o) \/ UpdateRules(o)
  /\ UNCHANGED <<homes, commands, provider>>

-----------------------------------------------------------------------------
\* The cloud by itself: an instance comes up, or is lost.
InstanceChanges(i) ==
  /\ inst[i].status \in {"booting", "active"}
  /\ \/ /\ inst[i].status = "booting"
        /\ inst' = [inst EXCEPT ![i].status = "active"]
     \/ inst' = [inst EXCEPT ![i].status = "gone"]
  /\ UNCHANGED <<access, commands, provider, proc, cloudKeys, fss, rules, local,
                 ghosts>>

Start(o) ==
  \/ \E f \in LaunchFlags : LaunchStart(o, f)
  \/ \E a \in KillArgs : KillStart(o, a)
  \/ KillAllStart(o)
  \/ \E p \in Ports : PortStart(o, p)
  \/ \E s \in Rulesets : ReplaceStart(o, s)

Step(o) == LaunchStep(o) \/ KillStep(o) \/ FirewallStep(o)

Administer(o) ==
  /\ (At(o, "idle") /\ AdminStart(o)) \/ AdminStep(o)
  /\ UNCHANGED fleet

Next ==
  /\ \/ \E o \in Ops : Start(o) \/ Step(o) \/ Interrupt(o) \/ Administer(o)
     \/ \E i \in Ids : InstanceChanges(i)
  /\ admins' = admins \cup {u \in Users : <<Org, "admin", u>> \in ledger'}

Spec == Init /\ [][Next]_vars

-----------------------------------------------------------------------------
\* Properties

\* With SpiceDB configured, an instance is only killed by the user who launched
\* it or by one who administered the organization, whatever names were resolved
\* and roles changed in between: the checks of kill.go:137 over the tuples that
\* launch wrote.
OnlyOwnerOrAdminKills ==
  [][\A i \in Ids, o \in Ops :
       (inst[i].killer # o /\ inst'[i].killer = o /\ Enabled(o)) =>
         Me(o) \in {inst[i].owner} \cup admins]_vars

\* A kill ends no instance whose name and ID are not among its arguments: names
\* resolve to their bearers, through the cloud, its listing or a local row.
KillsOnlyNamed ==
  [][\A i \in Ids, o \in Ops :
       (inst[i].killer # o /\ inst'[i].killer = o) =>
         {i, inst[i].name} \cap proc[o].args # {}]_vars

\* On Lambda an instance whose launch was reported keeps its owner in the ledger
\* while it runs: launch records it before it reports, and kill strikes it out
\* only after an answer of the cloud.  Not so where a relationship could not be
\* written, or where the answer to a kill left the instance out: kill.go:144
\* strikes out what it asked to end and looks at no answer.
OwnedWhileRunning ==
  \A i \in reported \cap Live :
    (provider = "lambda" /\ inst[i].owner # None /\ i \notin disowned) =>
      <<i, "owner", inst[i].owner>> \in ledger

\* EnsurePortOpen closes a port only when the rules have changed since it read
\* them: alone it only adds.
PortsLostOnlyToRaces ==
  [][\A o \in Ops : (UpdateRules(o) /\ proc[o].port # None) =>
        (rules \subseteq rules' \/ proc[o].read # rules)]_vars

=============================================================================
