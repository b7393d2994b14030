------------------------------- MODULE Access -------------------------------
(***************************************************************************)
(* Who may do what: the SpiceDB relationships of one organization, its     *)
(* projects and their resources (pkg/spicedb), the identity and contact    *)
(* files of every home directory, and the commands that change them        *)
(* (cmd/admin.go, cmd/join.go, cmd/project.go).                            *)
(*                                                                         *)
(* A home directory runs one command at a time; each call a command makes  *)
(* is a step, and the command can be interrupted between any two.          *)
(***************************************************************************)
EXTENDS Naturals, FiniteSets, Sequences

CONSTANTS
  Ops,          \* operators, each with a home directory
  Users,        \* UUIDs
  Nicks,        \* nicknames of the contact files
  Org, Projects,
  Ids,          \* resources: identifiers of cloud instances
  None,
  Homes,        \* what may be set up at first: records [endpoint, identity]
  Members,      \* the roles and projects there are at first
  Book,         \* the contacts there are at first
  RoleArgs,     \* [obj, name, role] the role commands may be called with
  MaxCommands   \* bound: commands started

Roles == {"admin", "editor", "reader"}

\* isValidOrgRole and isValidProjectRole: a project has no administrators.
RoleTuples ==
  {Org} \X Roles \X (Users \cup Nicks)
  \cup Projects \X (Roles \ {"admin"}) \X (Users \cup Nicks)

\* The relations of schema.zed the commands write; clusters, and editors and
\* viewers of a single resource, are written by none.
Relationships ==
  RoleTuples \cup Projects \X {"org"} \X {Org}
  \cup Ids \X {"owner"} \X Users \cup Ids \X {"org"} \X {Org}
  \cup Ids \X {"project"} \X Projects

Identities(users) ==
  [user : users \cup {None}, org : BOOLEAN, project : Projects \cup {None}]

AccessAssumption ==
  /\ Org \notin Projects \cup Ids \cup {None}
  /\ None \notin Users \cup Nicks \cup Projects
  /\ Homes \subseteq [endpoint : SUBSET Ops,
                      identity : [Ops -> Identities(Users)]]
  /\ Members \subseteq RoleTuples \cup Projects \X {"org"} \X {Org}
  /\ Book \in [Ops -> [Nicks -> Users \cup {None}]]
  /\ RoleArgs \subseteq [obj : {Org} \cup Projects, name : Users \cup Nicks,
                         role : Roles]
  /\ MaxCommands \in Nat

ASSUME AccessAssumption

VARIABLES
  endpoint,   \* the homes with SPICEDB_ENDPOINT and SPICEDB_TOKEN set
  identity,   \* identity.json of each home
  contacts,   \* contacts.json of each home
  ledger,     \* SpiceDB: <<object, relation, subject>>
  minted,     \* the UUIDs that were drawn
  adm,        \* the command of this module each operator runs
  alone,      \* those whose command had no other beside it so far
  received,   \* the UUIDs that reached somebody's home
  typed,      \* those a role of the organization was asked for by UUID
  commands    \* how many were started

access == <<endpoint, identity, contacts, ledger, minted, adm, alone, received,
            typed>>

NoIdentity == [user |-> None, org |-> FALSE, project |-> None]

Quiet == [pc |-> "idle", nick |-> None, who |-> None, obj |-> None,
          role |-> None, left |-> <<>>, dropped |-> FALSE]

AdminCommand ==
  [pc : {"idle", "identity", "create", "saveorg", "offered", "taken", "contact",
         "joining", "delete", "write", "assign"},
   nick : Nicks \cup {None}, who : Users \cup Nicks \cup {None},
   obj : {Org, None} \cup Projects, role : Roles \cup {None},
   left : Seq(Roles), dropped : BOOLEAN]

\* Mutant of RolesOf: the organization's roles are taken for a project's.
RolesOfProject(obj) == <<"editor", "reader">>

\* The roles of the organization and of a project, as set-role deletes them.
RolesOf(obj) == IF obj = Org THEN <<"admin", "editor", "reader">>
                             ELSE <<"editor", "reader">>

AccessTypeOK ==
  /\ endpoint \subseteq Ops /\ alone \subseteq Ops
  /\ minted \subseteq Users /\ received \subseteq minted /\ typed \subseteq Users
  /\ identity \in [Ops -> Identities(minted)]
  /\ contacts \in [Ops -> [Nicks -> minted \cup {None}]]
  /\ ledger \subseteq Relationships
  /\ adm \in [Ops -> AdminCommand]
  /\ commands \in 0 .. MaxCommands

AccessInit ==
  /\ \E h \in Homes : endpoint = h.endpoint /\ identity = h.identity
  /\ contacts = Book
  /\ minted = {u \in Users : \/ \E o \in Ops : identity[o].user = u
                             \/ \E o \in Ops, n \in Nicks : contacts[o][n] = u
                             \/ \E t \in Members : t[3] = u}
  /\ adm = [o \in Ops |-> Quiet] /\ alone = {} /\ received = minted
  /\ typed = {} /\ commands = 0

-----------------------------------------------------------------------------
\* The permissions of schema.zed

Related(obj, roles, u) == \E r \in roles : <<obj, r, u>> \in ledger

AdminAccess(u) == Related(Org, {"admin"}, u)
WriteAccess(u) == Related(Org, {"admin", "editor"}, u)
ReadAccess(u)  == Related(Org, Roles, u)

OfOrg(x) == <<x, "org", Org>> \in ledger

DeleteProject(p, u) == OfOrg(p) /\ AdminAccess(u)
EditProject(p, u) == Related(p, {"editor"}, u) \/ (OfOrg(p) /\ WriteAccess(u))
ViewProject(p, u) ==
  Related(p, {"editor", "reader"}, u) \/ (OfOrg(p) /\ ReadAccess(u))

InProject(i, p) == <<i, "project", p>> \in ledger

DeleteResourceOk(i, u) ==
  \/ Related(i, {"owner"}, u) \/ (OfOrg(i) /\ AdminAccess(u))
  \/ \E p \in Projects : InProject(i, p) /\ DeleteProject(p, u)
ViewResource(i, u) ==
  \/ Related(i, {"owner"}, u) \/ (OfOrg(i) /\ ReadAccess(u))
  \/ \E p \in Projects : InProject(i, p) /\ ViewProject(p, u)

\* CheckPermission, asked for the user of a home.
Me(o) == identity[o].user
Enabled(o) == o \in endpoint /\ Me(o) # None
Check(o, permitted) == Enabled(o) => permitted

CheckCreate(o) ==
  Check(o, IF identity[o].project # None
           THEN EditProject(identity[o].project, Me(o))
           ELSE identity[o].org /\ WriteAccess(Me(o)))

WriteRelationship(tuple) == ledger' = ledger \cup {tuple}
DeleteRelationship(tuple) == ledger' = ledger \ {tuple}

-----------------------------------------------------------------------------
\* Commands as processes

Doing(o, pc) == adm[o].pc = pc
Turn(o, pc) == adm' = [adm EXCEPT ![o].pc = pc]
Leave(o) == adm' = [adm EXCEPT ![o] = Quiet]

Count == commands < MaxCommands /\ commands' = commands + 1

AdminBegin(o) ==
  /\ Doing(o, "idle") /\ Count
  /\ alone' = IF \A p \in Ops : Doing(p, "idle") THEN {o} ELSE {}

AdminInterrupt(o) ==
  /\ ~Doing(o, "idle")
  /\ Leave(o)
  /\ UNCHANGED <<endpoint, identity, contacts, ledger, minted, alone, received>>

\* mustClient, and what a command that only writes relationships leaves alone.
AdminClient(o) == o \in endpoint /\ AdminBegin(o)
Files == <<endpoint, identity, contacts, minted, received>>

\* A relationship that may fail to be written; a failure ends the command.
WriteOrFatal(o, tuple, next) ==
  \/ Leave(o) /\ UNCHANGED ledger
  \/ WriteRelationship(tuple) /\ Turn(o, next)

\* uuid.New, while there is a UUID left: a command draws one at most.
UsersLeft == Users \ minted # {}
FreshUser == CHOOSE u \in Users \ minted : TRUE

SaveIdentity(o, id) == identity' = [identity EXCEPT ![o] = id]

-----------------------------------------------------------------------------
\* admin org create

OrgCreate(o) ==
  /\ AdminClient(o)
  /\ Turn(o, IF Me(o) = None THEN "identity" ELSE "create")
  /\ UNCHANGED <<Files, ledger>>

GenerateIdentity(o) ==
  /\ Doing(o, "identity")
  /\ \/ Leave(o) /\ UNCHANGED <<identity, minted, received>>
     \/ /\ UsersLeft
        /\ SaveIdentity(o, [NoIdentity EXCEPT !.user = FreshUser])
        /\ minted' = minted \cup {FreshUser}
        /\ received' = received \cup {FreshUser}
        /\ Turn(o, "create")
  /\ UNCHANGED <<endpoint, contacts, ledger, alone>>

CreateOrg(o) ==
  /\ Doing(o, "create")
  /\ WriteOrFatal(o, <<Org, "admin", Me(o)>>, "saveorg")
  /\ UNCHANGED <<Files, alone>>

\* An identity that cannot be saved is only logged.
SaveOrg(o) ==
  /\ Doing(o, "saveorg")
  /\ SaveIdentity(o, [identity[o] EXCEPT !.org = TRUE]) \/ UNCHANGED identity
  /\ Leave(o)
  /\ UNCHANGED <<endpoint, contacts, ledger, minted, alone, received>>

-----------------------------------------------------------------------------
\* admin org invite, and join at the other end of the wormhole

Invite(o, nick, role) ==
  /\ AdminClient(o) /\ UsersLeft
  /\ adm' = [adm EXCEPT ![o].pc = "offered", ![o].nick = nick,
                        ![o].role = role, ![o].who = FreshUser]
  /\ minted' = minted \cup {FreshUser}
  /\ UNCHANGED <<endpoint, identity, contacts, received, ledger>>

\* The transfer fails, or ten minutes have passed.
InviteEnds(o) ==
  /\ adm[o].pc \in {"offered", "taken"}
  /\ Leave(o)
  /\ UNCHANGED <<Files, ledger, alone>>

\* Mutant of GrantRole: the role is written before the invitation is received.
GrantRoleEarly(o) ==
  /\ adm[o].pc \in {"offered", "taken"}
  /\ WriteOrFatal(o, <<Org, adm[o].role, adm[o].who>>, "contact")
  /\ UNCHANGED <<Files, alone>>

\* The transfer is reported complete.
GrantRole(o) ==
  /\ Doing(o, "taken")
  /\ WriteOrFatal(o, <<Org, adm[o].role, adm[o].who>>, "contact")
  /\ UNCHANGED <<Files, alone>>

\* Reads the file, adds the nickname, writes it; an error is only logged.
SetContact(o) ==
  /\ Doing(o, "contact")
  /\ \/ contacts' = [contacts EXCEPT ![o][adm[o].nick] = adm[o].who]
     \/ UNCHANGED contacts
  /\ Leave(o)
  /\ UNCHANGED <<endpoint, identity, ledger, minted, alone, received>>

Join(o) ==
  /\ AdminBegin(o)
  /\ \E p \in Ops \ {o} :
       /\ Doing(p, "offered")
       /\ adm' = [adm EXCEPT ![p].pc = "taken", ![o].pc = "joining",
                             ![o].who = adm[p].who]
       /\ received' = received \cup {adm[p].who}
  /\ UNCHANGED <<endpoint, identity, contacts, minted, ledger>>

\* One Read may return a part of the payload, which does not parse.
JoinSaves(o) ==
  /\ Doing(o, "joining")
  /\ \/ UNCHANGED identity
     \/ SaveIdentity(o, [user |-> adm[o].who, org |-> TRUE, project |-> None])
  /\ Leave(o)
  /\ UNCHANGED <<endpoint, contacts, ledger, minted, alone, received>>

-----------------------------------------------------------------------------
\* The roles of the organization and of projects

\* A name that is no contact stands for itself, UUID or not.
ResolveContact(o, name) ==
  IF name \in Nicks /\ contacts[o][name] # None THEN contacts[o][name] ELSE name

StartSetRole(o, a) ==
  /\ AdminClient(o)
  /\ adm' = [adm EXCEPT ![o].pc = "delete", ![o].obj = a.obj,
               ![o].role = a.role, ![o].who = ResolveContact(o, a.name),
               ![o].left = RolesOf(a.obj)]
  /\ UNCHANGED <<Files, ledger>>

OrgSetRole(o, a) == a.obj = Org /\ StartSetRole(o, a)
ProjectSetRole(o, a) ==
  a.obj \in Projects /\ a.role # "admin" /\ StartSetRole(o, a)

\* One deletion; its error is dropped.
DeleteRoles(o) ==
  /\ Doing(o, "delete")
  /\ \E ok \in BOOLEAN :
       /\ IF ok
          THEN DeleteRelationship(<<adm[o].obj, Head(adm[o].left), adm[o].who>>)
          ELSE UNCHANGED ledger
       /\ adm' = [adm EXCEPT ![o].left = Tail(@), ![o].dropped = @ \/ ~ok,
                 ![o].pc = IF Len(adm[o].left) = 1 THEN "write" ELSE "delete"]
  /\ UNCHANGED <<Files, alone>>

WriteRole(o) ==
  /\ Doing(o, "write")
  /\ \/ WriteRelationship(<<adm[o].obj, adm[o].role, adm[o].who>>)
     \/ UNCHANGED ledger
  /\ Leave(o)
  /\ UNCHANGED <<Files, alone>>

OrgAddUser(o, a) ==
  /\ AdminClient(o) /\ a.obj = Org
  /\ WriteRelationship(<<Org, a.role, ResolveContact(o, a.name)>>)
  /\ UNCHANGED <<Files, adm>>

OrgRemoveUser(o, a) ==
  /\ AdminClient(o) /\ a.obj = Org
  /\ DeleteRelationship(<<Org, a.role, ResolveContact(o, a.name)>>)
  /\ UNCHANGED <<Files, adm>>

ProjectAddUser(o, a) ==
  /\ AdminClient(o) /\ a.obj \in Projects /\ a.role # "admin"
  /\ WriteRelationship(<<a.obj, a.role, ResolveContact(o, a.name)>>)
  /\ UNCHANGED <<Files, adm>>

ProjectRemoveUser(o, a) ==
  /\ AdminClient(o) /\ a.obj \in Projects
  /\ DeleteRelationship(<<a.obj, a.role, ResolveContact(o, a.name)>>)
  /\ UNCHANGED <<Files, adm>>

ProjectCreate(o, p) ==
  /\ AdminClient(o)
  /\ WriteRelationship(<<p, "org", Org>>)
  /\ UNCHANGED <<Files, adm>>

-----------------------------------------------------------------------------
\* project use, clear, assign

ProjectUse(o, p) ==
  /\ AdminBegin(o)
  /\ Check(o, ViewProject(p, Me(o))) /\ Me(o) # None
  /\ SaveIdentity(o, [identity[o] EXCEPT !.project = p])
  /\ UNCHANGED <<endpoint, contacts, minted, received, ledger, adm>>

ProjectClear(o) ==
  /\ AdminBegin(o) /\ Me(o) # None
  /\ SaveIdentity(o, [identity[o] EXCEPT !.project = None])
  /\ UNCHANGED <<endpoint, contacts, minted, received, ledger, adm>>

\* The check and the write are two calls.
ProjectAssign(o, p) ==
  /\ AdminBegin(o)
  /\ Enabled(o) /\ EditProject(p, Me(o))
  /\ adm' = [adm EXCEPT ![o].pc = "assign", ![o].obj = p]
  /\ UNCHANGED <<Files, ledger>>

AssignResource(o) ==
  /\ Doing(o, "assign")
  /\ \E i \in Ids : WriteRelationship(<<i, "project", adm[o].obj>>)
  /\ Leave(o)
  /\ UNCHANGED <<Files, alone>>

-----------------------------------------------------------------------------
\* A role of the organization is given to a contact or to a UUID as it stands.
GiveOrgRole(o, a) ==
  /\ OrgSetRole(o, a) \/ OrgAddUser(o, a)
  /\ typed' = typed \cup ({a.name} \cap Users)

AdminStart(o) ==
  \/ \E a \in RoleArgs : GiveOrgRole(o, a)
  \/ /\ \/ OrgCreate(o) \/ Join(o) \/ ProjectClear(o)
        \/ \E n \in Nicks, a \in RoleArgs : a.obj = Org /\ Invite(o, n, a.role)
        \/ \E a \in RoleArgs :
             \/ ProjectSetRole(o, a) \/ OrgRemoveUser(o, a)
             \/ ProjectAddUser(o, a) \/ ProjectRemoveUser(o, a)
        \/ \E p \in Projects :
             ProjectCreate(o, p) \/ ProjectUse(o, p) \/ ProjectAssign(o, p)
     /\ UNCHANGED typed

AdminStep(o) ==
  /\ \/ GenerateIdentity(o) \/ CreateOrg(o) \/ SaveOrg(o)
     \/ InviteEnds(o) \/ GrantRole(o) \/ SetContact(o) \/ JoinSaves(o)
     \/ DeleteRoles(o) \/ WriteRole(o) \/ AssignResource(o) \/ AdminInterrupt(o)
  /\ UNCHANGED <<commands, typed>>

-----------------------------------------------------------------------------
\* Properties

\* A set-role that writes its role, had no other command beside it and lost none
\* of its deletions leaves the user with that role and no other, contact or not:
\* four calls that nothing makes atomic.
RoleReplaced ==
  [][\A o \in alone :
       (WriteRole(o) /\ <<adm[o].obj, adm[o].role, adm[o].who>> \in ledger'
          /\ ~adm[o].dropped) =>
         {r \in Roles : <<adm[o].obj, r, adm[o].who>> \in ledger'} =
           {adm[o].role}
    ]_<<access, commands>>

\* A UUID has a role in the organization only once it has reached somebody's
\* home, whichever end of an invitation stops first and whatever a nickname
\* stands for by the time it is used; or it was itself typed into add-user or
\* set-role, which take any UUID as it stands.
RoleOnlyAfterTransfer ==
  \A u \in Users : ReadAccess(u) => u \in received \cup typed
=============================================================================
