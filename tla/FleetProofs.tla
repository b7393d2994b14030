----------------------------- MODULE FleetProofs -----------------------------
(***************************************************************************)
(* Theorems about Access and Fleet, for any operators, users, projects,    *)
(* instances, names and ports, and whatever the commands are called with.  *)
(***************************************************************************)
EXTENDS Fleet, TLAPS

USE AccessAssumption, FleetAssumption DEF AccessAssumption, FleetAssumption

-----------------------------------------------------------------------------
(* Access *)

Elems(q) == {q[i] : i \in 1 .. Len(q)}

\* The types of Access, but for the history of what was typed.
AccessTypes ==
  /\ endpoint \subseteq Ops /\ alone \subseteq Ops
  /\ minted \subseteq Users /\ received \subseteq minted
  /\ identity \in [Ops -> Identities(minted)]
  /\ contacts \in [Ops -> [Nicks -> minted \cup {None}]]
  /\ ledger \subseteq Relationships
  /\ adm \in [Ops -> AdminCommand]
  /\ commands \in 0 .. MaxCommands

\* What a command of Access has found out by the time it uses it.
AdmOK(o) ==
  /\ adm[o].pc \in {"create", "saveorg"} => Me(o) # None
  /\ adm[o].pc \in {"offered", "taken", "contact"} =>
       adm[o].role \in Roles /\ adm[o].nick \in Nicks
  /\ adm[o].pc = "offered" => adm[o].who \in minted
  /\ adm[o].pc \in {"taken", "contact", "joining"} => adm[o].who \in received
  /\ adm[o].pc \in {"delete", "write"} =>
       /\ <<adm[o].obj, adm[o].role, adm[o].who>> \in RoleTuples
       /\ adm[o].pc = "delete" => adm[o].left # <<>>
  /\ adm[o].pc = "assign" => adm[o].obj \in Projects

\* The users that homes know have reached one.
HomesKnow ==
  \A o \in Ops : /\ identity[o].user \in received \cup {None}
                 /\ \A n \in Nicks : contacts[o][n] \in received \cup {None}

\* A command without company has the roles of its user to itself: those there
\* are are still to be deleted.
Solitude ==
  \A o \in alone :
    /\ \A p \in Ops \ {o} : Doing(p, "idle")
    /\ adm[o].pc \in {"delete", "write"} /\ ~adm[o].dropped =>
         \A r \in Roles : <<adm[o].obj, r, adm[o].who>> \in ledger =>
           adm[o].pc = "delete" /\ r \in Elems(adm[o].left)

AccessInv == AccessTypes /\ (\A o \in Ops : AdmOK(o)) /\ HomesKnow /\ Solitude

LEMMA QuietOK == Quiet \in AdminCommand
  BY DEF Quiet, AdminCommand

LEMMA FreshUserIsNew ==
  ASSUME UsersLeft PROVE FreshUser \in Users \ minted
  BY DEF UsersLeft, FreshUser

\* Leaving aside the relationships, what a step of o must keep.
LEMMA Bystanders ==
  ASSUME AccessInv, NEW o \in Ops,
         \A p \in Ops \ {o} : adm'[p] = adm[p] /\ identity'[p] = identity[p],
         minted \subseteq minted', received \subseteq received', AdmOK(o)'
  PROVE  \A p \in Ops : AdmOK(p)'
  <1> SUFFICES ASSUME NEW p \in Ops \ {o} PROVE AdmOK(p)'
    OBVIOUS
  <1> QED
    BY DEF AccessInv, AdmOK, Me

\* A command that starts has company, or everybody else is idle.
LEMMA StartsAlone ==
  ASSUME AccessInv, NEW o \in Ops, AdminBegin(o),
         \A p \in Ops \ {o} : adm'[p] = adm[p],
         adm'[o].pc \notin {"delete", "write"}
  PROVE  Solitude'
  BY DEF AdminBegin, Solitude, Doing

\* One that goes on is alone, or has company already.
LEMMA GoesOnAlone ==
  ASSUME AccessInv, NEW o \in Ops, ~Doing(o, "idle"), alone' = alone,
         \A p \in Ops \ {o} : adm'[p] = adm[p],
         adm'[o].pc \notin {"delete", "write"}
  PROVE  Solitude'
  BY DEF AccessInv, Solitude, Doing

LEMMA TurnFacts ==
  ASSUME AccessTypes, NEW o \in Ops, NEW pc, Turn(o, pc),
         pc \in {"create", "saveorg", "taken", "contact", "write", "identity",
                "delete", "assign"}
  PROVE  /\ adm' \in [Ops -> AdminCommand]
         /\ adm'[o].pc = pc /\ adm'[o].who = adm[o].who
         /\ adm'[o].nick = adm[o].nick /\ adm'[o].role = adm[o].role
         /\ \A p \in Ops \ {o} : adm'[p] = adm[p]
  <1>1. adm \in [Ops -> AdminCommand] /\ adm[o] \in AdminCommand
    BY DEF AccessTypes
  <1>2. [adm[o] EXCEPT !.pc = pc] \in AdminCommand
    BY <1>1 DEF AdminCommand
  <1>3. /\ [adm[o] EXCEPT !.pc = pc].pc = pc
        /\ [adm[o] EXCEPT !.pc = pc].who = adm[o].who
        /\ [adm[o] EXCEPT !.pc = pc].nick = adm[o].nick
        /\ [adm[o] EXCEPT !.pc = pc].role = adm[o].role
    BY <1>1 DEF AdminCommand
  <1> QED
    BY <1>1, <1>2, <1>3 DEF Turn

LEMMA LeaveFacts ==
  ASSUME AccessTypes, NEW o \in Ops, Leave(o)
  PROVE  /\ adm' \in [Ops -> AdminCommand] /\ adm'[o].pc = "idle"
         /\ \A p \in Ops \ {o} : adm'[p] = adm[p]
  BY DEF AccessTypes, Leave, AdminCommand, Quiet

LEMMA BeginFacts ==
  ASSUME AccessTypes, NEW o \in Ops, AdminBegin(o)
  PROVE  /\ commands' \in 0 .. MaxCommands /\ alone' \subseteq Ops
         /\ adm[o].pc = "idle"
  BY DEF AccessTypes, AdminBegin, Count, Doing

\* A step of o that deletes and writes no role one by one.
LEMMA Keeps ==
  ASSUME AccessInv, NEW o \in Ops,
         \/ AdminBegin(o)
         \/ ~Doing(o, "idle") /\ UNCHANGED <<alone, commands>>,
         adm' \in [Ops -> AdminCommand], adm'[o].pc \notin {"delete", "write"},
         \A p \in Ops \ {o} : adm'[p] = adm[p] /\ identity'[p] = identity[p],
         AdmOK(o)', endpoint' = endpoint, ledger' \subseteq Relationships,
         minted \subseteq minted', minted' \subseteq Users,
         received \subseteq received', received' \subseteq minted',
         identity' \in [Ops -> Identities(minted')],
         contacts' \in [Ops -> [Nicks -> minted' \cup {None}]],
         identity'[o].user \in received' \cup {None},
         \A p \in Ops, n \in Nicks : contacts'[p][n] \in received' \cup {None}
  PROVE  AccessInv'
  <1>1. commands' \in 0 .. MaxCommands /\ alone' \subseteq Ops
    BY BeginFacts DEF AccessInv, AccessTypes
  <1>2. AccessTypes'
    BY <1>1 DEF AccessInv, AccessTypes
  <1>3. \A p \in Ops : AdmOK(p)'
    BY Bystanders
  <1>4. HomesKnow'
    BY DEF AccessInv, HomesKnow
  <1>5. Solitude'
    BY StartsAlone, GoesOnAlone
  <1> QED
    BY <1>2, <1>3, <1>4, <1>5 DEF AccessInv

\* The files and the drawn UUIDs as they are now.
Now ==
  /\ ledger \subseteq Relationships /\ minted \subseteq Users
  /\ received \subseteq minted /\ endpoint \subseteq Ops
  /\ identity \in [Ops -> Identities(minted)]
  /\ contacts \in [Ops -> [Nicks -> minted \cup {None}]]
  /\ \A o \in Ops : identity[o].user \in received \cup {None}
  /\ \A o \in Ops, n \in Nicks : contacts[o][n] \in received \cup {None}
  /\ adm \in [Ops -> AdminCommand]

LEMMA NowOK == AccessInv => Now
  BY DEF AccessInv, AccessTypes, HomesKnow, Now

\* The command of o ends.
LEMMA Leaves ==
  ASSUME AccessInv, NEW o \in Ops, ~Doing(o, "idle"), Leave(o),
         UNCHANGED <<alone, commands, endpoint, minted, received>>,
         ledger' \subseteq Relationships,
         \A p \in Ops \ {o} : identity'[p] = identity[p],
         identity' \in [Ops -> Identities(minted)],
         contacts' \in [Ops -> [Nicks -> minted \cup {None}]],
         identity'[o].user \in received \cup {None},
         \A p \in Ops, n \in Nicks : contacts'[p][n] \in received \cup {None}
  PROVE  AccessInv'
  <1>1. Now
    BY NowOK
  <1>2. /\ adm' \in [Ops -> AdminCommand] /\ adm'[o].pc = "idle"
        /\ \A p \in Ops \ {o} : adm'[p] = adm[p]
    BY LeaveFacts DEF AccessInv
  <1>3. AdmOK(o)'
    BY <1>2 DEF AdmOK
  <1> QED
    BY <1>1, <1>2, <1>3, Keeps DEF Now

LEMMA Saved ==
  ASSUME Now, NEW o \in Ops, NEW id \in Identities(minted), SaveIdentity(o, id)
  PROVE  /\ identity' \in [Ops -> Identities(minted)] /\ identity'[o] = id
         /\ \A p \in Ops \ {o} : identity'[p] = identity[p]
  BY DEF Now, SaveIdentity

LEMMA OrgStep ==
  ASSUME AccessInv, NEW o \in Ops,
         \/ OrgCreate(o)
         \/ (GenerateIdentity(o) \/ CreateOrg(o) \/ SaveOrg(o)) /\ UNCHANGED commands
  PROVE  AccessInv'
  <1>0. Now
    BY NowOK
  <1> USE <1>0 DEF Now
  <1>1. CASE OrgCreate(o)
    <2> DEFINE pc == IF Me(o) = None THEN "identity" ELSE "create"
    <2>1. AdminBegin(o) /\ UNCHANGED <<Files, ledger>> /\ Turn(o, pc)
      BY <1>1 DEF OrgCreate, AdminClient
    <2>2. /\ adm' \in [Ops -> AdminCommand] /\ adm'[o].pc = pc
          /\ \A p \in Ops \ {o} : adm'[p] = adm[p]
      BY <2>1, TurnFacts DEF AccessInv
    <2>3. AdmOK(o)'
      BY <2>1, <2>2 DEF AdmOK, Me, Files
    <2> QED
      BY <2>1, <2>2, <2>3, Keeps DEF Files
  <1>2. CASE GenerateIdentity(o) /\ UNCHANGED commands
    <2>0. ~Doing(o, "idle") /\ UNCHANGED <<endpoint, contacts, ledger, alone>>
      BY <1>2 DEF GenerateIdentity, Doing
    <2>1. CASE Leave(o) /\ UNCHANGED <<identity, minted, received>>
      BY <1>2, <2>0, <2>1, Leaves
    <2>2. CASE /\ UsersLeft /\ Turn(o, "create")
               /\ SaveIdentity(o, [NoIdentity EXCEPT !.user = FreshUser])
               /\ minted' = minted \cup {FreshUser}
               /\ received' = received \cup {FreshUser}
      <3>1. FreshUser \in Users /\ FreshUser # None
        BY <2>2, FreshUserIsNew
      <3>2. [NoIdentity EXCEPT !.user = FreshUser] \in Identities(minted')
        BY <2>2 DEF Identities, NoIdentity
      <3>3. /\ identity' \in [Ops -> Identities(minted')]
            /\ identity'[o].user = FreshUser
            /\ \A p \in Ops \ {o} : identity'[p] = identity[p]
        <4>1. \A p \in Ops : identity[p] \in Identities(minted')
          BY <2>2 DEF Identities
        <4>2. identity' = [identity EXCEPT
                             ![o] = [NoIdentity EXCEPT !.user = FreshUser]]
          BY <2>2 DEF SaveIdentity
        <4>3. [NoIdentity EXCEPT !.user = FreshUser].user = FreshUser
          BY DEF NoIdentity
        <4> QED
          BY <3>2, <4>1, <4>2, <4>3
      <3>4. /\ adm' \in [Ops -> AdminCommand] /\ adm'[o].pc = "create"
            /\ \A p \in Ops \ {o} : adm'[p] = adm[p]
        BY <2>2, TurnFacts DEF AccessInv
      <3>5. AdmOK(o)'
        BY <3>1, <3>3, <3>4 DEF AdmOK, Me
      <3>6. contacts' \in [Ops -> [Nicks -> minted' \cup {None}]]
        <4>1. \A p \in Ops : contacts[p] \in [Nicks -> minted' \cup {None}]
          BY <2>2
        <4> QED
          BY <2>0, <4>1
      <3>7. /\ minted \subseteq minted' /\ minted' \subseteq Users
            /\ received \subseteq received' /\ received' \subseteq minted'
            /\ identity'[o].user \in received' \cup {None}
            /\ \A p \in Ops, n \in Nicks :
                 contacts'[p][n] \in received' \cup {None}
        BY <2>0, <2>2, <3>1, <3>3
      <3> QED
        BY <1>2, <2>0, <3>3, <3>4, <3>5, <3>6, <3>7, Keeps
    <2> QED
      BY <1>2, <2>1, <2>2 DEF GenerateIdentity
  <1>3. CASE CreateOrg(o) /\ UNCHANGED commands
    <2>0. ~Doing(o, "idle") /\ UNCHANGED <<Files, alone>> /\ adm[o].pc = "create"
      BY <1>3 DEF CreateOrg, Doing
    <2>1. CASE Leave(o) /\ UNCHANGED ledger
      BY <1>3, <2>0, <2>1, Leaves DEF Files
    <2>2. CASE WriteRelationship(<<Org, "admin", Me(o)>>) /\ Turn(o, "saveorg")
      <3>1. Me(o) \in Users /\ Me(o) # None
        BY <2>0 DEF AccessInv, AdmOK, Me
      <3>2. ledger' \subseteq Relationships
        BY <2>2, <3>1 DEF WriteRelationship, Relationships, RoleTuples, Roles
      <3>3. /\ adm' \in [Ops -> AdminCommand] /\ adm'[o].pc = "saveorg"
            /\ \A p \in Ops \ {o} : adm'[p] = adm[p]
        BY <2>2, TurnFacts DEF AccessInv
      <3>4. AdmOK(o)'
        BY <2>0, <3>1, <3>3 DEF AdmOK, Me, Files
      <3> QED
        BY <1>3, <2>0, <3>2, <3>3, <3>4, Keeps DEF Files
    <2> QED
      BY <1>3, <2>1, <2>2 DEF CreateOrg, WriteOrFatal
  <1>4. CASE SaveOrg(o) /\ UNCHANGED commands
    <2> DEFINE id == [identity[o] EXCEPT !.org = TRUE]
    <2>1. /\ ~Doing(o, "idle") /\ Leave(o)
          /\ UNCHANGED <<endpoint, contacts, ledger, minted, alone, received>>
          /\ SaveIdentity(o, id) \/ UNCHANGED identity
      BY <1>4 DEF SaveOrg, Doing
    <2>2. \A x \in Identities(minted) :
            /\ [x EXCEPT !.org = TRUE] \in Identities(minted)
            /\ [x EXCEPT !.org = TRUE].user = x.user
      BY DEF Identities
    <2>3. id \in Identities(minted) /\ id.user = identity[o].user
      BY <2>2
    <2> HIDE DEF id
    <2>4. /\ identity' \in [Ops -> Identities(minted)]
          /\ identity'[o].user = identity[o].user
          /\ \A p \in Ops \ {o} : identity'[p] = identity[p]
      BY <2>1, <2>3, Saved
    <2> QED
      BY <1>4, <2>1, <2>4, Leaves
  <1> QED
    BY <1>1, <1>2, <1>3, <1>4

\* A relationship is written, or it fails and the command ends.
LEMMA Writes ==
  ASSUME AccessInv, NEW o \in Ops, ~Doing(o, "idle"), NEW tuple \in Relationships,
         NEW next \in {"saveorg", "contact"}, WriteOrFatal(o, tuple, next),
         next = "saveorg" => Me(o) # None,
         next = "contact" => /\ adm[o].role \in Roles /\ adm[o].nick \in Nicks
                             /\ adm[o].who \in received,
         UNCHANGED <<Files, alone, commands>>
  PROVE  AccessInv'
  <1>0. Now
    BY NowOK
  <1> USE <1>0 DEF Now
  <1>1. CASE Leave(o) /\ UNCHANGED ledger
    BY <1>1, Leaves DEF Files
  <1>2. CASE WriteRelationship(tuple) /\ Turn(o, next)
    <2>1. ledger' \subseteq Relationships
      BY <1>2 DEF WriteRelationship
    <2>2. /\ adm' \in [Ops -> AdminCommand] /\ adm'[o].pc = next
          /\ adm'[o].role = adm[o].role /\ adm'[o].nick = adm[o].nick
          /\ adm'[o].who = adm[o].who
          /\ \A p \in Ops \ {o} : adm'[p] = adm[p]
      BY <1>2, TurnFacts DEF AccessInv
    <2>3. AdmOK(o)'
      BY <2>2 DEF AdmOK, Me, Files
    <2> QED
      BY <2>1, <2>2, <2>3, Keeps DEF Files
  <1> QED
    BY <1>1, <1>2 DEF WriteOrFatal

LEMMA InviteStep ==
  ASSUME AccessInv, NEW o \in Ops, NEW nick \in Nicks, NEW role \in Roles,
         Invite(o, nick, role)
  PROVE  AccessInv'
  <1>0. Now
    BY NowOK
  <1> USE <1>0 DEF Now
  <1> DEFINE a == [adm[o] EXCEPT !.pc = "offered", !.nick = nick, !.role = role,
                                 !.who = FreshUser]
  <1>1. FreshUser \in Users /\ AdminBegin(o)
    BY FreshUserIsNew DEF Invite, AdminClient
  <1>2. /\ a \in AdminCommand /\ a.pc = "offered" /\ a.nick = nick
        /\ a.role = role /\ a.who = FreshUser
    <2>1. adm[o] \in AdminCommand
      OBVIOUS
    <2> QED
      BY <1>1, <2>1 DEF AdminCommand
  <1>3. adm' = [adm EXCEPT ![o] = a]
    BY DEF Invite
  <1> HIDE DEF a
  <1>4. /\ adm' \in [Ops -> AdminCommand] /\ adm'[o] = a
        /\ \A p \in Ops \ {o} : adm'[p] = adm[p]
    BY <1>2, <1>3
  <1>5. /\ minted' = minted \cup {FreshUser}
        /\ UNCHANGED <<endpoint, identity, contacts, received, ledger>>
    BY DEF Invite
  <1>6. AdmOK(o)'
    BY <1>2, <1>4, <1>5 DEF AdmOK
  <1>7. /\ identity' \in [Ops -> Identities(minted')]
        /\ contacts' \in [Ops -> [Nicks -> minted' \cup {None}]]
    <2>1. \A p \in Ops : identity[p] \in Identities(minted')
      BY <1>5 DEF Identities
    <2>2. \A p \in Ops : contacts[p] \in [Nicks -> minted' \cup {None}]
      BY <1>5
    <2> QED
      BY <1>5, <2>1, <2>2
  <1>8. /\ minted \subseteq minted' /\ minted' \subseteq Users
        /\ received' \subseteq minted'
    BY <1>1, <1>5
  <1> QED
    BY <1>1, <1>2, <1>4, <1>5, <1>6, <1>7, <1>8, Keeps

LEMMA JoinStep ==
  ASSUME AccessInv, NEW o \in Ops, Join(o) PROVE AccessInv'
  <1>0. Now
    BY NowOK
  <1> USE <1>0 DEF Now
  <1>1. PICK p \in Ops \ {o} :
          /\ Doing(p, "offered")
          /\ adm' = [adm EXCEPT ![p].pc = "taken", ![o].pc = "joining",
                                ![o].who = adm[p].who]
          /\ received' = received \cup {adm[p].who}
    BY DEF Join
  <1>2. /\ AdminBegin(o) /\ adm[o].pc = "idle" /\ adm[p].pc = "offered"
        /\ UNCHANGED <<endpoint, identity, contacts, minted, ledger>>
    BY <1>1 DEF Join, AdminBegin, Doing
  <1> DEFINE a == [adm[p] EXCEPT !.pc = "taken"]
             b == [adm[o] EXCEPT !.pc = "joining", !.who = adm[p].who]
  <1>3. /\ a \in AdminCommand /\ a.pc = "taken" /\ a.who = adm[p].who
        /\ a.role = adm[p].role /\ a.nick = adm[p].nick
    <2>1. adm[p] \in AdminCommand
      OBVIOUS
    <2> QED
      BY <2>1 DEF AdminCommand
  <1>4. b \in AdminCommand /\ b.pc = "joining" /\ b.who = adm[p].who
    <2>1. adm[o] \in AdminCommand /\ adm[p] \in AdminCommand
      OBVIOUS
    <2> QED
      BY <2>1 DEF AdminCommand
  <1>5. adm' = [q \in Ops |-> IF q = o THEN b ELSE IF q = p THEN a ELSE adm[q]]
    BY <1>1
  <1> HIDE DEF a, b
  <1>6. /\ adm' \in [Ops -> AdminCommand] /\ adm'[o] = b /\ adm'[p] = a
        /\ \A q \in Ops \ {o, p} : adm'[q] = adm[q]
    BY <1>3, <1>4, <1>5
  <1>7. /\ adm[p].who \in minted /\ adm[p].role \in Roles /\ adm[p].nick \in Nicks
    BY <1>2 DEF AccessInv, AdmOK
  <1>8. received \subseteq received' /\ received' \subseteq minted
    BY <1>1, <1>7
  <1>9. AccessTypes'
    BY <1>2, <1>6, <1>8, BeginFacts DEF AccessInv, AccessTypes
  <1>10. \A q \in Ops : AdmOK(q)'
    <2>1. \A q \in Ops \ {o, p} : AdmOK(q)'
      BY <1>2, <1>6, <1>8 DEF AccessInv, AdmOK, Me
    <2>2. AdmOK(p)'
      BY <1>1, <1>3, <1>6, <1>7 DEF AdmOK
    <2>3. AdmOK(o)'
      BY <1>1, <1>4, <1>6 DEF AdmOK
    <2> QED
      BY <2>1, <2>2, <2>3
  <1>11. HomesKnow'
    BY <1>2, <1>8 DEF AccessInv, HomesKnow
  <1>12. Solitude'
    BY <1>2 DEF AdminBegin, Doing, Solitude
  <1> QED
    BY <1>9, <1>10, <1>11, <1>12 DEF AccessInv

LEMMA InvitationStep ==
  ASSUME AccessInv, NEW o \in Ops, UNCHANGED commands,
         InviteEnds(o) \/ GrantRole(o) \/ SetContact(o) \/ JoinSaves(o)
  PROVE  AccessInv'
  <1>0. Now
    BY NowOK
  <1> USE <1>0 DEF Now
  <1>1. CASE InviteEnds(o)
    BY <1>1, Leaves DEF InviteEnds, Files, Doing
  <1>2. CASE GrantRole(o)
    <2>1. ~Doing(o, "idle") /\ adm[o].pc = "taken"
      BY <1>2 DEF GrantRole, Doing
    <2>2. /\ adm[o].role \in Roles /\ adm[o].nick \in Nicks /\ adm[o].who \in received
      BY <2>1 DEF AccessInv, AdmOK
    <2>3. <<Org, adm[o].role, adm[o].who>> \in Relationships
      BY <2>2 DEF Relationships, RoleTuples
    <2> QED
      BY <1>2, <2>1, <2>2, <2>3, Writes DEF GrantRole
  <1>3. CASE SetContact(o)
    <2>1. /\ ~Doing(o, "idle") /\ adm[o].pc = "contact" /\ Leave(o)
          /\ UNCHANGED <<endpoint, identity, ledger, minted, alone, received>>
      BY <1>3 DEF SetContact, Doing
    <2>2. adm[o].who \in received /\ adm[o].nick \in Nicks
      BY <2>1 DEF AccessInv, AdmOK
    <2>3. CASE UNCHANGED contacts
      BY <2>1, <2>3, Leaves
    <2>4. CASE contacts' = [contacts EXCEPT ![o][adm[o].nick] = adm[o].who]
      <3>1. /\ contacts' \in [Ops -> [Nicks -> minted \cup {None}]]
            /\ \A p \in Ops, n \in Nicks :
                 contacts'[p][n] \in {contacts[p][n], adm[o].who}
        BY <2>2, <2>4
      <3> QED
        BY <2>1, <2>2, <3>1, Leaves
    <2> QED
      BY <1>3, <2>3, <2>4 DEF SetContact
  <1>4. CASE JoinSaves(o)
    <2> DEFINE id == [user |-> adm[o].who, org |-> TRUE, project |-> None]
    <2>1. /\ ~Doing(o, "idle") /\ adm[o].pc = "joining" /\ Leave(o)
          /\ UNCHANGED <<endpoint, contacts, ledger, minted, alone, received>>
          /\ UNCHANGED identity \/ SaveIdentity(o, id)
      BY <1>4 DEF JoinSaves, Doing
    <2>2. adm[o].who \in received
      BY <2>1 DEF AccessInv, AdmOK
    <2>3. id \in Identities(minted) /\ id.user \in received
      BY <2>2 DEF Identities
    <2> HIDE DEF id
    <2>4. /\ identity' \in [Ops -> Identities(minted)]
          /\ identity'[o].user \in received \cup {None}
          /\ \A p \in Ops \ {o} : identity'[p] = identity[p]
      BY <2>1, <2>3, Saved
    <2> QED
      BY <2>1, <2>4, Leaves
  <1> QED
    BY <1>1, <1>2, <1>3, <1>4

LEMMA TailElems ==
  ASSUME NEW S, NEW q \in Seq(S), q # <<>>
  PROVE  /\ Head(q) \in S /\ Tail(q) \in Seq(S)
         /\ Elems(q) = Elems(Tail(q)) \cup {Head(q)}
         /\ Len(q) = 1 => Elems(Tail(q)) = {}
         /\ Len(q) # 1 => Tail(q) # <<>>
  <1>1. /\ Len(q) \in Nat \ {0} /\ Len(Tail(q)) = Len(q) - 1 /\ Head(q) = q[1]
        /\ \A i \in 1 .. Len(Tail(q)) : Tail(q)[i] = q[i + 1]
        /\ Head(q) \in S /\ Tail(q) \in Seq(S)
    OBVIOUS
  <1>2. \A i \in 1 .. Len(q) : i # 1 =>
          i - 1 \in 1 .. Len(Tail(q)) /\ Tail(q)[i - 1] = q[i]
    BY <1>1
  <1>3. \A i \in 1 .. Len(q) : q[i] \in Elems(Tail(q)) \cup {Head(q)}
    BY <1>1, <1>2 DEF Elems
  <1>4. \A i \in 1 .. Len(Tail(q)) : i + 1 \in 1 .. Len(q)
    BY <1>1
  <1>5. \A x \in Elems(Tail(q)) \cup {Head(q)} : x \in Elems(q)
    BY <1>1, <1>4 DEF Elems
  <1>6. Elems(q) = Elems(Tail(q)) \cup {Head(q)}
    <2>1. ASSUME NEW x \in Elems(q) PROVE x \in Elems(Tail(q)) \cup {Head(q)}
      <3>1. PICK i \in 1 .. Len(q) : x = q[i]
        BY <2>1 DEF Elems
      <3> QED
        BY <1>3, <3>1
    <2> QED
      BY <1>5, <2>1
  <1>7. Len(q) = 1 => Elems(Tail(q)) = {}
    <2>1. ASSUME NEW x \in Elems(Tail(q)) PROVE Len(q) # 1
      <3>1. PICK i \in 1 .. Len(Tail(q)) : x = Tail(q)[i]
        BY <2>1 DEF Elems
      <3> QED
        BY <1>1, <3>1
    <2> QED
      BY <2>1
  <1>8. Len(q) # 1 => Tail(q) # <<>>
    <2>1. Len(q) # 1 => Len(Tail(q)) # 0
      BY <1>1
    <2>2. Len(<<>>) = 0
      OBVIOUS
    <2> QED
      BY <2>1, <2>2
  <1> QED
    BY <1>1, <1>6, <1>7, <1>8

\* set-role goes through every role there can be on an object.
LEMMA RolesOfAll ==
  ASSUME AccessTypes, NEW obj \in {Org} \cup Projects
  PROVE  /\ RolesOf(obj) \in Seq(Roles) /\ RolesOf(obj) # <<>>
         /\ \A u : \A r \in Roles :
              <<obj, r, u>> \in ledger => r \in Elems(RolesOf(obj))
  <1>1. CASE obj = Org
    <2>1. RolesOf(obj) = <<"admin", "editor", "reader">>
      BY <1>1 DEF RolesOf
    <2>2. /\ RolesOf(obj) \in Seq(Roles) /\ Len(RolesOf(obj)) = 3
          /\ RolesOf(obj)[1] = "admin" /\ RolesOf(obj)[2] = "editor"
          /\ RolesOf(obj)[3] = "reader"
      BY <2>1 DEF Roles
    <2>3. \A r \in Roles : r \in Elems(RolesOf(obj))
      BY <2>2 DEF Roles, Elems
    <2> QED
      BY <2>2, <2>3
  <1>2. CASE obj # Org
    <2>1. RolesOf(obj) = <<"editor", "reader">>
      BY <1>2 DEF RolesOf
    <2>2. /\ RolesOf(obj) \in Seq(Roles) /\ Len(RolesOf(obj)) = 2
          /\ RolesOf(obj)[1] = "editor" /\ RolesOf(obj)[2] = "reader"
      BY <2>1 DEF Roles
    <2>3. \A r \in Roles \ {"admin"} : r \in Elems(RolesOf(obj))
      BY <2>2 DEF Roles, Elems
    <2>4. \A u : <<obj, "admin", u>> \notin Relationships
      BY <1>2 DEF Relationships, RoleTuples
    <2>5. ledger \subseteq Relationships
      BY DEF AccessTypes
    <2>6. \A u : \A r \in Roles : <<obj, r, u>> \in ledger => r # "admin"
      BY <2>4, <2>5
    <2>7. RolesOf(obj) # <<>>
      BY <2>1
    <2> QED
      BY <2>2, <2>3, <2>6, <2>7
  <1> QED
    BY <1>1, <1>2

LEMMA ResolvedOK ==
  ASSUME Now, NEW o \in Ops, NEW name \in Users \cup Nicks
  PROVE  ResolveContact(o, name) \in Users \cup Nicks
  BY DEF Now, ResolveContact

LEMMA SetRoleStarts ==
  ASSUME AccessInv, NEW o \in Ops, NEW x \in RoleArgs, StartSetRole(o, x),
         x.obj \in Projects => x.role # "admin"
  PROVE  AccessInv'
  <1>0. Now
    BY NowOK
  <1> USE <1>0 DEF Now
  <1> DEFINE who == ResolveContact(o, x.name)
             left == RolesOf(x.obj)
             a == [adm[o] EXCEPT !.pc = "delete", !.obj = x.obj,
                     !.role = x.role, !.who = who, !.left = left]
  <1>1. /\ x.obj \in {Org} \cup Projects /\ x.role \in Roles
        /\ who \in Users \cup Nicks
    BY ResolvedOK
  <1>2. left \in Seq(Roles) /\ left # <<>>
    BY <1>1, RolesOfAll DEF AccessInv
  <1>3. \A r \in Roles : <<x.obj, r, who>> \in ledger => r \in Elems(left)
    BY <1>1, RolesOfAll DEF AccessInv
  <1>4. /\ AdminBegin(o) /\ UNCHANGED <<Files, ledger>>
        /\ adm' = [adm EXCEPT ![o] = a]
    BY DEF StartSetRole, AdminClient
  <1>5. <<x.obj, x.role, who>> \in RoleTuples
    BY <1>1 DEF RoleTuples
  <1> HIDE DEF who, left
  <1>6. /\ a \in AdminCommand /\ a.pc = "delete" /\ a.obj = x.obj
        /\ a.role = x.role /\ a.who = who /\ a.left = left
    <2>1. adm[o] \in AdminCommand
      OBVIOUS
    <2> QED
      BY <1>1, <1>2, <2>1 DEF AdminCommand
  <1> HIDE DEF a
  <1>7. /\ adm' \in [Ops -> AdminCommand] /\ adm'[o] = a
        /\ \A p \in Ops \ {o} : adm'[p] = adm[p]
    BY <1>4, <1>6
  <1>8. AccessTypes'
    BY <1>4, <1>7, BeginFacts DEF AccessInv, AccessTypes, Files
  <1>9. AdmOK(o)'
    BY <1>2, <1>5, <1>6, <1>7 DEF AdmOK
  <1>10. \A p \in Ops : AdmOK(p)'
    BY <1>4, <1>7, <1>9, Bystanders DEF Files
  <1>11. HomesKnow'
    BY <1>4 DEF AccessInv, HomesKnow, Files
  <1>12. Solitude'
    BY <1>3, <1>4, <1>6, <1>7 DEF AdminBegin, Doing, Solitude
  <1> QED
    BY <1>8, <1>10, <1>11, <1>12 DEF AccessInv

LEMMA RoleStep ==
  ASSUME AccessInv, NEW o \in Ops, UNCHANGED commands,
         DeleteRoles(o) \/ WriteRole(o)
  PROVE  AccessInv'
  <1>0. Now
    BY NowOK
  <1> USE <1>0 DEF Now
  <1>1. CASE WriteRole(o)
    <2>1. ~Doing(o, "idle") /\ adm[o].pc = "write" /\ Leave(o)
      BY <1>1 DEF WriteRole, Doing
    <2>2. <<adm[o].obj, adm[o].role, adm[o].who>> \in Relationships
      BY <2>1 DEF AccessInv, AdmOK, Relationships
    <2>3. ledger' \subseteq Relationships
      BY <1>1, <2>2 DEF WriteRole, WriteRelationship
    <2> QED
      BY <1>1, <2>1, <2>3, Leaves DEF WriteRole, Files
  <1>2. CASE DeleteRoles(o)
    <2> DEFINE left == adm[o].left
               next == IF Len(left) = 1 THEN "write" ELSE "delete"
    <2>1. PICK ok \in BOOLEAN :
            /\ ledger' = IF ok THEN ledger \ {<<adm[o].obj, Head(left), adm[o].who>>}
                         ELSE ledger
            /\ adm' = [adm EXCEPT ![o].left = Tail(@), ![o].dropped = @ \/ ~ok,
                         ![o].pc = next]
      BY <1>2 DEF DeleteRoles, DeleteRelationship
    <2>2. /\ adm[o].pc = "delete" /\ UNCHANGED <<Files, alone>>
          /\ ~Doing(o, "idle")
      BY <1>2 DEF DeleteRoles, Doing
    <2>3. /\ left \in Seq(Roles) /\ left # <<>>
          /\ <<adm[o].obj, adm[o].role, adm[o].who>> \in RoleTuples
      <3>1. adm[o] \in AdminCommand
        OBVIOUS
      <3> QED
        BY <2>2, <3>1 DEF AccessInv, AdmOK, AdminCommand
    <2>4. /\ Tail(left) \in Seq(Roles)
          /\ Elems(left) = Elems(Tail(left)) \cup {Head(left)}
          /\ Len(left) = 1 => Elems(Tail(left)) = {}
          /\ Len(left) # 1 => Tail(left) # <<>>
      BY <2>3, TailElems
    <2> DEFINE a == [adm[o] EXCEPT !.left = Tail(left),
                       !.dropped = adm[o].dropped \/ ~ok, !.pc = next]
    <2>5. adm' = [adm EXCEPT ![o] = a]
      BY <2>1
    <2>6. /\ a \in AdminCommand /\ a.pc = next /\ a.left = Tail(left)
          /\ a.obj = adm[o].obj /\ a.role = adm[o].role /\ a.who = adm[o].who
          /\ ~a.dropped => ~adm[o].dropped /\ ok
      <3>1. adm[o] \in AdminCommand /\ next \in {"write", "delete"}
        OBVIOUS
      <3>2. \A x \in AdminCommand, t \in Seq(Roles), b \in BOOLEAN,
              n \in {"write", "delete"} :
              [x EXCEPT !.left = t, !.dropped = b, !.pc = n] \in AdminCommand
        BY DEF AdminCommand
      <3>3. /\ a.pc = next /\ a.left = Tail(left) /\ a.obj = adm[o].obj
            /\ a.role = adm[o].role /\ a.who = adm[o].who
            /\ a.dropped = (adm[o].dropped \/ ~ok)
        BY <3>1 DEF AdminCommand
      <3>4. (adm[o].dropped \/ ~ok) \in BOOLEAN
        OBVIOUS
      <3> QED
        BY <2>4, <3>1, <3>2, <3>3, <3>4
    <2> HIDE DEF a
    <2>7. /\ adm' \in [Ops -> AdminCommand] /\ adm'[o] = a
          /\ \A p \in Ops \ {o} : adm'[p] = adm[p]
      BY <2>5, <2>6
    <2>8. AccessTypes'
      BY <2>1, <2>2, <2>7 DEF AccessInv, AccessTypes, Files
    <2>9. AdmOK(o)'
      BY <2>3, <2>4, <2>6, <2>7 DEF AdmOK
    <2>10. \A p \in Ops : AdmOK(p)'
      BY <2>2, <2>7, <2>9, Bystanders DEF Files
    <2>11. HomesKnow'
      BY <2>2 DEF AccessInv, HomesKnow, Files
    <2>12. ASSUME NEW p \in alone'
           PROVE  /\ p = o /\ \A q \in Ops \ {o} : Doing(q, "idle")'
                  /\ ~adm'[o].dropped => \A r \in Roles :
                       <<adm'[o].obj, r, adm'[o].who>> \in ledger' =>
                         adm'[o].pc = "delete" /\ r \in Elems(adm'[o].left)
      <3>1. p \in alone /\ p = o /\ \A q \in Ops \ {o} : Doing(q, "idle")
        BY <2>2, <2>12 DEF AccessInv, Solitude, AccessTypes, Doing
      <3>2. \A q \in Ops \ {o} : Doing(q, "idle")'
        BY <2>7, <3>1 DEF Doing
      <3>3. ASSUME ~a.dropped, NEW r \in Roles,
                   <<adm[o].obj, r, adm[o].who>> \in ledger'
            PROVE  a.pc = "delete" /\ r \in Elems(a.left)
        <4>1. r \in Elems(left) /\ r # Head(left)
          BY <2>1, <2>2, <2>6, <3>1, <3>3 DEF AccessInv, Solitude
        <4> QED
          BY <2>4, <2>6, <4>1
      <3> QED
        BY <2>6, <2>7, <3>1, <3>2, <3>3
    <2>13. Solitude'
      BY <2>12 DEF Solitude
    <2> QED
      BY <2>8, <2>10, <2>11, <2>13 DEF AccessInv
  <1> QED
    BY <1>1, <1>2

\* Commands that make one call, and the rest of Access.
LEMMA OtherStep ==
  ASSUME AccessInv, NEW o \in Ops,
         \/ \E x \in RoleArgs : \/ OrgAddUser(o, x) \/ OrgRemoveUser(o, x)
                               \/ ProjectAddUser(o, x) \/ ProjectRemoveUser(o, x)
         \/ ProjectClear(o)
         \/ \E p \in Projects :
              ProjectCreate(o, p) \/ ProjectUse(o, p) \/ ProjectAssign(o, p)
         \/ (AssignResource(o) \/ AdminInterrupt(o)) /\ UNCHANGED commands
  PROVE  AccessInv'
  <1>0. Now
    BY NowOK
  <1> USE <1>0 DEF Now
  <1>1. ASSUME AdminBegin(o), UNCHANGED <<Files, adm>>, ledger' \subseteq Relationships
        PROVE  AccessInv'
    <2>1. adm'[o].pc = "idle"
      BY <1>1 DEF AdminBegin, Doing
    <2>2. AdmOK(o)'
      BY <2>1 DEF AdmOK
    <2> QED
      BY <1>1, <2>1, <2>2, Keeps DEF Files
  <1>2. ASSUME NEW x \in RoleArgs,
               \/ OrgAddUser(o, x) \/ OrgRemoveUser(o, x)
               \/ ProjectAddUser(o, x) \/ ProjectRemoveUser(o, x)
        PROVE  AccessInv'
    <2>1. /\ AdminBegin(o) /\ UNCHANGED <<Files, adm>>
          /\ ledger' \subseteq ledger \/ <<x.obj, x.role, ResolveContact(o, x.name)>>
               \in RoleTuples
          /\ ledger' \subseteq ledger
               \cup {<<x.obj, x.role, ResolveContact(o, x.name)>>}
      BY <1>2, ResolvedOK DEF OrgAddUser, OrgRemoveUser, ProjectAddUser,
         ProjectRemoveUser, AdminClient, WriteRelationship, DeleteRelationship,
         RoleTuples
    <2>2. ledger' \subseteq Relationships
      BY <2>1 DEF Relationships
    <2> QED
      BY <1>1, <2>1, <2>2
  <1>3. ASSUME NEW p \in Projects, ProjectCreate(o, p) PROVE AccessInv'
    <2>1. ledger' \subseteq Relationships
      BY <1>3 DEF ProjectCreate, WriteRelationship, Relationships
    <2> QED
      BY <1>1, <1>3, <2>1 DEF ProjectCreate, AdminClient
  <1>4. ASSUME AdminBegin(o), NEW p \in Projects \cup {None},
               SaveIdentity(o, [identity[o] EXCEPT !.project = p]),
               UNCHANGED <<endpoint, contacts, minted, received, ledger, adm>>
        PROVE  AccessInv'
    <2> DEFINE id == [identity[o] EXCEPT !.project = p]
    <2>1. \A x \in Identities(minted) :
            /\ [x EXCEPT !.project = p] \in Identities(minted)
            /\ [x EXCEPT !.project = p].user = x.user
      BY DEF Identities
    <2>2. id \in Identities(minted) /\ id.user = identity[o].user
      BY <2>1
    <2>3. SaveIdentity(o, id)
      BY <1>4
    <2> HIDE DEF id
    <2>4. /\ identity' \in [Ops -> Identities(minted)]
          /\ identity'[o].user = identity[o].user
          /\ \A q \in Ops \ {o} : identity'[q] = identity[q]
      BY <2>2, <2>3, Saved
    <2>5. adm'[o].pc = "idle"
      BY <1>4 DEF AdminBegin, Doing
    <2>6. AdmOK(o)'
      BY <2>5 DEF AdmOK
    <2> QED
      BY <1>4, <2>4, <2>5, <2>6, Keeps
  <1>5. ASSUME NEW p \in Projects, ProjectAssign(o, p) PROVE AccessInv'
    <2> DEFINE a == [adm[o] EXCEPT !.pc = "assign", !.obj = p]
    <2>1. /\ AdminBegin(o) /\ UNCHANGED <<Files, ledger>>
          /\ adm' = [adm EXCEPT ![o] = a]
      BY <1>5 DEF ProjectAssign
    <2>2. a \in AdminCommand /\ a.pc = "assign" /\ a.obj = p
      <3>1. adm[o] \in AdminCommand
        OBVIOUS
      <3> QED
        BY <3>1 DEF AdminCommand
    <2> HIDE DEF a
    <2>3. /\ adm' \in [Ops -> AdminCommand] /\ adm'[o] = a
          /\ \A q \in Ops \ {o} : adm'[q] = adm[q]
      BY <2>1, <2>2
    <2>4. AdmOK(o)'
      BY <2>2, <2>3 DEF AdmOK
    <2> QED
      BY <2>1, <2>2, <2>3, <2>4, Keeps DEF Files
  <1>6. CASE AssignResource(o) /\ UNCHANGED commands
    <2>1. /\ ~Doing(o, "idle") /\ adm[o].pc = "assign" /\ Leave(o)
          /\ UNCHANGED <<Files, alone>>
      BY <1>6 DEF AssignResource, Doing
    <2>2. adm[o].obj \in Projects
      BY <2>1 DEF AccessInv, AdmOK
    <2>3. ledger' \subseteq Relationships
      BY <1>6, <2>2 DEF AssignResource, WriteRelationship, Relationships
    <2> QED
      BY <1>6, <2>1, <2>3, Leaves DEF Files
  <1>7. CASE AdminInterrupt(o) /\ UNCHANGED commands
    BY <1>7, Leaves DEF AdminInterrupt
  <1> QED
    BY <1>2, <1>3, <1>4, <1>5, <1>6, <1>7 DEF ProjectClear, ProjectUse

LEMMA AdminStepOK ==
  ASSUME AccessInv, NEW o \in Ops, AdminStart(o) \/ AdminStep(o)
  PROVE  AccessInv'
  <1>1. CASE AdminStep(o)
    BY <1>1, OrgStep, InvitationStep, RoleStep, OtherStep DEF AdminStep
  <1>2. CASE AdminStart(o)
    <2>1. \A x \in RoleArgs : x.role \in Roles
      OBVIOUS
    <2> QED
      BY <1>2, <2>1, OrgStep, InviteStep, JoinStep, SetRoleStarts, OtherStep
         DEF AdminStart, GiveOrgRole, OrgSetRole, ProjectSetRole
  <1> QED
    BY <1>1, <1>2

\* Of four calls that nothing makes atomic: with no other command beside it and
\* no deletion lost, set-role leaves its role and no other.
LEMMA ReplacesRole ==
  ASSUME AccessInv, NEW o \in alone, WriteRole(o), ~adm[o].dropped,
         <<adm[o].obj, adm[o].role, adm[o].who>> \in ledger'
  PROVE  {r \in Roles : <<adm[o].obj, r, adm[o].who>> \in ledger'} = {adm[o].role}
  <1>1. adm[o].pc = "write" /\ o \in Ops
    BY DEF WriteRole, Doing, AccessInv, AccessTypes
  <1>2. \A r \in Roles : <<adm[o].obj, r, adm[o].who>> \notin ledger
    BY <1>1 DEF AccessInv, Solitude
  <1>3. adm[o].role \in Roles
    BY <1>1 DEF AccessInv, AdmOK, RoleTuples
  <1> QED
    BY <1>2, <1>3 DEF WriteRole, WriteRelationship

-----------------------------------------------------------------------------
(* What Access does to the ledger *)

AdminTuples ==
  RoleTuples \cup Projects \X {"org"} \X {Org} \cup Ids \X {"project"} \X Projects

\* A role that set-role has on its way is for somebody whom an invitation has
\* reached, or who was typed.
RoleInHand ==
  \A o \in Ops : adm[o].pc \in {"delete", "write"} /\ adm[o].obj = Org
                   /\ adm[o].who \in Users => adm[o].who \in received \cup typed

TransferInv == RoleOnlyAfterTransfer /\ RoleInHand

LEMMA MinusAbsent ==
  ASSUME NEW S, NEW t, t \notin S PROVE S \ {t} = S
  OBVIOUS

LEMMA AdminLedger ==
  ASSUME AccessInv, NEW o \in Ops, AdminStart(o) \/ AdminStep(o)
  PROVE  \/ UNCHANGED ledger
         \/ \E t \in AdminTuples : ledger' = ledger \ {t}
         \/ \E t \in AdminTuples :
              /\ ledger' = ledger \cup {t}
              /\ RoleInHand =>
                   (t[1] = Org /\ t[3] \in Users => t[3] \in received \cup typed')
  <1>0. Now
    BY NowOK
  <1> USE <1>0 DEF Now
  <1>1. CASE CreateOrg(o)
    <2>1. Me(o) \in Users /\ Me(o) \in received
      BY <1>1 DEF CreateOrg, Doing, AccessInv, AdmOK, Me
    <2>2. <<Org, "admin", Me(o)>> \in AdminTuples
      BY <2>1 DEF AdminTuples, RoleTuples, Roles
    <2> QED
      BY <1>1, <2>1, <2>2 DEF CreateOrg, WriteOrFatal, WriteRelationship
  <1>2. CASE GrantRole(o)
    <2>1. adm[o].who \in received /\ adm[o].role \in Roles
      BY <1>2 DEF GrantRole, Doing, AccessInv, AdmOK
    <2>2. <<Org, adm[o].role, adm[o].who>> \in AdminTuples
      BY <2>1 DEF AdminTuples, RoleTuples
    <2> QED
      BY <1>2, <2>1, <2>2 DEF GrantRole, WriteOrFatal, WriteRelationship
  <1>3. CASE WriteRole(o)
    <2>1. /\ adm[o].pc = "write"
          /\ <<adm[o].obj, adm[o].role, adm[o].who>> \in AdminTuples
      BY <1>3 DEF WriteRole, Doing, AccessInv, AdmOK, AdminTuples
    <2>2. typed \subseteq typed'
      BY DEF AdminStart, AdminStep, GiveOrgRole
    <2> QED
      BY <1>3, <2>1, <2>2 DEF WriteRole, WriteRelationship, RoleInHand
  <1>4. CASE DeleteRoles(o)
    <2>1. adm[o].pc = "delete" /\ adm[o] \in AdminCommand
      BY <1>4 DEF DeleteRoles, Doing
    <2>2. /\ adm[o].left \in Seq(Roles) /\ adm[o].left # <<>>
          /\ adm[o].obj \in {Org} \cup Projects /\ adm[o].who \in Users \cup Nicks
      BY <2>1 DEF AccessInv, AdmOK, AdminCommand, RoleTuples
    <2>3. Head(adm[o].left) \in Roles
      BY <2>2, TailElems
    <2> DEFINE t == <<adm[o].obj, Head(adm[o].left), adm[o].who>>
    <2>4. ledger' = ledger \/ ledger' = ledger \ {t}
      BY <1>4 DEF DeleteRoles, DeleteRelationship
    <2>5. t \in AdminTuples \/ t \notin ledger
      BY <2>2, <2>3 DEF AdminTuples, RoleTuples, Relationships, Roles
    <2>6. t \notin ledger => ledger \ {t} = ledger
      BY MinusAbsent
    <2> HIDE DEF t
    <2> QED
      BY <2>4, <2>5, <2>6
  <1>5. ASSUME NEW x \in RoleArgs,
               (GiveOrgRole(o, x) /\ OrgAddUser(o, x)) \/ ProjectAddUser(o, x)
        PROVE  \E t \in AdminTuples :
                 /\ ledger' = ledger \cup {t}
                 /\ t[1] = Org /\ t[3] \in Users => t[3] \in received \cup typed'
    <2> DEFINE who == ResolveContact(o, x.name)
               t == <<x.obj, x.role, who>>
    <2>1. who \in Users \cup Nicks
      BY ResolvedOK
    <2>2. t \in AdminTuples /\ ledger' = ledger \cup {t}
      BY <1>5, <2>1 DEF OrgAddUser, ProjectAddUser, WriteRelationship,
         AdminTuples, RoleTuples
    <2>3. who \in Users => who \in received \/ who = x.name
      BY DEF ResolveContact
    <2>4. t[1] = Org /\ x.name \in Users => x.name \in typed'
      BY <1>5 DEF GiveOrgRole, ProjectAddUser
    <2>5. t[3] = who
      OBVIOUS
    <2> HIDE DEF t, who
    <2> QED
      BY <2>2, <2>3, <2>4, <2>5
  <1>6. ASSUME NEW x \in RoleArgs, OrgRemoveUser(o, x) \/ ProjectRemoveUser(o, x)
        PROVE  \/ UNCHANGED ledger
               \/ \E t \in AdminTuples : ledger' = ledger \ {t}
    <2> DEFINE t == <<x.obj, x.role, ResolveContact(o, x.name)>>
    <2>1. ResolveContact(o, x.name) \in Users \cup Nicks
      BY ResolvedOK
    <2>2. ledger' = ledger \ {t}
      BY <1>6 DEF OrgRemoveUser, ProjectRemoveUser, DeleteRelationship
    <2>3. t \in AdminTuples \/ t \notin ledger
      BY <2>1 DEF AdminTuples, RoleTuples, Relationships, Roles
    <2>4. t \notin ledger => ledger \ {t} = ledger
      BY MinusAbsent
    <2> HIDE DEF t
    <2> QED
      BY <2>2, <2>3, <2>4
  <1>7. ASSUME NEW p \in Projects, ProjectCreate(o, p)
        PROVE  \E t \in AdminTuples : ledger' = ledger \cup {t} /\ t[1] # Org
    <2>1. ledger' = ledger \cup {<<p, "org", Org>>} /\ <<p, "org", Org>> \in AdminTuples
      BY <1>7 DEF ProjectCreate, WriteRelationship, AdminTuples
    <2> QED
      BY <2>1
  <1>8. ASSUME AssignResource(o)
        PROVE  \E t \in AdminTuples : ledger' = ledger \cup {t} /\ t[1] # Org
    <2>1. adm[o].obj \in Projects
      BY <1>8 DEF AssignResource, Doing, AccessInv, AdmOK
    <2>2. PICK i \in Ids : ledger' = ledger \cup {<<i, "project", adm[o].obj>>}
      BY <1>8 DEF AssignResource, WriteRelationship
    <2>3. <<i, "project", adm[o].obj>> \in AdminTuples
      BY <2>1 DEF AdminTuples
    <2> QED
      BY <2>2, <2>3
  <1>9. CASE \/ OrgCreate(o) \/ Join(o) \/ ProjectClear(o)
             \/ (\E n \in Nicks, a \in RoleArgs : a.obj = Org /\ Invite(o, n, a.role))
             \/ (\E a \in RoleArgs : OrgSetRole(o, a) \/ ProjectSetRole(o, a))
             \/ (\E p \in Projects : ProjectUse(o, p) \/ ProjectAssign(o, p))
             \/ GenerateIdentity(o) \/ SaveOrg(o) \/ InviteEnds(o) \/ SetContact(o)
             \/ JoinSaves(o) \/ AdminInterrupt(o)
    BY <1>9 DEF OrgCreate, Join, ProjectClear, Invite, OrgSetRole, ProjectSetRole,
       StartSetRole, ProjectUse, ProjectAssign, GenerateIdentity, SaveOrg,
       InviteEnds, SetContact, JoinSaves, AdminInterrupt
  <1> QED
    BY <1>1, <1>2, <1>3, <1>4, <1>5, <1>6, <1>7, <1>8, <1>9
       DEF AdminStart, AdminStep, GiveOrgRole

\* What a command of Access holds of the organization's roles.
LEMMA AdminTransfer ==
  ASSUME AccessInv, TransferInv,
         NEW o \in Ops, AdminStart(o) \/ AdminStep(o)
  PROVE  TransferInv'
  <1>0. Now /\ AccessInv'
    BY NowOK, AdminStepOK
  <1> USE <1>0 DEF Now
  <1>1. received \subseteq received' /\ typed \subseteq typed'
    BY DEF AdminStart, AdminStep, GiveOrgRole, OrgCreate, Join, ProjectClear, Invite,
       OrgSetRole, ProjectSetRole, StartSetRole, OrgAddUser, OrgRemoveUser,
       ProjectAddUser, ProjectRemoveUser, ProjectCreate, ProjectUse,
       ProjectAssign, GenerateIdentity, CreateOrg, SaveOrg, InviteEnds,
       GrantRole, SetContact, JoinSaves, DeleteRoles, WriteRole, AssignResource,
       AdminInterrupt, Files
  <1>2. ASSUME NEW r \in Roles, NEW u \in Users, <<Org, r, u>> \in ledger'
        PROVE  u \in received' \cup typed'
    <2>1. <<Org, r, u>> \in ledger => u \in received \cup typed
      BY DEF TransferInv, RoleOnlyAfterTransfer, ReadAccess, Related
    <2>2. <<Org, r, u>> \in ledger \/ u \in received \cup typed'
      <3>1. CASE UNCHANGED ledger \/ \E t \in AdminTuples : ledger' = ledger \ {t}
        BY <1>2, <3>1
      <3>2. ASSUME NEW t \in AdminTuples, ledger' = ledger \cup {t},
                   t[1] = Org /\ t[3] \in Users => t[3] \in received \cup typed'
            PROVE  <<Org, r, u>> \in ledger \/ u \in received \cup typed'
        <4>1. CASE <<Org, r, u>> = t
          BY <3>2, <4>1
        <4> QED
          BY <1>2, <3>2, <4>1
      <3>3. RoleInHand
        BY DEF TransferInv
      <3> QED
        BY <3>1, <3>2, <3>3, AdminLedger
    <2> QED
      BY <1>1, <2>1, <2>2
  <1>3. RoleOnlyAfterTransfer'
    BY <1>2 DEF RoleOnlyAfterTransfer, ReadAccess, Related
  <1>4. ASSUME NEW p \in Ops, adm'[p].pc \in {"delete", "write"}, adm'[p].obj = Org,
               adm'[p].who \in Users
        PROVE  adm'[p].who \in received' \cup typed'
    <2>1. CASE /\ adm[p].pc \in {"delete", "write"} /\ adm'[p].obj = adm[p].obj
               /\ adm'[p].who = adm[p].who
      BY <1>1, <1>4, <2>1 DEF TransferInv, RoleInHand
    <2>2. ASSUME NEW x \in RoleArgs, GiveOrgRole(o, x), OrgSetRole(o, x), p = o
          PROVE  adm'[p].who \in received' \cup typed'
      <3>1. adm'[o].who = ResolveContact(o, x.name)
        <4>1. adm[o] \in AdminCommand
          OBVIOUS
        <4> QED
          BY <2>2, <4>1 DEF OrgSetRole, StartSetRole, AdminCommand
      <3>2. adm'[o].who = x.name => adm'[o].who \in typed'
        BY <1>4, <2>2 DEF GiveOrgRole
      <3> QED
        BY <1>1, <1>4, <2>2, <3>1, <3>2 DEF ResolveContact
    <2>5. ASSUME NEW x \in RoleArgs, ProjectSetRole(o, x), p = o
          PROVE  FALSE
      <3>1. adm[o] \in AdminCommand
        OBVIOUS
      <3> QED
        BY <1>4, <2>5, <3>1 DEF ProjectSetRole, StartSetRole, AdminCommand
    <2>3. ASSUME \/ AdminStep(o) \/ OrgCreate(o) \/ Join(o) \/ ProjectClear(o)
                 \/ \E n \in Nicks, a \in RoleArgs : Invite(o, n, a.role)
                 \/ \E a \in RoleArgs : \/ OrgAddUser(o, a) \/ OrgRemoveUser(o, a)
                                        \/ ProjectAddUser(o, a) \/ ProjectRemoveUser(o, a)
                 \/ \E x \in Projects :
                      ProjectCreate(o, x) \/ ProjectUse(o, x) \/ ProjectAssign(o, x)
          PROVE  /\ adm[p].pc \in {"delete", "write"} /\ adm'[p].obj = adm[p].obj
                 /\ adm'[p].who = adm[p].who
      <3>1. CASE UNCHANGED adm
        BY <1>4, <3>1
      <3>2. ASSUME Leave(o) \/ \E pc \in {"identity", "create", "saveorg", "contact"} :
                      Turn(o, pc)
            PROVE  adm'[p] = adm[p]
        BY <1>4, <3>2, LeaveFacts, TurnFacts DEF AccessInv
      <3>3. CASE \/ OrgCreate(o) \/ GenerateIdentity(o) \/ CreateOrg(o) \/ SaveOrg(o)
                 \/ InviteEnds(o) \/ GrantRole(o) \/ SetContact(o) \/ JoinSaves(o)
                 \/ WriteRole(o) \/ AssignResource(o) \/ AdminInterrupt(o)
        BY <1>4, <3>2, <3>3 DEF OrgCreate, GenerateIdentity, CreateOrg, SaveOrg,
           InviteEnds, GrantRole, SetContact, JoinSaves, WriteRole,
           AssignResource, AdminInterrupt, WriteOrFatal
      <3>4. CASE DeleteRoles(o)
        <4>1. adm[o].pc = "delete" /\ adm[o] \in AdminCommand
          BY <3>4 DEF DeleteRoles, Doing
        <4>2. PICK ok \in BOOLEAN :
                adm' = [adm EXCEPT ![o].left = Tail(@), ![o].dropped = @ \/ ~ok,
                   ![o].pc = IF Len(adm[o].left) = 1 THEN "write" ELSE "delete"]
          BY <3>4 DEF DeleteRoles
        <4>3. /\ \A q \in Ops \ {o} : adm'[q] = adm[q]
              /\ adm'[o].obj = adm[o].obj /\ adm'[o].who = adm[o].who
          BY <4>1, <4>2 DEF AdminCommand
        <4> QED
          BY <1>4, <4>1, <4>3
      <3>5. ASSUME NEW q \in Ops,
                   adm'[q].pc \notin {"delete", "write"} /\ adm'[o].pc \notin {"delete", "write"},
                   \A x \in Ops \ {q, o} : adm'[x] = adm[x]
            PROVE  adm'[p] = adm[p]
        BY <1>4, <3>5
      <3>6. ASSUME NEW n \in Nicks, NEW r \in Roles, Invite(o, n, r) PROVE adm'[p] = adm[p]
        <4>1. adm'[o].pc = "offered" /\ \A x \in Ops \ {o} : adm'[x] = adm[x]
          BY <3>6 DEF Invite, AdminCommand
        <4> QED
          BY <3>5, <4>1
      <3>7. ASSUME Join(o) PROVE adm'[p] = adm[p]
        <4>1. PICK q \in Ops \ {o} :
                adm' = [adm EXCEPT ![q].pc = "taken", ![o].pc = "joining",
                                   ![o].who = adm[q].who]
          BY <3>7 DEF Join
        <4>2. /\ adm'[q].pc = "taken" /\ adm'[o].pc = "joining"
              /\ \A x \in Ops \ {q, o} : adm'[x] = adm[x]
          BY <4>1 DEF AdminCommand
        <4> QED
          BY <3>5, <4>2
      <3>8. ASSUME NEW x \in Projects, ProjectAssign(o, x) PROVE adm'[p] = adm[p]
        <4>1. adm'[o].pc = "assign" /\ \A y \in Ops \ {o} : adm'[y] = adm[y]
          BY <3>8 DEF ProjectAssign, AdminCommand
        <4> QED
          BY <3>5, <4>1
      <3>9. CASE \/ ProjectClear(o)
                 \/ \E x \in RoleArgs : \/ OrgAddUser(o, x) \/ OrgRemoveUser(o, x)
                                       \/ ProjectAddUser(o, x) \/ ProjectRemoveUser(o, x)
                 \/ \E x \in Projects : ProjectCreate(o, x) \/ ProjectUse(o, x)
        BY <3>1, <3>9 DEF ProjectClear, OrgAddUser, OrgRemoveUser, ProjectAddUser,
           ProjectRemoveUser, ProjectCreate, ProjectUse
      <3>10. \A x \in RoleArgs : x.role \in Roles
        OBVIOUS
      <3> QED
        BY <1>4, <2>3, <3>3, <3>4, <3>6, <3>7, <3>8, <3>9, <3>10 DEF AdminStep
    <2>4. ASSUME NEW x \in RoleArgs, OrgSetRole(o, x) \/ ProjectSetRole(o, x), p # o
          PROVE  adm'[p] = adm[p]
      BY <2>4 DEF OrgSetRole, ProjectSetRole, StartSetRole
    <2>6. CASE \E x \in RoleArgs : GiveOrgRole(o, x) /\ OrgSetRole(o, x)
      BY <1>4, <2>1, <2>2, <2>4, <2>6
    <2>7. CASE \E x \in RoleArgs : ProjectSetRole(o, x)
      BY <1>4, <2>1, <2>4, <2>5, <2>7
    <2> QED
      BY <2>1, <2>3, <2>6, <2>7 DEF AdminStart, GiveOrgRole
  <1> QED
    BY <1>3, <1>4 DEF TransferInv, RoleInHand

-----------------------------------------------------------------------------
(* Fleet *)

FleetTypes ==
  /\ proc \in [Ops -> Command] /\ inst \in [Ids -> Instance]
  /\ cloudKeys \subseteq KeyNames /\ fss \subseteq Filesystems \X Regions
  /\ rules \subseteq Ports
  /\ files \in [Ops -> SUBSET KeyNames] /\ keyRows \in [Ops -> SUBSET KeyNames]
  /\ fsRow \in [Ops -> [Filesystems -> Regions \cup {None}]]
  /\ instRow \in [Ops -> SUBSET Ids] /\ sshHosts \in [Ops -> SUBSET Names]
  /\ reported \subseteq Ids /\ disowned \subseteq Ids

\* The instances there are or were.
Begun == {i \in Ids : inst[i].status # "none"}

\* i has its owner in the ledger, unless writing that failed.
Owned(i) ==
  inst[i].owner # None /\ i \notin disowned => <<i, "owner", inst[i].owner>> \in ledger

\* u may end i.
MayKill(u, i) == u \in {inst[i].owner} \cup admins

Launching ==
  {"poll", "fs", "mkfs", "allowed", "key", "file", "row", "post", "wait", "config"}

\* What a command of Fleet has found out by the time it uses it: a launch the
\* instance it was given, a kill that what it ends is named, and allowed.
LaunchOK(o) ==
  LET p == proc[o] IN
  /\ p.pc \in Launching => p.name \in Names /\ p.region \in Regions
  /\ p.pc = "mkfs" => p.fs # None
  /\ p.pc \in {"key", "file"} => provider = "lambda"
  /\ p.pc \in {"file", "row"} /\ provider = "lambda" => p.key \in KeyNames
  /\ p.pc \in {"wait", "config", "owner", "keyrow"} \cup
               (IF provider = "lambda" THEN {} ELSE {"row"}) =>
       p.id \in Begun /\ inst[p.id].owner = Owner(o)
  /\ p.pc = "keyrow" /\ provider = "lambda" /\ p.id \in Live => Owned(p.id)

KillOK(o) ==
  LET p == proc[o] IN
  /\ p.pc = "list" => p.ids = {}
  /\ p.pc = "resolve" => p.left \subseteq p.args
  /\ p.pc \in {"resolve", "check", "kill", "unledger"} =>
       /\ p.ids \subseteq Begun \cup {NoId}
       /\ \A i \in p.ids \cap Ids : {i, inst[i].name} \cap p.args # {}
  /\ p.pc \in {"check", "kill", "unledger"} => p.left \subseteq p.ids
  /\ p.pc = "check" /\ Enabled(o) =>
       \A i \in (p.ids \ p.left) \cap Ids : MayKill(Me(o), i)
  /\ p.pc = "kill" /\ Enabled(o) => \A i \in p.ids \cap Ids : MayKill(Me(o), i)
  /\ p.pc = "unledger" /\ provider = "lambda" => p.left \cap Live \subseteq disowned

ProcOK(o) ==
  /\ LaunchOK(o) /\ KillOK(o)
  /\ proc[o].pc = "rules" => proc[o].port \in Ports
  /\ proc[o].pc = "patch" /\ proc[o].port # None => proc[o].read \subseteq proc[o].send

\* The ledger and the cloud agree on who owns what.
CloudOK ==
  /\ \A i \in Begun : inst[i].name \in Names
  /\ \A o \in Ops : instRow[o] \subseteq Begun
  /\ reported \subseteq Begun
  /\ \A i \in Ids, u \in Users :
       <<i, "owner", u>> \in ledger => i \in Begun /\ inst[i].owner = u
  /\ \A u \in Users : AdminAccess(u) => u \in admins
  /\ provider = "lambda" => \A i \in reported \cap Live : Owned(i)

\* An operator runs one command at a time.
OneAtATime == \A o \in Ops : At(o, "idle") \/ Doing(o, "idle")

FleetInv ==
  /\ AccessInv /\ FleetTypes /\ admins \subseteq Users /\ typed \subseteq Users
  /\ provider \in Providers
  /\ OneAtATime /\ CloudOK /\ \A o \in Ops : ProcOK(o)

\* What every step does to the users who have administered.
AdminsFollow == admins' = admins \cup {u \in Users : <<Org, "admin", u>> \in ledger'}

\* What every step must keep.
Preserved == FleetInv' /\ (TransferInv => TransferInv')

\* A step of a command of Fleet.
Proceeds == UNCHANGED <<homes, commands, provider>> /\ AdminsFollow

\* The relationships that are roles stay or go.
RolesStay == \A x, u : \A r \in Roles : <<x, r, u>> \in ledger' => <<x, r, u>> \in ledger

\* What no step takes from another command: its instance, who owns it and that
\* the ledger has it, and that an instance that is gone does not come back.
Grows ==
  /\ \A i \in Begun :
       /\ inst'[i].status # "none" /\ inst'[i].name = inst[i].name
       /\ inst'[i].owner = inst[i].owner
       /\ inst[i].status = "gone" => inst'[i].status = "gone"
  /\ admins \subseteq admins' /\ disowned \subseteq disowned'
  /\ provider' = provider /\ endpoint' = endpoint
  /\ provider = "lambda" =>
       \A i \in Live \ disowned', u \in Users :
         inst'[i].status # "gone" /\ <<i, "owner", u>> \in ledger =>
           <<i, "owner", u>> \in ledger'

LEMMA GrowsFacts ==
  ASSUME FleetInv, Grows, (inst \in [Ids -> Instance])'
  PROVE  /\ Begun \subseteq Begun' /\ \A i \in Begun : i \in Live' => i \in Live
         /\ \A i \in Begun : provider = "lambda" /\ i \in Live' /\ Owned(i) => Owned(i)'
         /\ \A u : \A i \in Begun : MayKill(u, i) => MayKill(u, i)'
  <1>1. /\ inst \in [Ids -> Instance] /\ \A i \in Ids : inst[i] \in Instance
        /\ \A i \in Ids : inst'[i] \in Instance
    BY DEF FleetInv, FleetTypes
  <1>2. \A i \in Ids : /\ inst[i].status \in {"none", "booting", "active", "gone"}
                       /\ inst'[i].status \in {"none", "booting", "active", "gone"}
                       /\ inst[i].owner \in Users \cup {None}
    BY <1>1 DEF Instance
  <1>3. Begun \subseteq Begun'
    BY DEF Grows, Begun
  <1>4. ASSUME NEW i \in Begun, i \in Live' PROVE i \in Live
    BY <1>2, <1>4 DEF Grows, Begun, Live
  <1>5. ASSUME NEW i \in Begun, provider = "lambda", i \in Live', Owned(i)
        PROVE  Owned(i)'
    <2>1. i \in Live /\ inst'[i].status # "gone"
      BY <1>4, <1>5 DEF Live
    <2> QED
      BY <1>2, <1>5, <2>1 DEF Grows, Owned, Begun
  <1>6. ASSUME NEW i \in Begun, NEW u, MayKill(u, i) PROVE MayKill(u, i)'
    BY <1>6 DEF Grows, MayKill
  <1> QED
    BY <1>3, <1>4, <1>5, <1>6

\* A command that others leave alone has found out the same.
LEMMA ProcStays ==
  ASSUME FleetInv, Grows, (inst \in [Ids -> Instance])', NEW o \in Ops,
         proc'[o] = proc[o], identity'[o] = identity[o]
  PROVE  ProcOK(o)'
  <1>1. /\ Begun \subseteq Begun' /\ \A i \in Begun : i \in Live' => i \in Live
        /\ \A i \in Begun : provider = "lambda" /\ i \in Live' /\ Owned(i) => Owned(i)'
        /\ \A u : \A i \in Begun : MayKill(u, i) => MayKill(u, i)'
    BY GrowsFacts
  <1>2. ProcOK(o) /\ provider' = provider /\ endpoint' = endpoint
    BY DEF FleetInv, Grows
  <1>3. Me(o)' = Me(o) /\ Enabled(o)' = Enabled(o) /\ Owner(o)' = Owner(o)
    BY <1>2 DEF Me, Enabled, Owner
  <1>4. \A i \in Begun : inst'[i].name = inst[i].name /\ inst'[i].owner = inst[i].owner
    BY DEF Grows
  <1>5. LaunchOK(o)'
    BY <1>1, <1>2, <1>3, <1>4 DEF ProcOK, LaunchOK
  <1>6. KillOK(o)'
    <2>0. KillOK(o)
      BY <1>2 DEF ProcOK
    <2>1. proc[o].pc \in {"resolve", "check", "kill", "unledger"} =>
            proc[o].ids \cap Ids \subseteq Begun
      BY <2>0 DEF KillOK
    <2>2. proc[o].pc = "unledger" /\ provider = "lambda" =>
            proc[o].left \cap Live' \subseteq disowned'
      <3>1. SUFFICES ASSUME proc[o].pc = "unledger", provider = "lambda",
                            NEW i \in proc[o].left, i \in Live'
                     PROVE  i \in disowned'
        OBVIOUS
      <3>2. i \in Ids /\ i \in proc[o].ids
        BY <2>0, <3>1 DEF KillOK, Live
      <3>3. i \in Live
        BY <1>1, <2>1, <3>1, <3>2
      <3> QED
        BY <2>0, <3>1, <3>3 DEF KillOK, Grows
    <2>3. proc[o].pc \in {"resolve", "check", "kill", "unledger"} =>
            /\ proc[o].ids \subseteq Begun' \cup {NoId}
            /\ \A i \in proc[o].ids \cap Ids :
                 {i, inst'[i].name} \cap proc[o].args # {}
      BY <1>1, <1>4, <2>0, <2>1 DEF KillOK
    <2>4. /\ proc[o].pc = "check" /\ Enabled(o) =>
               \A i \in (proc[o].ids \ proc[o].left) \cap Ids : MayKill(Me(o), i)'
          /\ proc[o].pc = "kill" /\ Enabled(o) =>
               \A i \in proc[o].ids \cap Ids : MayKill(Me(o), i)'
      BY <1>1, <1>3, <2>0, <2>1 DEF KillOK
    <2> QED
      BY <1>2, <1>3, <2>0, <2>2, <2>3, <2>4 DEF KillOK
  <1> QED
    BY <1>2, <1>5, <1>6 DEF ProcOK

LEMMA FleetAccess ==
  ASSUME AccessInv, UNCHANGED homes, (commands \in 0 .. MaxCommands)',
         ledger' \subseteq Relationships, RolesStay
  PROVE  AccessInv' /\ (TransferInv => TransferInv')
  <1>1. UNCHANGED <<endpoint, identity, contacts, minted, adm, alone, received, typed>>
    BY DEF homes
  <1>2. AccessTypes' /\ HomesKnow'
    BY <1>1 DEF AccessInv, AccessTypes, HomesKnow
  <1>3. \A o \in Ops : AdmOK(o)'
    BY <1>1 DEF AccessInv, AdmOK, Me
  <1>4. Solitude'
    BY <1>1 DEF AccessInv, Solitude, Doing, RolesStay
  <1>5. TransferInv => TransferInv'
    BY <1>1 DEF TransferInv, RoleOnlyAfterTransfer, RoleInHand, ReadAccess, Related,
       RolesStay
  <1> QED
    BY <1>2, <1>3, <1>4, <1>5 DEF AccessInv

\* What makes up a step of Fleet.
LEMMA FleetKeeps ==
  ASSUME FleetInv, UNCHANGED homes, (commands \in 0 .. MaxCommands)',
         ledger' \subseteq Relationships, RolesStay, AdminsFollow, Grows, FleetTypes',
         \A o \in Ops : proc'[o] = proc[o] \/ (Doing(o, "idle") /\ ProcOK(o)'),
         \A i \in Begun' : inst'[i].name \in Names,
         \A o \in Ops : instRow'[o] \subseteq Begun', reported' \subseteq Begun',
         \A i \in Ids, u \in Users :
           <<i, "owner", u>> \in ledger' => i \in Begun' /\ inst'[i].owner = u,
         provider = "lambda" => \A i \in (reported \cap Live)' : Owned(i)'
  PROVE  Preserved
  <1>1. AccessInv' /\ (TransferInv => TransferInv')
    BY FleetAccess DEF FleetInv
  <1>2. admins' \subseteq Users /\ \A u \in Users : AdminAccess(u)' => u \in admins'
    BY DEF AdminsFollow, FleetInv, AdminAccess, Related
  <1>3. OneAtATime'
    BY DEF FleetInv, OneAtATime, At, Doing, homes
  <1>4. CloudOK'
    BY <1>2 DEF CloudOK, Grows
  <1>5. \A o \in Ops : ProcOK(o)'
    BY ProcStays DEF homes, FleetTypes
  <1> QED
    BY <1>1, <1>2, <1>3, <1>4, <1>5 DEF FleetInv, Grows, Preserved, homes

\* A step that leaves the instances and the ledger alone.
LEMMA Stays ==
  ASSUME FleetInv, UNCHANGED <<homes, provider, inst, ledger, ghosts>>,
         (commands \in 0 .. MaxCommands)', AdminsFollow, FleetTypes',
         \A o \in Ops : proc'[o] = proc[o] \/ (Doing(o, "idle") /\ ProcOK(o)'),
         \A o \in Ops : instRow'[o] \subseteq Begun
  PROVE  Preserved
  <1>1. UNCHANGED <<homes, provider, inst, ledger, reported, disowned, endpoint>>
    BY DEF ghosts, homes
  <1>2. Grows
    BY <1>1 DEF Grows, AdminsFollow, Begun
  <1>3. RolesStay /\ ledger' \subseteq Relationships
    BY <1>1 DEF RolesStay, FleetInv, AccessInv, AccessTypes
  <1>4. CloudOK
    BY DEF FleetInv
  <1> QED
    BY <1>1, <1>2, <1>3, <1>4, FleetKeeps DEF CloudOK, Begun, Live, Owned

\* The command of o is c from now on.
LEMMA SetFacts ==
  ASSUME FleetTypes, NEW o \in Ops, NEW c \in Command, proc' = [proc EXCEPT ![o] = c]
  PROVE  /\ proc' \in [Ops -> Command] /\ proc'[o] = c
         /\ \A p \in Ops \ {o} : proc'[p] = proc[p]
  BY DEF FleetTypes

LEMMA IdleOK ==
  /\ Idle \in Command /\ Idle.pc = "idle" /\ Idle.port = None
  BY DEF Idle, Command, Phases

LEMMA ExitFacts ==
  ASSUME FleetTypes, NEW o \in Ops, Exit(o)
  PROVE  /\ proc' \in [Ops -> Command] /\ ProcOK(o)'
         /\ \A p \in Ops \ {o} : proc'[p] = proc[p]
  <1>1. /\ proc' \in [Ops -> Command] /\ proc'[o].pc = "idle"
        /\ \A p \in Ops \ {o} : proc'[p] = proc[p]
    BY SetFacts, IdleOK DEF Exit
  <1> QED
    BY <1>1 DEF ProcOK, LaunchOK, KillOK, Launching

LEMMA GotoFacts ==
  ASSUME FleetTypes, NEW o \in Ops, NEW pc \in Phases, Goto(o, pc)
  PROVE  /\ proc' \in [Ops -> Command] /\ proc'[o].pc = pc
         /\ proc'[o].name = proc[o].name /\ proc'[o].region = proc[o].region
         /\ proc'[o].fs = proc[o].fs /\ proc'[o].key = proc[o].key
         /\ proc'[o].id = proc[o].id
         /\ \A p \in Ops \ {o} : proc'[p] = proc[p]
  <1>1. \A c \in Command :
          /\ [c EXCEPT !.pc = pc] \in Command /\ [c EXCEPT !.pc = pc].pc = pc
          /\ [c EXCEPT !.pc = pc].name = c.name
          /\ [c EXCEPT !.pc = pc].region = c.region
          /\ [c EXCEPT !.pc = pc].fs = c.fs /\ [c EXCEPT !.pc = pc].key = c.key
          /\ [c EXCEPT !.pc = pc].id = c.id
    BY DEF Command
  <1>2. proc[o] \in Command
    BY DEF FleetTypes
  <1> DEFINE d == [proc[o] EXCEPT !.pc = pc]
  <1>3. proc' = [proc EXCEPT ![o] = d]
    BY DEF Goto
  <1>4. /\ d \in Command /\ d.pc = pc /\ d.name = proc[o].name
        /\ d.region = proc[o].region /\ d.fs = proc[o].fs
        /\ d.key = proc[o].key /\ d.id = proc[o].id
    BY <1>1, <1>2
  <1> HIDE DEF d
  <1> QED
    BY <1>3, <1>4, SetFacts

\* A step of a command that leaves the instances, their rows and the ledger
\* alone.
LEMMA CommandGoesOn ==
  ASSUME FleetInv, NEW o \in Ops, ~At(o, "idle") \/ Doing(o, "idle"),
         UNCHANGED <<homes, provider, inst, instRow, ledger, ghosts>>,
         (commands \in 0 .. MaxCommands)', AdminsFollow,
         proc' \in [Ops -> Command], \A p \in Ops \ {o} : proc'[p] = proc[p],
         ProcOK(o)',
         (cloudKeys \subseteq KeyNames /\ fss \subseteq Filesystems \X Regions)',
         (rules \subseteq Ports)',
         (files \in [Ops -> SUBSET KeyNames] /\ keyRows \in [Ops -> SUBSET KeyNames])',
         (fsRow \in [Ops -> [Filesystems -> Regions \cup {None}]])',
         (sshHosts \in [Ops -> SUBSET Names])'
  PROVE  Preserved
  <1>1. FleetTypes'
    BY DEF FleetTypes, FleetInv, ghosts
  <1>2. Doing(o, "idle")
    BY DEF FleetInv, OneAtATime
  <1>3. \A p \in Ops : instRow'[p] \subseteq Begun
    BY DEF FleetInv, CloudOK
  <1> QED
    BY <1>1, <1>2, <1>3, Stays

\* One that leaves the cloud and the files alone as well.
LEMMA CommandThinks ==
  ASSUME FleetInv, NEW o \in Ops, ~At(o, "idle") \/ Doing(o, "idle"),
         UNCHANGED <<homes, provider, cloud, ledger, local, ghosts>>,
         (commands \in 0 .. MaxCommands)', AdminsFollow,
         proc' \in [Ops -> Command], \A p \in Ops \ {o} : proc'[p] = proc[p],
         ProcOK(o)'
  PROVE  Preserved
  BY CommandGoesOn DEF cloud, local, FleetInv, FleetTypes

\* A command fails, is interrupted or has nothing more to do.
LEMMA CommandEnds ==
  ASSUME FleetInv, NEW o \in Ops, ~At(o, "idle"), Fatal(o), Proceeds
  PROVE  Preserved
  <1>1. Exit(o) /\ UNCHANGED <<cloud, ledger, local, ghosts>>
    BY DEF Fatal
  <1>2. commands \in 0 .. MaxCommands /\ FleetTypes
    BY DEF FleetInv, AccessInv, AccessTypes
  <1> QED
    BY <1>1, <1>2, ExitFacts, CommandThinks DEF Proceeds

\* A new command.
LEMMA BeginKeeps ==
  ASSUME FleetInv, NEW o \in Ops, Begin(o), AdminsFollow,
         NEW c \in Command, proc' = [proc EXCEPT ![o] = c],
         \/ /\ c.pc \in {"poll", "fs"} /\ c.name \in Names /\ c.region \in Regions
         \/ c.pc = "resolve" /\ c.left = c.args /\ c.ids = {}
         \/ c.pc = "list" /\ c.ids = {}
         \/ c.pc = "rules" /\ c.port \in Ports
         \/ c.pc = "patch" /\ c.port = None
  PROVE  Preserved
  <1>1. /\ At(o, "idle") /\ Doing(o, "idle") /\ (commands \in 0 .. MaxCommands)'
        /\ UNCHANGED <<homes, provider, cloud, ledger, local, ghosts>>
    BY DEF Begin, Count, homes, access, FleetInv, AccessInv, AccessTypes
  <1>2. /\ proc' \in [Ops -> Command] /\ proc'[o] = c
        /\ \A p \in Ops \ {o} : proc'[p] = proc[p]
    BY SetFacts DEF FleetInv
  <1>3. ProcOK(o)'
    BY <1>2 DEF ProcOK, LaunchOK, KillOK, Launching
  <1> QED
    BY <1>1, <1>2, <1>3, CommandThinks

LEMMA StartOK ==
  ASSUME FleetInv, NEW o \in Ops, Start(o), AdminsFollow
  PROVE  Preserved
  <1>1. ASSUME NEW f \in LaunchFlags, LaunchStart(o, f)
        PROVE  Preserved
    <2> DEFINE c == [Idle EXCEPT
          !.pc = IF f.wait /\ provider # "modal" THEN "poll" ELSE "fs",
          !.name = f.name, !.wait = f.wait, !.region = f.region, !.fs = f.fs]
    <2>1. /\ c \in Command /\ c.pc \in {"poll", "fs"} /\ c.name \in Names
          /\ c.region \in Regions
      BY DEF Idle, Command, Phases
    <2>2. Begin(o) /\ proc' = [proc EXCEPT ![o] = c]
      BY <1>1 DEF LaunchStart
    <2> HIDE DEF c
    <2> QED
      BY <2>1, <2>2, BeginKeeps
  <1>2. ASSUME NEW a \in KillArgs, KillStart(o, a)
        PROVE  Preserved
    <2> DEFINE c == [Idle EXCEPT !.pc = "resolve", !.args = a, !.left = a]
    <2>1. /\ c \in Command /\ c.pc = "resolve" /\ c.left = c.args /\ c.ids = {}
      BY DEF Idle, Command, Phases
    <2>2. Begin(o) /\ proc' = [proc EXCEPT ![o] = c]
      BY <1>2 DEF KillStart
    <2> HIDE DEF c
    <2> QED
      BY <2>1, <2>2, BeginKeeps
  <1>3. CASE KillAllStart(o)
    <2> DEFINE c == [Idle EXCEPT !.pc = "list"]
    <2>1. c \in Command /\ c.pc = "list" /\ c.ids = {}
      BY DEF Idle, Command, Phases
    <2>2. Begin(o) /\ proc' = [proc EXCEPT ![o] = c]
      BY <1>3 DEF KillAllStart
    <2> HIDE DEF c
    <2> QED
      BY <2>1, <2>2, BeginKeeps
  <1>4. ASSUME NEW p \in Ports, PortStart(o, p)
        PROVE  Preserved
    <2> DEFINE c == [Idle EXCEPT !.pc = "rules", !.port = p]
    <2>1. c \in Command /\ c.pc = "rules" /\ c.port \in Ports
      BY DEF Idle, Command, Phases
    <2>2. Begin(o) /\ proc' = [proc EXCEPT ![o] = c]
      BY <1>4 DEF PortStart
    <2> HIDE DEF c
    <2> QED
      BY <2>1, <2>2, BeginKeeps
  <1>5. ASSUME NEW s \in Rulesets, ReplaceStart(o, s)
        PROVE  Preserved
    <2> DEFINE c == [Idle EXCEPT !.pc = "patch", !.send = s]
    <2>1. c \in Command /\ c.pc = "patch" /\ c.port = None
      BY DEF Idle, Command, Phases
    <2>2. Begin(o) /\ proc' = [proc EXCEPT ![o] = c]
      BY <1>5 DEF ReplaceStart
    <2> HIDE DEF c
    <2> QED
      BY <2>1, <2>2, BeginKeeps
  <1> QED
    BY <1>1, <1>2, <1>3, <1>4, <1>5 DEF Start

\* A launch goes on to its next call.
LEMMA NextPhase ==
  ASSUME FleetInv, NEW o \in Ops, NEW pc \in {"mkfs", "allowed", "key", "post", "row",
                                             "wait", "config", "owner"},
         Goto(o, pc), UNCHANGED <<homes, provider, inst>>,
         proc[o].pc \in Launching,
         pc = "mkfs" => proc[o].fs # None, pc = "key" => provider = "lambda",
         pc = "row" => proc[o].pc = "file",
         pc \in {"wait", "config", "owner"} =>
           proc[o].id \in Begun /\ inst[proc[o].id].owner = Owner(o)
  PROVE  /\ proc' \in [Ops -> Command] /\ ProcOK(o)'
         /\ \A p \in Ops \ {o} : proc'[p] = proc[p]
  <1>1. pc \in Phases
    BY DEF Phases
  <1>2. /\ proc' \in [Ops -> Command] /\ proc'[o].pc = pc
        /\ proc'[o].name = proc[o].name /\ proc'[o].region = proc[o].region
        /\ proc'[o].fs = proc[o].fs /\ proc'[o].key = proc[o].key
        /\ proc'[o].id = proc[o].id
        /\ \A p \in Ops \ {o} : proc'[p] = proc[p]
    BY <1>1, GotoFacts DEF FleetInv
  <1>3. Owner(o)' = Owner(o) /\ Begun' = Begun
    BY DEF Owner, Me, Enabled, homes, Begun
  <1>4. LaunchOK(o)
    BY DEF FleetInv, ProcOK
  <1>5. LaunchOK(o)'
    BY <1>2, <1>3, <1>4 DEF LaunchOK, Launching
  <1> QED
    BY <1>2, <1>5 DEF ProcOK, KillOK

LEMMA SavedFilesystem ==
  ASSUME FleetTypes, NEW o \in Ops, NEW f \in Filesystems, NEW r \in Regions,
         SaveFilesystem(o, f, r)
  PROVE  (fsRow \in [Ops -> [Filesystems -> Regions \cup {None}]])'
  <1>1. [fsRow[o] EXCEPT ![f] = r] \in [Filesystems -> Regions \cup {None}]
    BY DEF FleetTypes
  <1> QED
    BY <1>1 DEF FleetTypes, SaveFilesystem

LEMMA PrepareOK ==
  ASSUME FleetInv, NEW o \in Ops, Proceeds,
         \/ PollAvailable(o) \/ PollTimeout(o) \/ ListFilesystems(o)
         \/ CreateFilesystem(o) \/ AskCreate(o)
  PROVE  Preserved
  <1>0. FleetTypes /\ (commands \in 0 .. MaxCommands)' /\ AdminsFollow
        /\ UNCHANGED <<homes, commands, provider>> /\ proc[o] \in Command
    BY DEF FleetInv, AccessInv, AccessTypes, Proceeds, FleetTypes
  <1>00. ~At(o, "idle") /\ proc[o].pc \in Launching
    BY DEF PollAvailable, PollTimeout, ListFilesystems, CreateFilesystem, AskCreate,
       At, Launching
  <1>1. CASE PollAvailable(o)
    <2>1. PICK r \in Regions : proc' = [proc EXCEPT ![o].pc = "fs", ![o].region = r]
      BY <1>1 DEF PollAvailable, Capacity
    <2> DEFINE c == [proc[o] EXCEPT !.pc = "fs", !.region = r]
    <2>2. proc' = [proc EXCEPT ![o] = c]
      BY <1>0, <2>1 DEF FleetTypes
    <2>3. c \in Command /\ c.pc = "fs" /\ c.name = proc[o].name /\ c.region = r
      BY <1>0 DEF Command, Phases
    <2> HIDE DEF c
    <2>4. /\ proc' \in [Ops -> Command] /\ proc'[o] = c
          /\ \A p \in Ops \ {o} : proc'[p] = proc[p]
      BY <1>0, <2>2, <2>3, SetFacts
    <2>5. proc[o].name \in Names
      BY <1>00 DEF FleetInv, ProcOK, LaunchOK
    <2>6. ProcOK(o)'
      BY <2>3, <2>4, <2>5 DEF ProcOK, LaunchOK, KillOK
    <2> QED
      BY <1>0, <1>00, <1>1, <2>4, <2>6, CommandThinks DEF PollAvailable
  <1>2. CASE Fatal(o)
    BY <1>00, <1>2, CommandEnds
  <1>3. CASE (Goto(o, "mkfs") \/ Goto(o, "allowed")) /\ ListFilesystems(o)
             /\ ~Fatal(o)
    <2>1. /\ UNCHANGED <<cloud, ledger, files, keyRows, instRow, sshHosts, ghosts>>
          /\ UNCHANGED fsRow \/ SaveFilesystem(o, proc[o].fs, proc[o].region)
          /\ Goto(o, "allowed") \/ (Goto(o, "mkfs") /\ proc[o].fs # None)
          /\ UNCHANGED fsRow \/ proc[o].fs # None
      BY <1>3 DEF ListFilesystems, local
    <2>2. proc[o].region \in Regions /\ proc[o].fs \in Filesystems \cup {None}
      BY <1>0, <1>00 DEF FleetInv, ProcOK, LaunchOK, Command
    <2>3. (fsRow \in [Ops -> [Filesystems -> Regions \cup {None}]])'
      <3>1. CASE UNCHANGED fsRow
        BY <1>0, <3>1 DEF FleetTypes
      <3>2. CASE ~UNCHANGED fsRow
        BY <1>0, <2>1, <2>2, <3>2, SavedFilesystem
      <3> QED
        BY <3>1, <3>2
    <2>4. /\ proc' \in [Ops -> Command] /\ ProcOK(o)'
          /\ \A p \in Ops \ {o} : proc'[p] = proc[p]
      BY <1>0, <1>00, <2>1, NextPhase DEF cloud
    <2> QED
      BY <1>0, <1>00, <2>1, <2>3, <2>4, CommandGoesOn DEF cloud, FleetTypes
  <1>4. CASE CreateFilesystem(o) /\ ~Fatal(o)
    <2>1. /\ UNCHANGED <<inst, cloudKeys, rules, ledger, files, keyRows, instRow,
                         sshHosts, ghosts>>
          /\ fss' = fss \cup {<<proc[o].fs, proc[o].region>>}
          /\ \/ Exit(o) /\ UNCHANGED fsRow
             \/ Goto(o, "allowed") /\ SaveFilesystem(o, proc[o].fs, proc[o].region)
          /\ proc[o].pc = "mkfs"
      BY <1>4 DEF CreateFilesystem, At
    <2>2. proc[o].region \in Regions /\ proc[o].fs \in Filesystems
      BY <1>0, <1>00, <2>1 DEF FleetInv, ProcOK, LaunchOK, Command
    <2>3. /\ (fsRow \in [Ops -> [Filesystems -> Regions \cup {None}]])'
          /\ (fss \subseteq Filesystems \X Regions)'
      BY <1>0, <2>1, <2>2, SavedFilesystem DEF FleetTypes
    <2>4. /\ proc' \in [Ops -> Command] /\ ProcOK(o)'
          /\ \A p \in Ops \ {o} : proc'[p] = proc[p]
      BY <1>0, <1>00, <2>1, NextPhase, ExitFacts
    <2> QED
      BY <1>0, <1>00, <2>1, <2>3, <2>4, CommandGoesOn DEF FleetTypes
  <1>5. CASE AskCreate(o) /\ ~Fatal(o)
    <2>1. /\ (Goto(o, "key") /\ provider = "lambda") \/ Goto(o, "post")
          /\ UNCHANGED <<cloud, ledger, local, ghosts>>
      BY <1>5 DEF AskCreate
    <2>2. /\ proc' \in [Ops -> Command] /\ ProcOK(o)'
          /\ \A p \in Ops \ {o} : proc'[p] = proc[p]
      BY <1>0, <1>00, <2>1, NextPhase DEF cloud
    <2> QED
      BY <1>0, <1>00, <2>1, <2>2, CommandThinks
  <1>6. ListFilesystems(o) => Fatal(o) \/ Goto(o, "mkfs") \/ Goto(o, "allowed")
    BY DEF ListFilesystems
  <1> QED
    BY <1>1, <1>2, <1>3, <1>4, <1>5, <1>6 DEF PollTimeout

LEMMA KeyOK ==
  ASSUME FleetInv, NEW o \in Ops, Proceeds,
         CreateSSHKey(o) \/ SaveKeyFile(o) \/ SaveKeyRow(o)
  PROVE  Preserved
  <1>0. FleetTypes /\ (commands \in 0 .. MaxCommands)' /\ AdminsFollow
        /\ UNCHANGED <<homes, commands, provider>> /\ proc[o] \in Command
    BY DEF FleetInv, AccessInv, AccessTypes, Proceeds, FleetTypes
  <1>00. ~At(o, "idle") /\ proc[o].pc \in Launching /\ LaunchOK(o)
    BY DEF CreateSSHKey, SaveKeyFile, SaveKeyRow, At, Launching, FleetInv, ProcOK
  <1>1. CASE Fatal(o)
    BY <1>00, <1>1, CommandEnds
  <1>2. CASE CreateSSHKey(o) /\ ~Fatal(o)
    <2>1. PICK k \in KeyNames :
            /\ cloudKeys' = cloudKeys \cup {k}
            /\ proc' = [proc EXCEPT ![o].pc = "file", ![o].key = k]
            /\ UNCHANGED <<inst, fss, rules, ledger, local, ghosts>>
      BY <1>2 DEF CreateSSHKey
    <2> DEFINE c == [proc[o] EXCEPT !.pc = "file", !.key = k]
    <2>2. proc' = [proc EXCEPT ![o] = c]
      BY <1>0, <2>1 DEF FleetTypes
    <2>3. /\ c \in Command /\ c.pc = "file" /\ c.key = k /\ c.name = proc[o].name
          /\ c.region = proc[o].region
      BY <1>0 DEF Command, Phases
    <2> HIDE DEF c
    <2>4. /\ proc' \in [Ops -> Command] /\ proc'[o] = c
          /\ \A p \in Ops \ {o} : proc'[p] = proc[p]
      BY <1>0, <2>2, <2>3, SetFacts
    <2>5. proc[o].pc = "key"
      BY <1>2 DEF CreateSSHKey, At
    <2>6. ProcOK(o)'
      BY <1>0, <1>00, <2>3, <2>4, <2>5 DEF ProcOK, LaunchOK, KillOK
    <2>7. /\ (cloudKeys \subseteq KeyNames)'
          /\ UNCHANGED <<rules, fss, files, keyRows, fsRow, sshHosts, instRow, inst>>
      BY <1>0, <2>1 DEF FleetTypes, local
    <2>8. UNCHANGED <<ledger, ghosts>>
      BY <2>1
    <2> QED
      BY <1>0, <1>00, <2>4, <2>6, <2>7, <2>8, CommandGoesOn DEF FleetTypes
  <1>3. CASE SaveKeyFile(o) /\ ~Fatal(o)
    <2>1. /\ proc[o].pc = "file" /\ Goto(o, "row")
          /\ files' = [files EXCEPT ![o] = @ \cup {proc[o].key}]
          /\ UNCHANGED <<cloud, ledger, keyRows, fsRow, instRow, sshHosts, ghosts>>
      BY <1>3 DEF SaveKeyFile, At
    <2>2. files' \in [Ops -> SUBSET KeyNames]
      BY <1>0, <1>00, <2>1 DEF FleetTypes, LaunchOK
    <2>3. /\ proc' \in [Ops -> Command] /\ ProcOK(o)'
          /\ \A p \in Ops \ {o} : proc'[p] = proc[p]
      BY <1>0, <1>00, <2>1, NextPhase DEF cloud
    <2> QED
      BY <1>0, <1>00, <2>1, <2>2, <2>3, CommandGoesOn DEF FleetTypes, cloud
  <1>4. CASE SaveKeyRow(o) /\ ~Fatal(o)
    <2>1. /\ proc[o].pc = "row" /\ provider = "lambda" /\ Goto(o, "post")
          /\ keyRows' = [keyRows EXCEPT ![o] = @ \cup {proc[o].key}]
          /\ UNCHANGED <<cloud, ledger, files, fsRow, instRow, sshHosts, ghosts>>
      BY <1>4 DEF SaveKeyRow, SaveSSHKey, At
    <2>2. keyRows' \in [Ops -> SUBSET KeyNames]
      BY <1>0, <1>00, <2>1 DEF FleetTypes, LaunchOK
    <2>3. /\ proc' \in [Ops -> Command] /\ ProcOK(o)'
          /\ \A p \in Ops \ {o} : proc'[p] = proc[p]
      BY <1>0, <1>00, <2>1, NextPhase DEF cloud
    <2> QED
      BY <1>0, <1>00, <2>1, <2>2, <2>3, CommandGoesOn DEF FleetTypes, cloud
  <1> QED
    BY <1>1, <1>2, <1>3, <1>4

LEMMA WaitOK ==
  ASSUME FleetInv, NEW o \in Ops, Proceeds,
         LambdaWait(o) \/ OrgoWait(o) \/ UpdateSSHConfig(o)
  PROVE  Preserved
  <1>0. FleetTypes /\ (commands \in 0 .. MaxCommands)' /\ AdminsFollow
        /\ UNCHANGED <<homes, commands, provider>> /\ proc[o] \in Command
    BY DEF FleetInv, AccessInv, AccessTypes, Proceeds, FleetTypes
  <1>00. /\ ~At(o, "idle") /\ proc[o].pc \in Launching /\ proc[o].name \in Names
         /\ proc[o].id \in Begun /\ inst[proc[o].id].owner = Owner(o)
    BY DEF LambdaWait, OrgoWait, UpdateSSHConfig, At, Launching, FleetInv, ProcOK,
       LaunchOK
  <1>1. CASE Fatal(o)
    BY <1>00, <1>1, CommandEnds
  <1>2. CASE (LambdaWait(o) \/ OrgoWait(o)) /\ ~Fatal(o)
    <2>1. /\ Goto(o, "config") \/ Goto(o, "owner")
          /\ UNCHANGED <<cloud, ledger, local, ghosts>>
      BY <1>2 DEF LambdaWait, OrgoWait
    <2>2. /\ proc' \in [Ops -> Command] /\ ProcOK(o)'
          /\ \A p \in Ops \ {o} : proc'[p] = proc[p]
      BY <1>0, <1>00, <2>1, NextPhase DEF cloud
    <2> QED
      BY <1>0, <1>00, <2>1, <2>2, CommandThinks
  <1>3. CASE UpdateSSHConfig(o)
    <2>1. /\ Goto(o, "owner")
          /\ sshHosts' = sshHosts
             \/ sshHosts' = [sshHosts EXCEPT ![o] = @ \cup {proc[o].name}]
          /\ UNCHANGED <<cloud, ledger, files, keyRows, fsRow, instRow, ghosts>>
      BY <1>3 DEF UpdateSSHConfig
    <2>2. sshHosts' \in [Ops -> SUBSET Names]
      <3>1. sshHosts \in [Ops -> SUBSET Names]
        BY <1>0 DEF FleetTypes
      <3>2. sshHosts[o] \cup {proc[o].name} \in SUBSET Names
        BY <1>00, <3>1
      <3>3. ASSUME sshHosts' = [sshHosts EXCEPT ![o] = @ \cup {proc[o].name}]
            PROVE  sshHosts' \in [Ops -> SUBSET Names]
        BY <3>1, <3>2, <3>3
      <3> QED
        BY <2>1, <3>1, <3>3
    <2>3. /\ proc' \in [Ops -> Command] /\ ProcOK(o)'
          /\ \A p \in Ops \ {o} : proc'[p] = proc[p]
      BY <1>0, <1>00, <2>1, NextPhase DEF cloud
    <2> QED
      BY <1>0, <1>00, <2>1, <2>2, <2>3, CommandGoesOn DEF FleetTypes, cloud
  <1> QED
    BY <1>1, <1>2, <1>3

\* The cloud gives an ID it has not given before.
LEMMA PostOK ==
  ASSUME FleetInv, NEW o \in Ops, Proceeds, proc[o].pc = "post",
         NEW next \in {"wait", "owner", "row"}, NEW status \in {"booting", "active"},
         NEW fs \in Filesystems \cup {None}, next = "row" => provider # "lambda",
         Post(o, next, status, fs)
  PROVE  Preserved
  <1>0. FleetTypes /\ (commands \in 0 .. MaxCommands)' /\ AdminsFollow
        /\ UNCHANGED <<homes, commands, provider>> /\ proc[o] \in Command
    BY DEF FleetInv, AccessInv, AccessTypes, Proceeds, FleetTypes
  <1>1. PICK i \in Fresh :
          /\ Create(o, i, status, fs)
          /\ \/ proc' = [proc EXCEPT ![o].pc = next, ![o].id = i]
             \/ Exit(o)
          /\ UNCHANGED <<ledger, local, ghosts>>
    BY DEF Post
  <1>2. i \in Ids /\ i \notin Begun
    BY DEF Fresh, Begun
  <1>3. proc[o].name \in Names /\ proc[o].region \in Regions
    BY DEF FleetInv, ProcOK, LaunchOK, Launching
  <1> DEFINE x == [status |-> status, name |-> proc[o].name, by |-> o,
                   owner |-> Owner(o), region |-> proc[o].region, fs |-> fs,
                   key |-> proc[o].key, killer |-> None]
  <1>4. Owner(o) \in Users \cup {None}
    <2>1. Now
      BY NowOK DEF FleetInv
    <2> QED
      BY <2>1 DEF Now, Owner, Me, Identities
  <1>5. x \in Instance /\ x.status = status /\ x.name = proc[o].name
        /\ x.owner = Owner(o)
    BY <1>0, <1>3, <1>4 DEF Instance, Command
  <1>6. inst' = [inst EXCEPT ![i] = x] /\ UNCHANGED <<cloudKeys, fss, rules>>
    BY <1>1 DEF Create
  <1> HIDE DEF x
  <1>7. /\ inst' \in [Ids -> Instance] /\ inst'[i] = x
        /\ \A j \in Ids \ {i} : inst'[j] = inst[j]
    BY <1>0, <1>2, <1>5, <1>6 DEF FleetTypes
  <1>8. Begun' = Begun \cup {i}
    BY <1>2, <1>5, <1>7 DEF Begun
  <1>9. \A j \in Begun : j \in Ids \ {i}
    BY <1>2 DEF Begun
  <1>10. Grows
    BY <1>0, <1>1, <1>2, <1>7, <1>9 DEF Grows, Live, Begun, ghosts, homes, AdminsFollow
  <1>11. /\ proc' \in [Ops -> Command] /\ ProcOK(o)'
         /\ \A p \in Ops \ {o} : proc'[p] = proc[p]
    <2>1. CASE Exit(o)
      BY <1>0, <2>1, ExitFacts
    <2>2. CASE proc' = [proc EXCEPT ![o].pc = next, ![o].id = i]
      <3> DEFINE c == [proc[o] EXCEPT !.pc = next, !.id = i]
      <3>1. proc' = [proc EXCEPT ![o] = c]
        BY <1>0, <2>2 DEF FleetTypes
      <3>2. /\ c \in Command /\ c.pc = next /\ c.id = i
            /\ c.name = proc[o].name /\ c.region = proc[o].region
        <4>1. next \in Phases
          BY DEF Phases
        <4> QED
          BY <1>0, <1>2, <4>1 DEF Command
      <3> HIDE DEF c
      <3>3. /\ proc' \in [Ops -> Command] /\ proc'[o] = c
            /\ \A p \in Ops \ {o} : proc'[p] = proc[p]
        BY <1>0, <3>1, <3>2, SetFacts
      <3>4. Owner(o)' = Owner(o)
        BY <1>0 DEF Owner, Me, Enabled, homes
      <3>5. LaunchOK(o)'
        BY <1>0, <1>3, <1>5, <1>7, <1>8, <3>2, <3>3, <3>4 DEF LaunchOK
      <3>6. ProcOK(o)'
        BY <3>2, <3>3, <3>5 DEF ProcOK, KillOK
      <3> QED
        BY <3>3, <3>6
    <2> QED
      BY <1>1, <2>1, <2>2
  <1>12. FleetTypes'
    BY <1>0, <1>1, <1>6, <1>7, <1>11 DEF FleetTypes, local, ghosts
  <1>13. Doing(o, "idle")
    BY DEF FleetInv, OneAtATime, At
  <1>14. CloudOK /\ ledger' = ledger /\ RolesStay /\ ledger' \subseteq Relationships
         /\ instRow' = instRow /\ reported' = reported /\ disowned' = disowned
    BY <1>1 DEF FleetInv, RolesStay, AccessInv, AccessTypes, local, ghosts
  <1>15. \A j \in Begun' : inst'[j].name \in Names
    BY <1>3, <1>5, <1>7, <1>8, <1>9, <1>14 DEF CloudOK
  <1>16. \A j \in Ids, u \in Users :
           <<j, "owner", u>> \in ledger' => j \in Begun' /\ inst'[j].owner = u
    BY <1>7, <1>8, <1>9, <1>14 DEF CloudOK
  <1>17. provider = "lambda" => \A j \in (reported \cap Live)' : Owned(j)'
    <2>1. \A j \in reported : j \in Ids \ {i}
      BY <1>9, <1>14 DEF CloudOK
    <2> QED
      BY <1>7, <1>14, <2>1 DEF CloudOK, Live, Owned
  <1>18. (\A p \in Ops : instRow'[p] \subseteq Begun') /\ reported' \subseteq Begun'
    BY <1>8, <1>14 DEF CloudOK
  <1> QED
    BY <1>0, <1>10, <1>11, <1>12, <1>13, <1>14, <1>15, <1>16, <1>17, <1>18, FleetKeeps

LEMMA LaunchRequestOK ==
  ASSUME FleetInv, NEW o \in Ops, Proceeds,
         LambdaLaunch(o) \/ OrgoLaunch(o) \/ ModalLaunch(o)
  PROVE  Preserved
  <1>1. proc[o].pc = "post" /\ ~At(o, "idle") /\ proc[o] \in Command
    BY DEF LambdaLaunch, OrgoLaunch, ModalLaunch, At, FleetInv, FleetTypes
  <1>2. CASE Fatal(o)
    BY <1>1, <1>2, CommandEnds
  <1>3. CASE LambdaLaunch(o) /\ ~Fatal(o)
    <2>1. proc[o].fs \in Filesystems \cup {None}
      BY <1>1 DEF Command
    <2> QED
      BY <1>1, <1>3, <2>1, PostOK DEF LambdaLaunch
  <1>4. CASE OrgoLaunch(o) /\ ~Fatal(o)
    BY <1>1, <1>4, PostOK DEF OrgoLaunch
  <1>5. CASE ModalLaunch(o) /\ ~Fatal(o)
    BY <1>1, <1>5, PostOK DEF ModalLaunch
  <1> QED
    BY <1>2, <1>3, <1>4, <1>5

LEMMA SaveInstanceOK ==
  ASSUME FleetInv, NEW o \in Ops, Proceeds, SaveInstance(o) PROVE Preserved
  <1>0. FleetTypes /\ (commands \in 0 .. MaxCommands)' /\ AdminsFollow
        /\ UNCHANGED <<homes, commands, provider>> /\ proc[o] \in Command
    BY DEF FleetInv, AccessInv, AccessTypes, Proceeds, FleetTypes
  <1>1. /\ ~At(o, "idle") /\ proc[o].pc \in Launching /\ provider # "lambda"
        /\ proc[o].id \in Begun /\ inst[proc[o].id].owner = Owner(o)
        /\ Doing(o, "idle")
    BY DEF SaveInstance, At, Launching, FleetInv, ProcOK, LaunchOK, OneAtATime
  <1>2. CASE Fatal(o)
    BY <1>1, <1>2, CommandEnds
  <1>3. CASE ~Fatal(o)
    <2>1. /\ Goto(o, "wait") \/ Goto(o, "owner")
          /\ UNCHANGED instRow \/ SaveRow(o)
          /\ UNCHANGED <<cloud, ledger, files, keyRows, fsRow, sshHosts, ghosts>>
      BY <1>3 DEF SaveInstance, local
    <2>2. /\ proc' \in [Ops -> Command] /\ ProcOK(o)'
          /\ \A p \in Ops \ {o} : proc'[p] = proc[p]
      BY <1>0, <1>1, <2>1, NextPhase DEF cloud
    <2>3. \A p \in Ops : instRow[p] \subseteq Begun /\ instRow[p] \subseteq Ids
      BY <1>0 DEF FleetInv, CloudOK, FleetTypes
    <2>4. instRow' \in [Ops -> SUBSET Ids] /\ \A p \in Ops : instRow'[p] \subseteq Begun
      <3>1. CASE UNCHANGED instRow
        BY <1>0, <2>3, <3>1 DEF FleetTypes
      <3>2. CASE instRow' = [instRow EXCEPT ![o] = @ \cup {proc[o].id}]
        <4>1. proc[o].id \in Ids
          BY <1>1 DEF Begun
        <4> QED
          BY <1>0, <1>1, <2>3, <3>2, <4>1 DEF FleetTypes
      <3> QED
        BY <2>1, <3>1, <3>2 DEF SaveRow
    <2>5. FleetTypes'
      BY <1>0, <2>1, <2>2, <2>4 DEF FleetTypes, cloud, ghosts
    <2> QED
      BY <1>0, <1>1, <2>1, <2>2, <2>4, <2>5, Stays DEF cloud
  <1> QED
    BY <1>2, <1>3

\* The relationships of a resource are no roles, and one of them is its owner's.
LEMMA TuplesFacts ==
  ASSUME NEW o \in Ops, identity[o] \in Identities(Users), NEW i \in Ids, Enabled(o)
  PROVE  /\ Tuples(o, i) \subseteq Relationships
         /\ \A x, u : \A r \in Roles : <<x, r, u>> \notin Tuples(o, i)
         /\ \A x, u : <<x, "owner", u>> \in Tuples(o, i) <=> x = i /\ u = Me(o)
  <1>1. Me(o) \in Users /\ identity[o].project \in Projects \cup {None}
    BY DEF Enabled, Me, Identities
  <1>2. \A t \in Tuples(o, i) :
          \/ t = <<i, "owner", Me(o)>> \/ t = <<i, "org", Org>>
          \/ \E p \in Projects : t = <<i, "project", p>>
    BY <1>1 DEF Tuples
  <1>3. <<i, "owner", Me(o)>> \in Tuples(o, i)
    BY DEF Tuples
  <1>4. Tuples(o, i) \subseteq Relationships
    BY <1>1, <1>2 DEF Relationships
  <1>5. \A x, u : \A r \in Roles : <<x, r, u>> \notin Tuples(o, i)
    BY <1>2 DEF Roles
  <1>6. ASSUME NEW x, NEW u, <<x, "owner", u>> \in Tuples(o, i)
        PROVE  x = i /\ u = Me(o)
    <2>1. <<x, "owner", u>> # <<i, "org", Org>>
      OBVIOUS
    <2>2. \A p : <<x, "owner", u>> # <<i, "project", p>>
      OBVIOUS
    <2> QED
      BY <1>2, <1>6, <2>1, <2>2
  <1> QED
    BY <1>3, <1>4, <1>5, <1>6

\* The owner is written, or not and then it is known that it was not.
LEMMA RecordOwnerOK ==
  ASSUME FleetInv, NEW o \in Ops, Proceeds, RecordOwner(o) PROVE Preserved
  <1>0. FleetTypes /\ (commands \in 0 .. MaxCommands)' /\ AdminsFollow /\ AccessInv
        /\ UNCHANGED <<homes, commands, provider>> /\ proc[o] \in Command
    BY DEF FleetInv, AccessInv, AccessTypes, Proceeds, FleetTypes
  <1> PICK i : i = proc[o].id
    OBVIOUS
  <1>1. /\ proc[o].pc = "owner" /\ ~At(o, "idle") /\ Doing(o, "idle")
        /\ i \in Begun /\ i \in Ids /\ inst[i].owner = Owner(o)
    BY DEF RecordOwner, At, FleetInv, ProcOK, LaunchOK, OneAtATime, Begun
  <1>2. Goto(o, "keyrow") /\ UNCHANGED <<cloud, local, reported>>
    BY DEF RecordOwner
  <1>3. PICK done : /\ Enabled(o) => done \subseteq Tuples(o, i)
                    /\ ~Enabled(o) => done = {}
                    /\ ledger' = ledger \cup done
                    /\ disowned' = IF Enabled(o) /\ done # Tuples(o, i)
                                    THEN disowned \cup {i} ELSE disowned
    <2>1. CASE Enabled(o)
      BY <2>1 DEF RecordOwner, WriteResourceOwnership
    <2>2. CASE ~Enabled(o)
      <3>1. ledger' = ledger \cup {} /\ disowned' = disowned
        BY <2>2 DEF RecordOwner, WriteResourceOwnership
      <3> QED
        BY <2>2, <3>1
    <2> QED
      BY <2>1, <2>2
  <1>4. /\ done \subseteq Relationships
        /\ \A x, u : \A r \in Roles : <<x, r, u>> \notin done
        /\ \A x, u : <<x, "owner", u>> \in done => x = i /\ u = inst[i].owner
    <2>1. identity[o] \in Identities(Users)
      BY <1>0, NowOK DEF Now, Identities
    <2>2. CASE Enabled(o)
      BY <1>1, <1>3, <2>1, <2>2, TuplesFacts DEF Owner
    <2>3. CASE ~Enabled(o)
      BY <1>3, <2>3
    <2> QED
      BY <2>2, <2>3
  <1>5. RolesStay /\ ledger' \subseteq Relationships
    BY <1>0, <1>3, <1>4 DEF RolesStay, AccessInv, AccessTypes
  <1>6. inst' = inst /\ Begun' = Begun /\ Owner(o)' = Owner(o) /\ instRow' = instRow
    BY <1>0, <1>2 DEF cloud, local, Begun, Owner, Me, Enabled, homes
  <1>7. Grows
    BY <1>0, <1>3, <1>6 DEF Grows, Begun, homes, AdminsFollow
  <1>8. /\ proc' \in [Ops -> Command] /\ proc'[o].pc = "keyrow" /\ proc'[o].id = i
        /\ \A p \in Ops \ {o} : proc'[p] = proc[p]
    BY <1>0, <1>2, GotoFacts DEF Phases
  <1>9. Owned(i)'
    <2>1. CASE ~Enabled(o)
      BY <1>1, <1>6, <2>1 DEF Owned, Owner
    <2>2. CASE Enabled(o) /\ done = Tuples(o, i)
      <3>1. <<i, "owner", Me(o)>> \in ledger'
        BY <1>3, <2>2 DEF Tuples
      <3> QED
        BY <1>1, <1>6, <2>2, <3>1 DEF Owned, Owner
    <2>3. CASE Enabled(o) /\ done # Tuples(o, i)
      BY <1>3, <2>3 DEF Owned
    <2> QED
      BY <2>1, <2>2, <2>3
  <1>10. ProcOK(o)'
    BY <1>1, <1>6, <1>8, <1>9 DEF ProcOK, LaunchOK, KillOK, Launching
  <1>11. FleetTypes'
    BY <1>0, <1>1, <1>2, <1>3, <1>8 DEF FleetTypes, cloud, local
  <1>12. /\ CloudOK /\ reported' = reported
         /\ \A j \in Begun : provider = "lambda" /\ j \in Live' /\ Owned(j) => Owned(j)'
    BY <1>2, <1>7, <1>11, GrowsFacts DEF FleetInv, FleetTypes
  <1>13. provider = "lambda" => \A j \in (reported \cap Live)' : Owned(j)'
    BY <1>6, <1>12 DEF CloudOK, Live
  <1>14. \A j \in Ids, u \in Users :
           <<j, "owner", u>> \in ledger' => j \in Begun' /\ inst'[j].owner = u
    BY <1>1, <1>3, <1>4, <1>6, <1>12 DEF CloudOK
  <1> QED
    BY <1>0, <1>1, <1>5, <1>6, <1>7, <1>8, <1>10, <1>11, <1>12, <1>13, <1>14,
       FleetKeeps DEF CloudOK

\* What has been reported is owned.
LEMMA LaunchDoneOK ==
  ASSUME FleetInv, NEW o \in Ops, Proceeds, LaunchDone(o) PROVE Preserved
  <1>0. FleetTypes /\ (commands \in 0 .. MaxCommands)' /\ AdminsFollow
        /\ UNCHANGED <<homes, commands, provider>> /\ proc[o] \in Command
    BY DEF FleetInv, AccessInv, AccessTypes, Proceeds, FleetTypes
  <1>1. /\ proc[o].pc = "keyrow" /\ Doing(o, "idle")
        /\ proc[o].id \in Begun /\ proc[o].id \in Ids
        /\ provider = "lambda" /\ proc[o].id \in Live => Owned(proc[o].id)
    BY DEF LaunchDone, At, FleetInv, ProcOK, LaunchOK, OneAtATime, Begun
  <1>2. /\ Exit(o) /\ reported' = reported \cup {proc[o].id}
        /\ UNCHANGED <<cloud, ledger, files, fsRow, instRow, sshHosts, disowned>>
        /\ \/ UNCHANGED keyRows
           \/ /\ proc[o].key # None
              /\ keyRows' = [keyRows EXCEPT ![o] = @ \cup {proc[o].key}]
    BY DEF LaunchDone, SaveSSHKey
  <1>3. /\ proc' \in [Ops -> Command] /\ ProcOK(o)'
        /\ \A p \in Ops \ {o} : proc'[p] = proc[p]
    BY <1>0, <1>2, ExitFacts
  <1>4. keyRows' \in [Ops -> SUBSET KeyNames]
    <2>1. keyRows \in [Ops -> SUBSET KeyNames] /\ proc[o].key \in KeyNames \cup {None}
      BY <1>0 DEF FleetTypes, Command
    <2>2. ASSUME proc[o].key # None,
                 keyRows' = [keyRows EXCEPT ![o] = @ \cup {proc[o].key}]
          PROVE  keyRows' \in [Ops -> SUBSET KeyNames]
      BY <2>1, <2>2
    <2> QED
      BY <1>2, <2>1, <2>2
  <1>5. FleetTypes'
    BY <1>0, <1>1, <1>2, <1>3, <1>4 DEF FleetTypes, cloud
  <1>6. Grows /\ RolesStay /\ ledger' \subseteq Relationships /\ Begun' = Begun
    BY <1>0, <1>2 DEF Grows, Begun, homes, AdminsFollow, RolesStay, FleetInv,
       AccessInv, AccessTypes, cloud
  <1>7. CloudOK
    BY DEF FleetInv
  <1>8. provider = "lambda" => \A j \in (reported \cap Live)' : Owned(j)'
    <2>1. inst' = inst /\ ledger' = ledger /\ disowned' = disowned
      BY <1>2 DEF cloud
    <2>2. provider = "lambda" =>
            \A j \in (reported \cup {proc[o].id}) \cap Live : Owned(j)
      BY <1>1, <1>7 DEF CloudOK
    <2> QED
      BY <1>2, <2>1, <2>2 DEF Live, Owned
  <1> QED
    BY <1>0, <1>1, <1>2, <1>3, <1>5, <1>6, <1>7, <1>8, FleetKeeps DEF CloudOK, cloud

\* What a kill looks up is named by its argument.
LEMMA ResolutionsOK ==
  ASSUME FleetInv, NEW o \in Ops, NEW a, NEW i \in Resolutions(o, a)
  PROVE  i \in Begun \cup {NoId} /\ (i \in Ids => a \in {i, inst[i].name})
  <1>1. /\ Live \subseteq Begun /\ instRow[o] \subseteq Begun
        /\ \A x \in Begun : x \in Ids
        /\ provider \in {"lambda", "orgo", "modal"}
    BY DEF Live, Begun, FleetInv, CloudOK
  <1>2. \A listing \in Listings : listing \subseteq Begun
    BY <1>1 DEF Listings, LambdaList, OrgoList, ModalList
  <1>3. CASE i \in GetInstance(o, a)
    <2>1. Known(a) = {a} \cap Begun
      BY DEF Known, Begun
    <2>2. GetInstance(o, a) \subseteq
            Known(a) \cup {NoId} \cup {x \in instRow[o] : inst[x].name = a}
      BY <1>1 DEF GetInstance, LambdaGet, OrgoGet, ModalGet, RowsNamed
    <2> QED
      BY <1>1, <1>3, <2>1, <2>2
  <1>4. CASE \E listing \in Listings :
               i \in {x \in listing : x = a \/ ListedName(o, x) = a}
    BY <1>2, <1>4 DEF ListedName
  <1> QED
    BY <1>3, <1>4 DEF Resolutions

\* A kill finds out more.
LEMMA KillGoesOn ==
  ASSUME FleetInv, NEW o \in Ops, Proceeds, ~At(o, "idle"),
         UNCHANGED <<cloud, ledger, local, ghosts>>,
         NEW c \in Command, proc' = [proc EXCEPT ![o] = c],
         c.pc \in {"resolve", "check", "kill"}, KillOK(o)'
  PROVE  Preserved
  <1>1. /\ proc' \in [Ops -> Command] /\ proc'[o] = c
        /\ \A p \in Ops \ {o} : proc'[p] = proc[p]
    BY SetFacts DEF FleetInv
  <1>2. ProcOK(o)'
    BY <1>1 DEF ProcOK, LaunchOK, Launching
  <1>3. (commands \in 0 .. MaxCommands)'
    BY DEF Proceeds, FleetInv, AccessInv, AccessTypes
  <1> QED
    BY <1>1, <1>2, <1>3, CommandThinks DEF Proceeds

LEMMA KillAllListOK ==
  ASSUME FleetInv, NEW o \in Ops, Proceeds, KillAllList(o) PROVE Preserved
  <1>1. /\ proc[o].pc = "list" /\ ~At(o, "idle") /\ FleetTypes /\ proc[o] \in Command
        /\ proc[o].ids = {}
    BY DEF KillAllList, At, FleetInv, FleetTypes, ProcOK, KillOK
  <1>2. CASE Fatal(o)
    BY <1>1, <1>2, CommandEnds
  <1>3. CASE ~Fatal(o)
    <2>1. PICK args :
            /\ \E listing \in Listings : args = {ListedName(o, i) : i \in listing}
            /\ proc' = [proc EXCEPT ![o].pc = "resolve", ![o].args = args,
                                    ![o].left = args]
            /\ UNCHANGED <<cloud, ledger, local, ghosts>>
      BY <1>3 DEF KillAllList
    <2>2. args \subseteq Names \cup Ids
      <3>1. \A listing \in Listings : listing \subseteq Live
        BY DEF Listings, LambdaList, OrgoList, ModalList, FleetInv
      <3>2. \A i \in Live : i \in Ids /\ inst[i].name \in Names
        BY DEF Live, Begun, FleetInv, CloudOK
      <3>3. \A i \in Live : ListedName(o, i) \in Names \cup Ids
        BY <3>2 DEF ListedName
      <3>4. PICK listing \in Listings : args = {ListedName(o, i) : i \in listing}
        BY <2>1
      <3>5. \A i \in listing : ListedName(o, i) \in Names \cup Ids
        BY <3>1, <3>3
      <3> QED
        BY <3>4, <3>5
    <2> DEFINE c == [proc[o] EXCEPT !.pc = "resolve", !.args = args, !.left = args]
    <2>3. proc' = [proc EXCEPT ![o] = c]
      BY <1>1, <2>1 DEF FleetTypes
    <2>4. /\ c \in Command /\ c.pc = "resolve" /\ c.args = args /\ c.left = args
          /\ c.ids = {}
      BY <1>1, <2>2 DEF Command, Phases
    <2> HIDE DEF c
    <2>5. KillOK(o)'
      BY <1>1, <2>3, <2>4, SetFacts DEF KillOK
    <2> QED
      BY <1>1, <2>1, <2>3, <2>4, <2>5, KillGoesOn
  <1> QED
    BY <1>2, <1>3

LEMMA ResolveOK ==
  ASSUME FleetInv, NEW o \in Ops, Proceeds, ResolveInstanceID(o) PROVE Preserved
  <1>1. /\ proc[o].pc = "resolve" /\ ~At(o, "idle") /\ FleetTypes
        /\ proc[o] \in Command /\ KillOK(o)
    BY DEF ResolveInstanceID, At, FleetInv, FleetTypes, ProcOK
  <1>2. CASE Fatal(o)
    BY <1>1, <1>2, CommandEnds
  <1>3. CASE ~Fatal(o)
    <2>1. PICK a, i, done :
            /\ a \in proc[o].left /\ done \in BOOLEAN
            /\ i \in Resolutions(o, a)
            /\ proc' = [proc EXCEPT ![o].ids = proc[o].ids \cup {i},
                          ![o].pc = IF done THEN "check" ELSE "resolve",
                          ![o].left = IF done THEN proc[o].ids \cup {i}
                                      ELSE proc[o].left \ {a}]
            /\ UNCHANGED <<cloud, ledger, local, ghosts>>
      BY <1>3 DEF ResolveInstanceID
    <2>2. a \in proc[o].args /\ i \in Begun \cup {NoId}
          /\ (i \in Ids => a \in {i, inst[i].name})
      BY <1>1, <2>1, ResolutionsOK DEF KillOK
    <2> DEFINE ids == proc[o].ids \cup {i}
               left == IF done THEN ids ELSE proc[o].left \ {a}
               pc == IF done THEN "check" ELSE "resolve"
               c == [proc[o] EXCEPT !.ids = ids, !.pc = pc, !.left = left]
    <2>3. proc' = [proc EXCEPT ![o] = c]
      <3>1. proc' = [proc EXCEPT ![o].ids = ids, ![o].pc = pc,
                                 ![o].left = left]
        BY <2>1
      <3> HIDE DEF ids, pc, left
      <3> QED
        BY <1>1, <3>1 DEF FleetTypes
    <2>4. /\ ids \subseteq Begun \cup {NoId}
          /\ \A j \in ids \cap Ids : {j, inst[j].name} \cap proc[o].args # {}
          /\ done => left = ids
          /\ ~done => left \subseteq proc[o].args
          /\ proc[o].args \subseteq Names \cup Ids
      BY <1>1, <2>2 DEF KillOK, Command
    <2>5. /\ c.pc = IF done THEN "check" ELSE "resolve"
          /\ c.ids = ids /\ c.left = left /\ c.args = proc[o].args
      BY <1>1 DEF Command
    <2>6. c \in Command
      <3>1. ids \subseteq Ids \cup {NoId} /\ left \subseteq Names \cup Ids \cup {NoId}
        BY <2>4 DEF Begun
      <3>2. pc \in Phases
        BY DEF Phases
      <3> HIDE DEF ids, left, pc
      <3> QED
        BY <1>1, <3>1, <3>2 DEF Command
    <2> HIDE DEF c, ids, left
    <2>7. proc'[o] = c /\ inst' = inst /\ Begun' = Begun
      BY <1>1, <2>1, <2>3, <2>6, SetFacts DEF cloud, Begun
    <2>8. KillOK(o)'
      BY <2>4, <2>5, <2>7 DEF KillOK
    <2> QED
      BY <1>1, <2>1, <2>3, <2>5, <2>6, <2>8, KillGoesOn
  <1> QED
    BY <1>2, <1>3

\* The permission to delete is its owner's and the administrators'.
LEMMA DeletersMayKill ==
  ASSUME FleetInv, NEW i \in Ids, NEW u \in Users, DeleteResourceOk(i, u)
  PROVE  MayKill(u, i)
  BY DEF FleetInv, CloudOK, DeleteResourceOk, DeleteProject, Related, MayKill

LEMMA CheckOK ==
  ASSUME FleetInv, NEW o \in Ops, Proceeds, CheckDelete(o) PROVE Preserved
  <1>1. /\ proc[o].pc = "check" /\ ~At(o, "idle") /\ FleetTypes
        /\ proc[o] \in Command /\ KillOK(o)
    BY DEF CheckDelete, At, FleetInv, FleetTypes, ProcOK
  <1>2. CASE Fatal(o)
    BY <1>1, <1>2, CommandEnds
  <1>3. CASE ~Fatal(o)
    <2>1. PICK i \in proc[o].left, done \in BOOLEAN :
            /\ done <=> proc[o].left = {i}
            /\ Check(o, DeleteResourceOk(i, Me(o)))
            /\ proc' = [proc EXCEPT
                 ![o].pc = IF done THEN "kill" ELSE "check",
                 ![o].left = IF done THEN proc[o].ids ELSE proc[o].left \ {i}]
            /\ UNCHANGED <<cloud, ledger, local, ghosts>>
      BY <1>3 DEF CheckDelete
    <2> DEFINE left == IF done THEN proc[o].ids ELSE proc[o].left \ {i}
               pc == IF done THEN "kill" ELSE "check"
               c == [proc[o] EXCEPT !.pc = pc, !.left = left]
    <2>2. proc' = [proc EXCEPT ![o] = c]
      <3>1. proc' = [proc EXCEPT ![o].pc = pc, ![o].left = left]
        BY <2>1
      <3> HIDE DEF pc, left
      <3> QED
        BY <1>1, <3>1 DEF FleetTypes
    <2>3. left \subseteq proc[o].ids
      BY <1>1 DEF KillOK
    <2>4. /\ c.pc = IF done THEN "kill" ELSE "check"
          /\ c.ids = proc[o].ids /\ c.left = left /\ c.args = proc[o].args
      BY <1>1 DEF Command
    <2>5. c \in Command
      <3>1. left \subseteq Names \cup Ids \cup {NoId}
        BY <1>1, <2>3 DEF Command
      <3>2. pc \in Phases
        BY DEF Phases
      <3> HIDE DEF left, pc
      <3> QED
        BY <1>1, <3>1, <3>2 DEF Command
    <2>6. Enabled(o) /\ i \in Ids => MayKill(Me(o), i)
      <3>1. Enabled(o) => Me(o) \in Users
        BY NowOK DEF FleetInv, Now, Enabled, Me, Identities
      <3> QED
        BY <2>1, <3>1, DeletersMayKill DEF Check
    <2>7. /\ done /\ Enabled(o) => \A j \in proc[o].ids \cap Ids : MayKill(Me(o), j)
          /\ ~done /\ Enabled(o) =>
               \A j \in (proc[o].ids \ left) \cap Ids : MayKill(Me(o), j)
      BY <1>1, <2>1, <2>6 DEF KillOK
    <2> HIDE DEF c, left
    <2>8. proc'[o] = c /\ inst' = inst /\ Begun' = Begun /\ Me(o)' = Me(o)
          /\ Enabled(o)' = Enabled(o) /\ admins \subseteq admins'
      BY <1>1, <2>1, <2>2, <2>5, SetFacts DEF cloud, Begun, Proceeds, homes, Me, Enabled,
         AdminsFollow
    <2>9. \A u, j : MayKill(u, j) => MayKill(u, j)'
      BY <2>8 DEF MayKill
    <2>10. KillOK(o)'
      BY <1>1, <2>3, <2>4, <2>7, <2>8, <2>9 DEF KillOK
    <2> QED
      BY <1>1, <2>1, <2>2, <2>4, <2>5, <2>10, KillGoesOn
  <1> QED
    BY <1>2, <1>3

\* The instances there are stay the same, some without their lives.
Survive ==
  /\ inst' \in [Ids -> Instance] /\ Live' \subseteq Live
  /\ \A i \in Ids : /\ inst'[i].name = inst[i].name /\ inst'[i].owner = inst[i].owner
                    /\ inst'[i].status = "none" <=> inst[i].status = "none"
                    /\ inst[i].status = "gone" => inst'[i].status = "gone"

LEMMA TerminateFacts ==
  ASSUME FleetTypes, NEW o \in Ops, NEW ids, Terminate(o, ids)
  PROVE  Survive /\ ids \cap Live' = {} /\ UNCHANGED <<cloudKeys, fss, rules>>
  <1>1. \A i \in Ids : /\ inst[i] \in Instance
                       /\ inst'[i] = IF i \in ids \cap Live
                          THEN [inst[i] EXCEPT !.status = "gone", !.killer = o]
                          ELSE inst[i]
    BY DEF FleetTypes, Terminate
  <1>2. \A x \in Instance :
          /\ [x EXCEPT !.status = "gone", !.killer = o] \in Instance
          /\ [x EXCEPT !.status = "gone", !.killer = o].status = "gone"
          /\ [x EXCEPT !.status = "gone", !.killer = o].name = x.name
          /\ [x EXCEPT !.status = "gone", !.killer = o].owner = x.owner
    BY DEF Instance
  <1>3. \A i \in Ids :
          /\ inst'[i] \in Instance
          /\ inst'[i].name = inst[i].name /\ inst'[i].owner = inst[i].owner
          /\ i \in ids \cap Live => inst'[i].status = "gone"
          /\ i \notin ids \cap Live => inst'[i].status = inst[i].status
    <2>1. SUFFICES ASSUME NEW i \in Ids
                   PROVE  /\ inst'[i] \in Instance
                          /\ inst'[i].name = inst[i].name
                          /\ inst'[i].owner = inst[i].owner
                          /\ i \in ids \cap Live => inst'[i].status = "gone"
                          /\ i \notin ids \cap Live => inst'[i].status = inst[i].status
      OBVIOUS
    <2>2. CASE i \in ids \cap Live
      <3> DEFINE y == [inst[i] EXCEPT !.status = "gone", !.killer = o]
      <3>1. inst'[i] = y
        BY <1>1, <2>2
      <3>2. /\ y \in Instance /\ y.status = "gone" /\ y.name = inst[i].name
            /\ y.owner = inst[i].owner
        BY <1>1, <1>2
      <3> HIDE DEF y
      <3> QED
        BY <2>2, <3>1, <3>2
    <2>3. CASE i \notin ids \cap Live
      BY <1>1, <2>3
    <2> QED
      BY <2>2, <2>3
  <1>4. inst' \in [Ids -> Instance] /\ UNCHANGED <<cloudKeys, fss, rules>>
    BY <1>3 DEF Terminate
  <1> QED
    BY <1>3, <1>4 DEF Survive, Live

LEMMA SurviveFacts ==
  ASSUME FleetInv, Survive, UNCHANGED <<homes, provider, ledger>>,
         disowned \subseteq disowned', AdminsFollow
  PROVE  /\ Grows /\ Begun' = Begun /\ RolesStay /\ ledger' \subseteq Relationships
         /\ \A i \in Begun' : inst'[i].name \in Names
         /\ \A i \in Ids, u \in Users :
              <<i, "owner", u>> \in ledger' => i \in Begun' /\ inst'[i].owner = u
         /\ provider = "lambda" => \A i \in reported \cap Live' : Owned(i)'
  <1>1. CloudOK /\ ledger \subseteq Relationships /\ ledger' = ledger
    BY DEF FleetInv, AccessInv, AccessTypes
  <1>2. Begun' = Begun /\ Begun \subseteq Ids
    BY DEF Survive, Begun
  <1>3. Grows
    BY <1>2 DEF Grows, Survive, AdminsFollow, homes, Begun, Live
  <1>4. provider = "lambda" => \A i \in reported \cap Live' : Owned(i)'
    BY <1>1 DEF CloudOK, Survive, Owned, Live
  <1> QED
    BY <1>1, <1>2, <1>3, <1>4 DEF CloudOK, Survive, RolesStay

\* A step of a kill, its loop or its end.
KillMoves(o) ==
  \/ ToUnledger(o) \/ Exit(o)
  \/ \E i : proc' = [proc EXCEPT ![o].left = @ \ {i}]

LEMMA KillMovesFacts ==
  ASSUME FleetInv, NEW o \in Ops, UNCHANGED <<homes, provider>>, AdminsFollow, Survive,
         proc[o].pc \in {"kill", "unledger"}, KillMoves(o),
         disowned \subseteq disowned',
         provider = "lambda" =>
           \/ /\ proc[o].pc = "kill"
              /\ ToUnledger(o) => proc[o].ids \cap Live' \subseteq disowned'
           \/ proc[o].pc = "unledger" /\ ~ToUnledger(o)
  PROVE  /\ proc' \in [Ops -> Command] /\ ProcOK(o)'
         /\ \A p \in Ops \ {o} : proc'[p] = proc[p]
  <1>0. FleetTypes /\ proc[o] \in Command /\ KillOK(o)
    BY DEF FleetInv, FleetTypes, ProcOK
  <1>1. CASE Exit(o)
    BY <1>0, <1>1, ExitFacts
  <1>2. ASSUME NEW c \in Command, proc' = [proc EXCEPT ![o] = c],
               c.ids = proc[o].ids, c.args = proc[o].args, c.left \subseteq c.ids,
               c.pc = proc[o].pc \/ c.pc = "unledger",
               c.pc = "unledger" /\ provider = "lambda" =>
                 c.left \cap Live' \subseteq disowned'
        PROVE  /\ proc' \in [Ops -> Command] /\ ProcOK(o)'
               /\ \A p \in Ops \ {o} : proc'[p] = proc[p]
    <2>1. /\ proc' \in [Ops -> Command] /\ proc'[o] = c
          /\ \A p \in Ops \ {o} : proc'[p] = proc[p]
      BY <1>0, <1>2, SetFacts
    <2>2. Begun' = Begun /\ Me(o)' = Me(o) /\ Enabled(o)' = Enabled(o)
      BY DEF Survive, Begun, Me, Enabled, homes
    <2>3. \A u : \A i \in Ids : MayKill(u, i) => MayKill(u, i)'
      BY DEF MayKill, Survive, AdminsFollow
    <2>4. /\ c.pc \in {"kill", "unledger"} /\ c.ids \subseteq Begun' \cup {NoId}
          /\ \A i \in c.ids \cap Ids : {i, inst'[i].name} \cap c.args # {}
      BY <1>0, <1>2, <2>2 DEF KillOK, Survive
    <2>5. c.pc = "kill" /\ Enabled(o) => \A i \in c.ids \cap Ids : MayKill(Me(o), i)'
      BY <1>0, <1>2, <2>2, <2>3 DEF KillOK
    <2>6. KillOK(o)'
      BY <1>2, <2>1, <2>2, <2>4, <2>5 DEF KillOK
    <2>7. LaunchOK(o)'
      BY <2>1, <2>4 DEF LaunchOK, Launching
    <2> QED
      BY <2>1, <2>4, <2>6, <2>7 DEF ProcOK
  <1>3. CASE ToUnledger(o)
    <2> DEFINE c == [proc[o] EXCEPT !.pc = "unledger", !.left = proc[o].ids]
    <2>1. proc' = [proc EXCEPT ![o] = c]
      BY <1>0, <1>3 DEF ToUnledger, FleetTypes
    <2>2. /\ c \in Command /\ c.ids = proc[o].ids /\ c.args = proc[o].args
          /\ c.left = c.ids /\ c.pc = "unledger"
      BY <1>0 DEF Command, Phases
    <2> HIDE DEF c
    <2> QED
      BY <1>2, <1>3, <2>1, <2>2
  <1>4. ASSUME NEW i, proc' = [proc EXCEPT ![o].left = @ \ {i}], ~ToUnledger(o)
        PROVE  /\ proc' \in [Ops -> Command] /\ ProcOK(o)'
               /\ \A p \in Ops \ {o} : proc'[p] = proc[p]
    <2> DEFINE c == [proc[o] EXCEPT !.left = proc[o].left \ {i}]
    <2>1. proc' = [proc EXCEPT ![o] = c]
      BY <1>0, <1>4 DEF FleetTypes
    <2>2. /\ c \in Command /\ c.ids = proc[o].ids /\ c.args = proc[o].args
          /\ c.left = proc[o].left \ {i} /\ c.pc = proc[o].pc
      BY <1>0 DEF Command, Phases
    <2>3. /\ proc[o].left \subseteq proc[o].ids
          /\ proc[o].pc = "unledger" /\ provider = "lambda" =>
               proc[o].left \cap Live' \subseteq disowned'
      BY <1>0 DEF KillOK, Survive
    <2> HIDE DEF c
    <2>4. /\ c.left \subseteq c.ids
          /\ c.pc = "unledger" /\ provider = "lambda" =>
               c.left \cap Live' \subseteq disowned'
      BY <2>2, <2>3
    <2> QED
      BY <1>2, <2>1, <2>2, <2>4
  <1> QED
    BY <1>1, <1>3, <1>4 DEF KillMoves

\* What a kill ends, and the row it may take from its own database.
LEMMA EndingOK ==
  ASSUME FleetInv, NEW o \in Ops, Proceeds, proc[o].pc = "kill", KillMoves(o),
         \/ provider # "lambda" /\ UNCHANGED cloud
         \/ \E ids : Terminate(o, ids),
         disowned \subseteq disowned' /\ disowned' \subseteq Ids,
         provider = "lambda" /\ ToUnledger(o) =>
           proc[o].ids \cap Live' \subseteq disowned',
         UNCHANGED <<ledger, files, keyRows, fsRow, sshHosts, reported>>,
         UNCHANGED instRow \/ \E i : instRow' = [instRow EXCEPT ![o] = @ \ {i}]
  PROVE  Preserved
  <1>0. FleetTypes /\ (commands \in 0 .. MaxCommands)' /\ AdminsFollow
        /\ UNCHANGED <<homes, provider>>
    BY DEF FleetInv, AccessInv, AccessTypes, Proceeds
  <1>1. Survive /\ UNCHANGED <<cloudKeys, fss, rules>>
    <2>1. CASE provider # "lambda" /\ UNCHANGED cloud
      BY <1>0, <2>1 DEF cloud, Survive, FleetTypes, Live
    <2>2. ASSUME NEW ids, Terminate(o, ids)
          PROVE  Survive /\ UNCHANGED <<cloudKeys, fss, rules>>
      BY <1>0, <2>2, TerminateFacts
    <2> QED
      BY <2>1, <2>2
  <1>2. /\ proc' \in [Ops -> Command] /\ ProcOK(o)'
        /\ \A p \in Ops \ {o} : proc'[p] = proc[p]
    BY <1>0, <1>1, KillMovesFacts
  <1>3. instRow' \in [Ops -> SUBSET Ids] /\ \A p \in Ops : instRow'[p] \subseteq instRow[p]
    <2>1. instRow \in [Ops -> SUBSET Ids]
      BY <1>0 DEF FleetTypes
    <2>2. ASSUME NEW i, instRow' = [instRow EXCEPT ![o] = @ \ {i}]
          PROVE  /\ instRow' \in [Ops -> SUBSET Ids]
                 /\ \A p \in Ops : instRow'[p] \subseteq instRow[p]
      BY <2>1, <2>2
    <2> QED
      BY <2>1, <2>2
  <1>4. FleetTypes' /\ reported' = reported
    BY <1>0, <1>1, <1>2, <1>3 DEF FleetTypes, Survive
  <1>5. Doing(o, "idle") /\ CloudOK
    BY DEF FleetInv, OneAtATime, At
  <1>6. /\ Grows /\ Begun' = Begun /\ RolesStay /\ ledger' \subseteq Relationships
        /\ \A i \in Begun' : inst'[i].name \in Names
        /\ \A i \in Ids, u \in Users :
             <<i, "owner", u>> \in ledger' => i \in Begun' /\ inst'[i].owner = u
        /\ provider = "lambda" => \A i \in reported \cap Live' : Owned(i)'
    BY <1>0, <1>1, <1>4, SurviveFacts
  <1>7. (\A p \in Ops : instRow'[p] \subseteq Begun') /\ reported' \subseteq Begun'
        /\ (reported \cap Live)' = reported \cap Live'
    BY <1>3, <1>4, <1>5, <1>6 DEF CloudOK
  <1> QED
    BY <1>0, <1>2, <1>4, <1>5, <1>6, <1>7, FleetKeeps

LEMMA TerminateOK ==
  ASSUME FleetInv, NEW o \in Ops, Proceeds,
         LambdaTerminate(o) \/ OrgoTerminate(o) \/ ModalTerminate(o)
  PROVE  Preserved
  <1>1. proc[o].pc = "kill" /\ ~At(o, "idle")
    BY DEF LambdaTerminate, OrgoTerminate, ModalTerminate, At
  <1>2. CASE Fatal(o)
    BY <1>1, <1>2, CommandEnds
  <1>3. CASE LambdaTerminate(o) /\ ~Fatal(o)
    <2> DEFINE running == proc[o].ids \cap Live
    <2>1. PICK ended \in SUBSET running :
            /\ Terminate(o, ended)
            /\ \/ ToUnledger(o) /\ disowned' = disowned \cup (running \ ended)
               \/ Exit(o) /\ UNCHANGED disowned
            /\ UNCHANGED <<ledger, local, reported>>
      BY <1>3 DEF LambdaTerminate
    <2>2. /\ Survive /\ ended \cap Live' = {} /\ FleetTypes
          /\ Live' \subseteq Live /\ Live \subseteq Ids
      <3>1. FleetTypes /\ Survive /\ ended \cap Live' = {}
        BY <2>1, TerminateFacts DEF FleetInv
      <3> QED
        BY <3>1 DEF Survive, Live, FleetTypes, Instance
    <2>3. /\ disowned \subseteq disowned' /\ disowned' \subseteq Ids
          /\ ToUnledger(o) /\ ~Exit(o) => proc[o].ids \cap Live' \subseteq disowned'
      BY <2>1, <2>2 DEF FleetTypes
    <2>4. Exit(o) => ~ToUnledger(o)
      <3>1. proc \in [Ops -> Command] /\ proc[o] \in Command
        BY <2>2 DEF FleetTypes
      <3>2. Exit(o) => proc'[o].pc = "idle"
        BY <3>1 DEF Exit, Idle
      <3>3. ToUnledger(o) => proc'[o].pc = "unledger"
        BY <3>1 DEF ToUnledger, Command
      <3> QED
        BY <3>2, <3>3
    <2>5. /\ KillMoves(o) /\ UNCHANGED <<ledger, files, keyRows, fsRow, sshHosts, reported>>
          /\ UNCHANGED instRow
      BY <2>1 DEF KillMoves, local
    <2> QED
      BY <1>1, <2>1, <2>3, <2>4, <2>5, EndingOK
  <1>4. CASE OrgoTerminate(o) /\ ~Fatal(o)
    <2>1. PICK i : /\ Continue(o, i)
                   /\ Terminate(o, {i}) \/ UNCHANGED cloud
                   /\ UNCHANGED <<ledger, local, ghosts>>
      BY <1>4 DEF OrgoTerminate
    <2>2. KillMoves(o)
      BY <2>1 DEF Continue, KillMoves
    <2>3. provider # "lambda"
      BY <1>4 DEF OrgoTerminate
    <2>4. disowned' = disowned /\ reported' = reported /\ disowned \subseteq Ids
      BY <2>1 DEF ghosts, FleetInv, FleetTypes
    <2> QED
      BY <1>1, <2>1, <2>2, <2>3, <2>4, EndingOK DEF local
  <1>5. CASE ModalTerminate(o)
    <2>1. PICK i : /\ Continue(o, i)
                   /\ \/ UNCHANGED <<cloud, instRow>>
                      \/ /\ Terminate(o, {i})
                         /\ \/ instRow' = [instRow EXCEPT ![o] = @ \ {i}]
                            \/ UNCHANGED instRow
      BY <1>5 DEF ModalTerminate
    <2>2. KillMoves(o)
      BY <2>1 DEF Continue, KillMoves
    <2>3. /\ provider # "lambda"
          /\ UNCHANGED <<ledger, files, keyRows, fsRow, sshHosts, ghosts>>
      BY <1>5 DEF ModalTerminate
    <2>4. disowned' = disowned /\ reported' = reported /\ disowned \subseteq Ids
      BY <2>3 DEF ghosts, FleetInv, FleetTypes
    <2> QED
      BY <1>1, <2>1, <2>2, <2>3, <2>4, EndingOK
  <1> QED
    BY <1>2, <1>3, <1>4, <1>5

\* The relationships of what was killed go.
LEMMA KillDoneOK ==
  ASSUME FleetInv, NEW o \in Ops, Proceeds, KillDone(o) PROVE Preserved
  <1>0. FleetTypes /\ (commands \in 0 .. MaxCommands)' /\ AdminsFollow
        /\ UNCHANGED <<homes, provider>>
    BY DEF FleetInv, AccessInv, AccessTypes, Proceeds
  <1>1. /\ proc[o].pc = "unledger" /\ UNCHANGED <<cloud, local, ghosts>>
        /\ Doing(o, "idle") /\ KillOK(o)
    BY DEF KillDone, At, FleetInv, OneAtATime, ProcOK
  <1>2. PICK i \in proc[o].left :
          /\ DeleteResource(o, i)
          /\ Exit(o) \/ proc' = [proc EXCEPT ![o].left = @ \ {i}]
    BY DEF KillDone
  <1>3. ledger' \subseteq ledger
        /\ \A j, u : j # i /\ <<j, "owner", u>> \in ledger => <<j, "owner", u>> \in ledger'
    BY <1>2 DEF DeleteResource, Tuples
  <1>4. UNCHANGED <<inst, cloudKeys, fss, rules, files, keyRows, fsRow, instRow,
                    sshHosts, reported, disowned, endpoint>>
    BY <1>0, <1>1 DEF cloud, local, ghosts, homes
  <1>5. provider = "lambda" => i \notin Live \/ i \in disowned
    BY <1>1, <1>2 DEF KillOK
  <1>6. Survive /\ Begun' = Begun /\ Live' = Live
    BY <1>0, <1>4 DEF Survive, FleetTypes, Begun, Live
  <1>7. Grows
    BY <1>0, <1>3, <1>4, <1>5, <1>6 DEF Grows, AdminsFollow, Begun
  <1>8. ~ToUnledger(o) \/ provider # "lambda" \/ Exit(o)
    <2>1. proc[o] \in Command /\ proc \in [Ops -> Command]
      BY <1>0 DEF FleetTypes
    <2>2. ASSUME proc' = [proc EXCEPT ![o].left = @ \ {i}], ToUnledger(o) PROVE FALSE
      <3>1. proc'[o].left = proc[o].left \ {i}
        BY <2>1, <2>2 DEF Command
      <3>2. proc'[o].left = proc[o].ids
        BY <2>1, <2>2 DEF Command, ToUnledger
      <3>3. proc[o].left \subseteq proc[o].ids
        BY <1>1 DEF KillOK
      <3> QED
        BY <1>2, <3>1, <3>2, <3>3
    <2> QED
      BY <1>2, <2>2
  <1>9. /\ proc' \in [Ops -> Command] /\ ProcOK(o)'
        /\ \A p \in Ops \ {o} : proc'[p] = proc[p]
    <2>1. CASE Exit(o)
      BY <1>0, <2>1, ExitFacts
    <2>2. CASE ~Exit(o)
      <3>1. ~ToUnledger(o) \/ provider # "lambda"
        BY <1>8, <2>2
      <3>2. KillMoves(o)
        BY <1>2, <2>2 DEF KillMoves
      <3> QED
        BY <1>0, <1>1, <1>4, <1>6, <3>1, <3>2, KillMovesFacts
    <2> QED
      BY <2>1, <2>2
  <1>10. FleetTypes' /\ CloudOK /\ ledger' \subseteq Relationships /\ RolesStay
    BY <1>0, <1>3, <1>4, <1>9 DEF FleetTypes, FleetInv, AccessInv, AccessTypes, RolesStay
  <1>11. provider = "lambda" => \A j \in (reported \cap Live)' : Owned(j)'
    <2>1. FleetTypes' /\ \A j \in Begun : j \in Live' => j \in Live
      BY <1>6, <1>10
    <2>2. \A j \in Begun : provider = "lambda" /\ j \in Live' /\ Owned(j) => Owned(j)'
      BY <1>7, <2>1, GrowsFacts DEF FleetTypes
    <2> QED
      BY <1>4, <1>6, <1>10, <2>2 DEF CloudOK
  <1> QED
    BY <1>0, <1>1, <1>3, <1>4, <1>6, <1>7, <1>9, <1>10, <1>11, FleetKeeps DEF CloudOK

LEMMA FirewallOK ==
  ASSUME FleetInv, NEW o \in Ops, Proceeds, EnsurePortOpen(o) \/ UpdateRules(o)
  PROVE  Preserved
  <1>0. FleetTypes /\ (commands \in 0 .. MaxCommands)' /\ AdminsFollow
        /\ UNCHANGED <<homes, commands, provider>> /\ proc[o] \in Command
    BY DEF FleetInv, AccessInv, AccessTypes, Proceeds, FleetTypes
  <1>1. ~At(o, "idle")
    BY DEF EnsurePortOpen, UpdateRules, At
  <1>2. CASE Fatal(o)
    BY <1>1, <1>2, CommandEnds
  <1>3. CASE EnsurePortOpen(o) /\ ~Fatal(o)
    <2>1. /\ proc' = [proc EXCEPT ![o].pc = "patch", ![o].read = rules,
                                  ![o].send = rules \cup {proc[o].port}]
          /\ UNCHANGED <<cloud, ledger, local, ghosts>> /\ proc[o].port \in Ports
      BY <1>3 DEF EnsurePortOpen, At, FleetInv, ProcOK
    <2> DEFINE send == rules \cup {proc[o].port}
               c == [proc[o] EXCEPT !.pc = "patch", !.read = rules, !.send = send]
    <2>2. proc' = [proc EXCEPT ![o] = c]
      BY <1>0, <2>1 DEF FleetTypes
    <2>3. /\ c \in Command /\ c.pc = "patch" /\ c.read = rules
          /\ c.send = send
      <3>1. rules \in SUBSET Ports /\ send \in SUBSET Ports
        BY <1>0, <2>1 DEF FleetTypes
      <3> HIDE DEF send
      <3> QED
        BY <1>0, <3>1 DEF Command, Phases
    <2> HIDE DEF c
    <2>4. /\ proc' \in [Ops -> Command] /\ proc'[o] = c
          /\ \A p \in Ops \ {o} : proc'[p] = proc[p]
      BY <1>0, <2>2, <2>3, SetFacts
    <2>5. ProcOK(o)'
      BY <2>3, <2>4 DEF ProcOK, LaunchOK, KillOK, Launching
    <2> QED
      BY <1>0, <1>1, <2>1, <2>4, <2>5, CommandThinks
  <1>4. CASE UpdateRules(o)
    <2>1. /\ rules' = proc[o].send \/ UNCHANGED rules
          /\ UNCHANGED <<inst, cloudKeys, fss, ledger, local, ghosts>> /\ Exit(o)
      BY <1>4 DEF UpdateRules
    <2>2. rules' \subseteq Ports
      BY <1>0, <2>1 DEF FleetTypes, Command
    <2>3. /\ proc' \in [Ops -> Command] /\ ProcOK(o)'
          /\ \A p \in Ops \ {o} : proc'[p] = proc[p]
      BY <1>0, <2>1, ExitFacts
    <2> QED
      BY <1>0, <1>1, <2>1, <2>2, <2>3, CommandGoesOn DEF FleetTypes, local
  <1> QED
    BY <1>2, <1>3, <1>4

LEMMA CloudStepOK ==
  ASSUME FleetInv, NEW i \in Ids, InstanceChanges(i), AdminsFollow
  PROVE  Preserved
  <1>1. /\ inst[i].status \in {"booting", "active"}
        /\ UNCHANGED <<access, commands, provider, proc, cloudKeys, fss, rules, local,
                       ghosts>>
    BY DEF InstanceChanges
  <1>2. PICK status \in {"active", "gone"} : inst' = [inst EXCEPT ![i].status = status]
    BY DEF InstanceChanges
  <1>3. FleetTypes /\ (commands \in 0 .. MaxCommands)' /\ CloudOK
        /\ UNCHANGED <<homes, provider, ledger, reported, disowned, instRow, proc>>
    BY <1>1 DEF FleetInv, AccessInv, AccessTypes, access, homes, local, ghosts
  <1> DEFINE x == [inst[i] EXCEPT !.status = status]
  <1>4. inst' = [inst EXCEPT ![i] = x]
    BY <1>2, <1>3 DEF FleetTypes
  <1>5. /\ x \in Instance /\ x.status = status /\ x.name = inst[i].name
        /\ x.owner = inst[i].owner
    <2>1. inst[i] \in Instance
      BY <1>3 DEF FleetTypes
    <2>2. status \in {"none", "booting", "active", "gone"}
      OBVIOUS
    <2> QED
      BY <2>1, <2>2 DEF Instance
  <1> HIDE DEF x
  <1>6. /\ inst' \in [Ids -> Instance] /\ inst'[i] = x
        /\ \A j \in Ids \ {i} : inst'[j] = inst[j]
    BY <1>3, <1>4, <1>5 DEF FleetTypes
  <1>7. Survive
    BY <1>1, <1>5, <1>6 DEF Survive, Live
  <1>8. /\ Grows /\ Begun' = Begun /\ RolesStay /\ ledger' \subseteq Relationships
        /\ \A j \in Begun' : inst'[j].name \in Names
        /\ \A j \in Ids, u \in Users :
             <<j, "owner", u>> \in ledger' => j \in Begun' /\ inst'[j].owner = u
        /\ provider = "lambda" => \A j \in reported \cap Live' : Owned(j)'
    BY <1>3, <1>7, SurviveFacts
  <1>9. FleetTypes'
    BY <1>1, <1>3, <1>6 DEF FleetTypes, local, ghosts
  <1> QED
    BY <1>3, <1>8, <1>9, FleetKeeps DEF CloudOK

-----------------------------------------------------------------------------
(* Administration beside the fleet *)

\* A command of Access leaves the identities of others, and their idleness.
LEMMA AdminOthers ==
  ASSUME AccessInv, NEW o \in Ops, AdminStart(o) \/ AdminStep(o),
         NEW p \in Ops \ {o}
  PROVE  /\ endpoint' = endpoint /\ identity'[p] = identity[p]
         /\ Doing(p, "idle") => Doing(p, "idle")'
  <1>0. Now
    BY NowOK
  <1>1. identity \in [Ops -> Identities(minted)] /\ adm \in [Ops -> AdminCommand]
    BY <1>0 DEF Now
  <1>3. UNCHANGED adm => (Doing(p, "idle") => Doing(p, "idle")')
    BY DEF Doing
  <1>4. \A pc : Turn(o, pc) => (Doing(p, "idle") => Doing(p, "idle")')
    BY <1>1 DEF Doing, Turn
  <1>5. Leave(o) => (Doing(p, "idle") => Doing(p, "idle")')
    BY <1>1 DEF Doing, Leave
  <1>6. CASE Join(o)
    <2>1. PICK q \in Ops \ {o} :
            /\ Doing(q, "offered")
            /\ adm' = [adm EXCEPT ![q].pc = "taken", ![o].pc = "joining",
                                  ![o].who = adm[q].who]
      BY <1>6 DEF Join
    <2>2. UNCHANGED <<endpoint, identity>>
      BY <1>6 DEF Join
    <2>3. Doing(p, "idle") => p # q
      BY <2>1 DEF Doing
    <2>4. p # q => adm'[p] = adm[p]
      BY <1>1, <2>1
    <2> QED
      BY <2>2, <2>3, <2>4 DEF Doing
  <1>7. CASE \E n \in Nicks, a \in RoleArgs : Invite(o, n, a.role)
    BY <1>1, <1>7 DEF Invite, Doing
  <1>8. CASE \E a \in RoleArgs : OrgSetRole(o, a) \/ ProjectSetRole(o, a)
    BY <1>1, <1>8 DEF OrgSetRole, ProjectSetRole, StartSetRole, Doing, Files
  <1>9. CASE \E x \in Projects : ProjectAssign(o, x)
    BY <1>1, <1>9 DEF ProjectAssign, Doing, Files
  <1>10. CASE DeleteRoles(o)
    BY <1>1, <1>10 DEF DeleteRoles, Doing, Files
  <1>11. CASE \/ \E a \in RoleArgs : \/ OrgAddUser(o, a) \/ OrgRemoveUser(o, a)
                                     \/ ProjectAddUser(o, a) \/ ProjectRemoveUser(o, a)
              \/ \E x \in Projects : ProjectCreate(o, x)
    BY <1>3, <1>11 DEF OrgAddUser, OrgRemoveUser, ProjectAddUser, ProjectRemoveUser,
       ProjectCreate, Files
  <1>12. CASE \/ \E x \in Projects : ProjectUse(o, x)
              \/ ProjectClear(o)
    BY <1>1, <1>3, <1>12 DEF ProjectUse, ProjectClear, SaveIdentity
  <1>13. CASE OrgCreate(o) \/ CreateOrg(o) \/ GrantRole(o)
    BY <1>4, <1>5, <1>13 DEF OrgCreate, CreateOrg, GrantRole, WriteOrFatal, Files
  <1>14. CASE GenerateIdentity(o) \/ SaveOrg(o) \/ JoinSaves(o)
    BY <1>1, <1>4, <1>5, <1>14 DEF GenerateIdentity, SaveOrg, JoinSaves, SaveIdentity
  <1>15. CASE \/ InviteEnds(o) \/ SetContact(o) \/ WriteRole(o) \/ AssignResource(o)
              \/ AdminInterrupt(o)
    BY <1>5, <1>15 DEF InviteEnds, SetContact, WriteRole, AssignResource,
       AdminInterrupt, Files
  <1> QED
    BY <1>6, <1>7, <1>8, <1>9, <1>10, <1>11, <1>12, <1>13, <1>14, <1>15
       DEF AdminStart, AdminStep, GiveOrgRole

LEMMA AdministerOK ==
  ASSUME FleetInv, NEW o \in Ops, Administer(o), AdminsFollow
  PROVE  FleetInv' /\ (TransferInv => TransferInv')
  <1>1. /\ AdminStart(o) \/ AdminStep(o)
        /\ UNCHANGED fleet /\ At(o, "idle")
    <2>1. AdminStep(o) => ~Doing(o, "idle")
      BY DEF AdminStep, GenerateIdentity, CreateOrg, SaveOrg, InviteEnds, GrantRole,
         SetContact, JoinSaves, DeleteRoles, WriteRole, AssignResource,
         AdminInterrupt, Doing
    <2> QED
      BY <2>1 DEF Administer, FleetInv, OneAtATime
  <1>2. UNCHANGED <<provider, proc, inst, cloudKeys, fss, rules, files, keyRows, fsRow,
                    instRow, sshHosts, reported, disowned>>
    BY <1>1 DEF fleet, cloud, local, ghosts
  <1>3. AccessInv' /\ (TransferInv => TransferInv')
    BY <1>1, AdminStepOK, AdminTransfer DEF FleetInv
  <1>4. \A x, u : <<x, "owner", u>> \in ledger' <=> <<x, "owner", u>> \in ledger
    <2>1. \A t \in AdminTuples : \A x, u : t # <<x, "owner", u>>
      BY DEF AdminTuples, RoleTuples, Roles
    <2>2. \/ UNCHANGED ledger
          \/ \E t \in AdminTuples : ledger' = ledger \ {t}
          \/ \E t \in AdminTuples : ledger' = ledger \cup {t}
      BY <1>1, AdminLedger DEF FleetInv
    <2>3. ASSUME NEW t \in AdminTuples, ledger' = ledger \ {t} \/ ledger' = ledger \cup {t},
                 NEW x, NEW u
          PROVE  <<x, "owner", u>> \in ledger' <=> <<x, "owner", u>> \in ledger
      BY <2>1, <2>3
    <2> QED
      BY <2>2, <2>3
  <1>5. /\ endpoint' = endpoint
        /\ \A p \in Ops \ {o} : /\ identity'[p] = identity[p]
                                /\ Doing(p, "idle") => Doing(p, "idle")'
    <2>1. endpoint' = endpoint
      BY <1>1 DEF AdminStart, AdminStep, GiveOrgRole, OrgCreate, Join, ProjectClear, Invite,
         OrgSetRole, ProjectSetRole, StartSetRole, OrgAddUser, OrgRemoveUser,
         ProjectAddUser, ProjectRemoveUser, ProjectCreate, ProjectUse,
         ProjectAssign, GenerateIdentity, CreateOrg, SaveOrg, InviteEnds,
         GrantRole, SetContact, JoinSaves, DeleteRoles, WriteRole,
         AssignResource, AdminInterrupt, Files
    <2> QED
      BY <1>1, <2>1, AdminOthers DEF FleetInv
  <1>6. Grows /\ Begun' = Begun /\ FleetTypes'
    BY <1>2, <1>4, <1>5 DEF Grows, AdminsFollow, Begun, FleetInv, FleetTypes
  <1>7. \A p \in Ops : ProcOK(p)'
    <2>1. ProcOK(o)'
      BY <1>1, <1>2 DEF At, ProcOK, LaunchOK, KillOK, Launching
    <2>2. \A p \in Ops \ {o} : ProcOK(p)'
      BY <1>2, <1>5, <1>6, ProcStays DEF FleetTypes
    <2> QED
      BY <2>1, <2>2
  <1>8. admins' \subseteq Users /\ \A u \in Users : AdminAccess(u)' => u \in admins'
    BY DEF AdminsFollow, FleetInv, AdminAccess, Related
  <1>9. OneAtATime'
    BY <1>1, <1>2, <1>5 DEF FleetInv, OneAtATime, At
  <1>10. CloudOK'
    <2>1. CloudOK
      BY DEF FleetInv
    <2>2. provider = "lambda" => \A i \in reported \cap Live : Owned(i)'
      BY <1>2, <1>4, <2>1 DEF CloudOK, Owned
    <2>3. Live' = Live
      BY <1>2 DEF Live
    <2> QED
      BY <1>2, <1>4, <1>6, <1>8, <2>1, <2>2, <2>3 DEF CloudOK
  <1>11. typed' \subseteq Users
    BY <1>1 DEF FleetInv, AdminStart, AdminStep, GiveOrgRole
  <1> QED
    BY <1>2, <1>3, <1>6, <1>7, <1>8, <1>9, <1>10, <1>11 DEF FleetInv

-----------------------------------------------------------------------------
(* Every step, and the first states *)

LEMMA InitOK ==
  Init => FleetInv /\ TransferInv
  <1> SUFFICES ASSUME Init PROVE FleetInv /\ TransferInv
    OBVIOUS
  <1>1. PICK h \in Homes : endpoint = h.endpoint /\ identity = h.identity
    BY DEF Init, AccessInit
  <1>2. /\ contacts = Book
        /\ minted = {u \in Users : \/ \E o \in Ops : identity[o].user = u
                                   \/ \E o \in Ops, n \in Nicks : contacts[o][n] = u
                                   \/ \E t \in Members : t[3] = u}
        /\ adm = [o \in Ops |-> Quiet] /\ alone = {} /\ received = minted
        /\ typed = {} /\ commands = 0
    BY DEF Init, AccessInit
  <1>3. /\ endpoint \subseteq Ops /\ identity \in [Ops -> Identities(Users)]
        /\ minted \subseteq Users /\ commands \in 0 .. MaxCommands
        /\ contacts \in [Ops -> [Nicks -> Users \cup {None}]]
    BY <1>1, <1>2
  <1>4. \A o \in Ops : /\ identity[o].user \in minted \cup {None}
                       /\ identity[o] \in Identities(minted)
    BY <1>2, <1>3 DEF Identities
  <1>5. \A o \in Ops, n \in Nicks : contacts[o][n] \in minted \cup {None}
    BY <1>2, <1>3
  <1>6. /\ identity \in [Ops -> Identities(minted)]
        /\ contacts \in [Ops -> [Nicks -> minted \cup {None}]]
        /\ adm \in [Ops -> AdminCommand]
        /\ \A o \in Ops : adm[o].pc = "idle"
    <2>1. identity \in [Ops -> Identities(minted)]
      BY <1>3, <1>4
    <2>2. contacts \in [Ops -> [Nicks -> minted \cup {None}]]
      <3>1. \A o \in Ops : contacts[o] \in [Nicks -> minted \cup {None}]
        BY <1>3, <1>5
      <3> QED
        BY <1>3, <3>1
    <2> QED
      BY <1>2, <2>1, <2>2, QuietOK DEF Quiet
  <1>7. PICK f \in Fleets :
          /\ inst = [i \in Ids |->
                IF i \in DOMAIN f
                THEN [status |-> "active", name |-> f[i].name,
                      by |-> f[i].by, owner |-> Owner(f[i].by),
                      region |-> f[i].region, fs |-> None, killer |-> None,
                      key |-> IF provider = "lambda" THEN f[i].key ELSE None]
                ELSE NoInstance]
          /\ cloudKeys = UNION {IF provider = "lambda"
                                THEN {f[i].key : i \in {j \in DOMAIN f : f[j].by = o}}
                                ELSE {} : o \in Ops}
          /\ files = [o \in Ops |->
                       IF provider = "lambda"
                       THEN {f[i].key : i \in {j \in DOMAIN f : f[j].by = o}} ELSE {}]
          /\ keyRows = files
          /\ instRow = [o \in Ops |-> IF provider = "lambda" THEN {}
                                      ELSE {i \in DOMAIN f : f[i].by = o}]
          /\ ledger = Members \cup
               UNION {Tuples(f[i].by, i) : i \in {j \in DOMAIN f :
                                                  Enabled(f[j].by)}}
          /\ reported = DOMAIN f
    BY DEF Init
  <1>8. /\ DOMAIN f \subseteq Ids
        /\ \A i \in DOMAIN f : /\ f[i].by \in Ops /\ f[i].name \in Names
                               /\ f[i].region \in Regions /\ f[i].key \in KeyNames
    OBVIOUS
  <1>9. /\ provider \in Providers /\ proc = [o \in Ops |-> Idle]
        /\ admins = {u \in Users : AdminAccess(u)}
        /\ fss = {} /\ rules = {} /\ disowned = {}
        /\ fsRow = [o \in Ops |-> [g \in Filesystems |-> None]]
        /\ sshHosts = [o \in Ops |-> {}]
    BY DEF Init
  <1>10. \A o \in Ops : Owner(o) \in Users \cup {None}
    BY <1>3 DEF Owner, Me, Identities
  <1>11. inst \in [Ids -> Instance]
    <2>1. NoInstance \in Instance
      BY DEF NoInstance, Instance
    <2>2. ASSUME NEW i \in DOMAIN f PROVE inst[i] \in Instance
      BY <1>7, <1>8, <1>10 DEF Instance
    <2>3. ASSUME NEW i \in Ids \ DOMAIN f PROVE inst[i] = NoInstance
      BY <1>7
    <2> QED
      BY <1>7, <2>1, <2>2, <2>3
  <1>12. /\ \A i \in DOMAIN f : /\ inst[i].status = "active" /\ inst[i].name = f[i].name
                                /\ inst[i].owner = Owner(f[i].by)
         /\ Begun = DOMAIN f
    BY <1>7, <1>8 DEF Begun, NoInstance
  <1>13. /\ cloudKeys \subseteq KeyNames /\ files \in [Ops -> SUBSET KeyNames]
         /\ keyRows \in [Ops -> SUBSET KeyNames] /\ instRow \in [Ops -> SUBSET Ids]
         /\ \A o \in Ops : instRow[o] \subseteq Begun
    <2>1. \A o \in Ops : (IF provider = "lambda"
                          THEN {f[i].key : i \in {j \in DOMAIN f : f[j].by = o}}
                          ELSE {}) \subseteq KeyNames
      BY <1>8
    <2>2. cloudKeys \subseteq KeyNames
      BY <1>7, <2>1
    <2>3. files \in [Ops -> SUBSET KeyNames] /\ keyRows = files
      BY <1>7, <2>1
    <2>4. instRow \in [Ops -> SUBSET Ids] /\ \A o \in Ops : instRow[o] \subseteq Begun
      BY <1>7, <1>8, <1>12
    <2> QED
      BY <2>2, <2>3, <2>4
  <1>14. FleetTypes
    BY <1>7, <1>8, <1>9, <1>11, <1>13, IdleOK DEF FleetTypes
  <1>15. ASSUME NEW i \in DOMAIN f, Enabled(f[i].by)
         PROVE  /\ Tuples(f[i].by, i) \subseteq Relationships
                /\ \A x, u : \A r \in Roles : <<x, r, u>> \notin Tuples(f[i].by, i)
                /\ \A x, u : <<x, "owner", u>> \in Tuples(f[i].by, i) <=>
                               x = i /\ u = Me(f[i].by)
    BY <1>3, <1>8, <1>15, TuplesFacts
  <1>16. /\ ledger \subseteq Relationships
         /\ \A x, u : \A r \in Roles : <<x, r, u>> \in ledger => <<x, r, u>> \in Members
         /\ \A x, u : <<x, "owner", u>> \in ledger =>
                         x \in DOMAIN f /\ Enabled(f[x].by) /\ u = Me(f[x].by)
         /\ \A i \in DOMAIN f : Enabled(f[i].by) => <<i, "owner", Me(f[i].by)>> \in ledger
    <2>1. \A t : t \in ledger <=>
             \/ t \in Members
             \/ \E i \in DOMAIN f : Enabled(f[i].by) /\ t \in Tuples(f[i].by, i)
      BY <1>7
    <2>2. Members \subseteq Relationships /\ \A x, u : <<x, "owner", u>> \notin Members
      BY DEF Relationships, RoleTuples, Roles
    <2>3. \A t \in ledger : t \in Relationships
      BY <1>15, <2>1, <2>2
    <2>4. ASSUME NEW x, NEW u, NEW r \in Roles, <<x, r, u>> \in ledger
          PROVE  <<x, r, u>> \in Members
      BY <1>15, <2>1, <2>4
    <2>5. ASSUME NEW x, NEW u, <<x, "owner", u>> \in ledger
          PROVE  x \in DOMAIN f /\ Enabled(f[x].by) /\ u = Me(f[x].by)
      BY <1>15, <2>1, <2>2, <2>5
    <2>6. ASSUME NEW i \in DOMAIN f, Enabled(f[i].by)
          PROVE  <<i, "owner", Me(f[i].by)>> \in ledger
      <3>1. <<i, "owner", Me(f[i].by)>> \in Tuples(f[i].by, i)
        BY <1>15, <2>6
      <3> QED
        BY <2>1, <2>6, <3>1
    <2> QED
      BY <2>3, <2>4, <2>5, <2>6
  <1>17. AccessInv
    BY <1>1, <1>2, <1>3, <1>4, <1>5, <1>6, <1>16 DEF AccessInv, AccessTypes, AdmOK,
       HomesKnow, Solitude
  <1>18. CloudOK
    <2>1. \A i \in Ids, u \in Users :
            <<i, "owner", u>> \in ledger => i \in Begun /\ inst[i].owner = u
      BY <1>12, <1>16 DEF Owner
    <2>2. \A i \in reported \cap Live : Owned(i)
      BY <1>7, <1>12, <1>16 DEF Owned, Owner
    <2> QED
      BY <1>7, <1>8, <1>9, <1>12, <1>13, <2>1, <2>2 DEF CloudOK
  <1>19. /\ OneAtATime /\ admins \subseteq Users /\ \A o \in Ops : ProcOK(o)
    BY <1>9, <1>6, IdleOK DEF OneAtATime, At, ProcOK, LaunchOK, KillOK, Launching
  <1>20. TransferInv
    <2>1. \A u \in Users : \A r \in Roles : <<Org, r, u>> \in Members => u \in minted
      BY <1>2
    <2> QED
      BY <1>2, <1>6, <1>16, <2>1 DEF TransferInv, RoleOnlyAfterTransfer, RoleInHand,
         ReadAccess, Related
  <1> QED
    BY <1>2, <1>9, <1>14, <1>17, <1>18, <1>19, <1>20 DEF FleetInv

LEMMA StepOK ==
  ASSUME FleetInv, NEW o \in Ops, Step(o), AdminsFollow PROVE Preserved
  <1>1. Proceeds
    BY DEF Step, LaunchStep, KillStep, FirewallStep, Proceeds
  <1>2. CASE LaunchStep(o)
    BY <1>1, <1>2, PrepareOK, KeyOK, LaunchRequestOK, SaveInstanceOK, WaitOK,
       RecordOwnerOK, LaunchDoneOK DEF LaunchStep
  <1>3. CASE KillStep(o)
    BY <1>1, <1>3, KillAllListOK, ResolveOK, CheckOK, TerminateOK, KillDoneOK
       DEF KillStep
  <1>4. CASE FirewallStep(o)
    BY <1>1, <1>4, FirewallOK DEF FirewallStep
  <1> QED
    BY <1>2, <1>3, <1>4 DEF Step

LEMMA InterruptOK ==
  ASSUME FleetInv, NEW o \in Ops, Interrupt(o), AdminsFollow PROVE Preserved
  <1>1. ~At(o, "idle") /\ Fatal(o) /\ Proceeds
    BY DEF Interrupt, Fatal, Proceeds, homes, access
  <1> QED
    BY <1>1, CommandEnds

LEMMA NextOK ==
  ASSUME FleetInv, [Next]_vars
  PROVE  FleetInv' /\ (TransferInv => TransferInv')
  <1>1. CASE UNCHANGED vars
    <2>1. UNCHANGED <<homes, commands, provider, inst, ledger, ghosts, proc, instRow,
                      admins>>
      BY <1>1 DEF vars, fleet, cloud, local, access, homes
    <2>2. FleetTypes'
      BY <1>1 DEF FleetInv, FleetTypes, vars, fleet, cloud, local, ghosts
    <2>3. (commands \in 0 .. MaxCommands)' /\ AdminsFollow
      BY <2>1 DEF FleetInv, AccessInv, AccessTypes, AdminsFollow, CloudOK, AdminAccess,
         Related
    <2>4. \A p \in Ops : instRow'[p] \subseteq Begun
      BY <2>1 DEF FleetInv, CloudOK
    <2> QED
      BY <2>1, <2>2, <2>3, <2>4, Stays DEF Preserved
  <1>2. CASE Next
    <2>1. AdminsFollow
      BY <1>2 DEF Next, AdminsFollow
    <2>2. ASSUME NEW o \in Ops, Start(o) \/ Step(o) \/ Interrupt(o)
          PROVE  Preserved
      BY <2>1, <2>2, StartOK, StepOK, InterruptOK
    <2>3. ASSUME NEW i \in Ids, InstanceChanges(i) PROVE Preserved
      BY <2>1, <2>3, CloudStepOK
    <2>4. ASSUME NEW o \in Ops, Administer(o)
          PROVE  FleetInv' /\ (TransferInv => TransferInv')
      BY <2>1, <2>4, AdministerOK
    <2> QED
      BY <1>2, <2>2, <2>3, <2>4 DEF Next, Preserved
  <1> QED
    BY <1>1, <1>2

\* Who ends an instance is in the middle of it.
LEMMA KillersKill ==
  ASSUME FleetInv, Next, NEW i \in Ids, NEW o \in Ops,
         inst[i].killer # o, inst'[i].killer = o
  PROVE  proc[o].pc = "kill" /\ i \in proc[o].ids
  <1>0. FleetTypes /\ inst \in [Ids -> Instance] /\ inst[i] \in Instance /\ inst' # inst
    BY DEF FleetInv, FleetTypes
  <1>1. ASSUME NEW p \in Ops, NEW ids, Terminate(p, ids)
        PROVE  p = o /\ i \in ids
    <2>1. inst'[i] = IF i \in ids \cap Live
                     THEN [inst[i] EXCEPT !.status = "gone", !.killer = p] ELSE inst[i]
      BY <1>1 DEF Terminate
    <2>2. [inst[i] EXCEPT !.status = "gone", !.killer = p].killer = p
      BY <1>0 DEF Instance
    <2> QED
      BY <2>1, <2>2
  <1>2. ASSUME NEW p \in Ops, NEW j \in Fresh, NEW status, NEW fs, Create(p, j, status, fs)
        PROVE  FALSE
    <2>1. j \in Ids
      BY DEF Fresh
    <2>2. inst'[i] = inst[i] \/ inst'[i].killer = None
      BY <1>0, <1>2, <2>1 DEF Create
    <2> QED
      BY <2>2
  <1>3. ASSUME NEW j \in Ids, InstanceChanges(j) PROVE FALSE
    <2>1. PICK status \in {"active", "gone"} : inst' = [inst EXCEPT ![j].status = status]
      BY <1>3 DEF InstanceChanges
    <2>2. inst'[i].killer = inst[i].killer
      BY <1>0, <2>1 DEF Instance
    <2> QED
      BY <2>2
  <1>4. ASSUME NEW p \in Ops, LambdaTerminate(p)
        PROVE  proc[o].pc = "kill" /\ i \in proc[o].ids
    <2>1. PICK ended \in SUBSET (proc[p].ids \cap Live) : Terminate(p, ended)
      BY <1>0, <1>4 DEF LambdaTerminate, Fatal, cloud
    <2>2. proc[p].pc = "kill"
      BY <1>4 DEF LambdaTerminate, At
    <2> QED
      BY <1>1, <2>1, <2>2
  <1>5. ASSUME NEW p \in Ops, OrgoTerminate(p) \/ ModalTerminate(p)
        PROVE  proc[o].pc = "kill" /\ i \in proc[o].ids
    <2>1. PICK j \in proc[p].left : Terminate(p, {j})
      BY <1>0, <1>5 DEF OrgoTerminate, ModalTerminate, Fatal, cloud
    <2>2. proc[p].pc = "kill"
      BY <1>5 DEF OrgoTerminate, ModalTerminate, At
    <2>3. proc[p].left \subseteq proc[p].ids
      BY <2>2 DEF FleetInv, ProcOK, KillOK
    <2> QED
      BY <1>1, <2>1, <2>2, <2>3
  <1>6. ASSUME NEW p \in Ops, NEW next, NEW status, NEW fs, Post(p, next, status, fs)
        PROVE  FALSE
    BY <1>2, <1>6 DEF Post
  <1>7. ASSUME NEW p \in Ops, LaunchStep(p) PROVE FALSE
    <2>1. LambdaLaunch(p) \/ OrgoLaunch(p) \/ ModalLaunch(p)
      BY <1>0, <1>7 DEF LaunchStep, PollAvailable, PollTimeout, ListFilesystems,
         CreateFilesystem, AskCreate, CreateSSHKey, SaveKeyFile, SaveKeyRow,
         SaveInstance, LambdaWait, OrgoWait, UpdateSSHConfig, RecordOwner,
         LaunchDone, Fatal, cloud
    <2> QED
      BY <1>0, <1>6, <2>1 DEF LambdaLaunch, OrgoLaunch, ModalLaunch, Fatal, cloud
  <1>8. ASSUME NEW p \in Ops, KillStep(p)
        PROVE  LambdaTerminate(p) \/ OrgoTerminate(p) \/ ModalTerminate(p)
    BY <1>0, <1>8 DEF KillStep, KillAllList, ResolveInstanceID, CheckDelete, KillDone,
       Fatal, cloud
  <1>9. ASSUME NEW p \in Ops, \/ FirewallStep(p) \/ Start(p) \/ Interrupt(p)
                              \/ Administer(p)
        PROVE  FALSE
    BY <1>0, <1>9 DEF FirewallStep, EnsurePortOpen, UpdateRules, Start, LaunchStart,
       KillStart, KillAllStart, PortStart, ReplaceStart, Begin, Interrupt,
       Administer, fleet, Fatal, cloud
  <1> QED
    BY <1>3, <1>4, <1>5, <1>7, <1>8, <1>9 DEF Next, Step

-----------------------------------------------------------------------------
(* The theorems *)

\* The invariant of the commands, the cloud and the ledger.
THEOREM FleetInvariant == Spec => []FleetInv
  <1>1. Init => FleetInv
    BY InitOK
  <1>2. FleetInv /\ [Next]_vars => FleetInv'
    BY NextOK
  <1> QED
    BY <1>1, <1>2, PTL DEF Spec

\* Every variable of Access and Fleet keeps its type: what a command goes on
\* with, it has been given.
THEOREM FleetTypeCorrect == Spec => []TypeOK
  <1>1. FleetInv => TypeOK
    BY DEF FleetInv, FleetTypes, AccessInv, AccessTypes, AccessTypeOK, TypeOK
  <1> QED
    BY <1>1, FleetInvariant, PTL

\* On Lambda a reported instance that runs keeps its owner in the ledger, unless
\* writing that one relationship failed or a kill of it was answered without it.
THEOREM OwnersAreRecorded == Spec => []OwnedWhileRunning
  <1>1. FleetInv => OwnedWhileRunning
    BY DEF FleetInv, CloudOK, Owned, OwnedWhileRunning
  <1> QED
    BY <1>1, FleetInvariant, PTL

\* A UUID has a role in the organization only once it has reached a home, by
\* whatever invitation or nickname; or when add-user or set-role was given the
\* UUID itself, which they write as it is.
THEOREM RolesFollowTransfer == Spec => []RoleOnlyAfterTransfer
  <1>1. Init => FleetInv /\ TransferInv
    BY InitOK
  <1>2. FleetInv /\ TransferInv /\ [Next]_vars => (FleetInv /\ TransferInv)'
    BY NextOK
  <1>3. TransferInv => RoleOnlyAfterTransfer
    BY DEF TransferInv
  <1> QED
    BY <1>1, <1>2, <1>3, PTL DEF Spec

\* With SpiceDB configured only its owner or an administrator kills an instance.
THEOREM KillersArePermitted == Spec => OnlyOwnerOrAdminKills
  <1>1. ASSUME FleetInv, Next, NEW i \in Ids, NEW o \in Ops,
               inst[i].killer # o /\ inst'[i].killer = o /\ Enabled(o)
        PROVE  Me(o) \in {inst[i].owner} \cup admins
    <2>1. proc[o].pc = "kill" /\ i \in proc[o].ids
      BY <1>1, KillersKill
    <2> QED
      BY <1>1, <2>1 DEF FleetInv, ProcOK, KillOK, MayKill
  <1>2. FleetInv /\ [Next]_vars =>
          [\A i \in Ids, o \in Ops :
             (inst[i].killer # o /\ inst'[i].killer = o /\ Enabled(o)) =>
               Me(o) \in {inst[i].owner} \cup admins]_vars
    BY <1>1
  <1> QED
    BY <1>2, FleetInvariant, PTL DEF Spec, OnlyOwnerOrAdminKills

\* A kill ends no instance that its arguments do not name.
THEOREM KillsAreNamed == Spec => KillsOnlyNamed
  <1>1. ASSUME FleetInv, Next, NEW i \in Ids, NEW o \in Ops,
               inst[i].killer # o /\ inst'[i].killer = o
        PROVE  {i, inst[i].name} \cap proc[o].args # {}
    <2>1. proc[o].pc = "kill" /\ i \in proc[o].ids
      BY <1>1, KillersKill
    <2> QED
      BY <1>1, <2>1 DEF FleetInv, ProcOK, KillOK
  <1>2. FleetInv /\ [Next]_vars =>
          [\A i \in Ids, o \in Ops :
             (inst[i].killer # o /\ inst'[i].killer = o) =>
               {i, inst[i].name} \cap proc[o].args # {}]_vars
    BY <1>1
  <1> QED
    BY <1>2, FleetInvariant, PTL DEF Spec, KillsOnlyNamed

\* A port that EnsurePortOpen closes was opened or closed since it read.
THEOREM PortsAreLostToRaces == Spec => PortsLostOnlyToRaces
  <1>1. FleetInv =>
          [\A o \in Ops : (UpdateRules(o) /\ proc[o].port # None) =>
             (rules \subseteq rules' \/ proc[o].read # rules)]_vars
    BY DEF FleetInv, ProcOK, UpdateRules, At
  <1> QED
    BY <1>1, FleetInvariant, PTL DEF PortsLostOnlyToRaces

\* Alone, and with no deletion lost, set-role leaves its role and no other.
THEOREM RolesAreReplaced == Spec => RoleReplaced
  <1>1. FleetInv =>
          [\A o \in alone :
             (WriteRole(o) /\ <<adm[o].obj, adm[o].role, adm[o].who>> \in ledger'
                /\ ~adm[o].dropped) =>
               {r \in Roles : <<adm[o].obj, r, adm[o].who>> \in ledger'} =
                 {adm[o].role}]_<<access, commands>>
    BY ReplacesRole DEF FleetInv
  <1> QED
    BY <1>1, FleetInvariant, PTL DEF RoleReplaced

=============================================================================
