------------------------------- MODULE MCFleet -------------------------------
(* A small instance of Fleet, with the commands of Access, for TLC. *)
EXTENDS Fleet

\* A launch that waits for capacity, in either region, and attaches a
\* filesystem; and one without.
SomeFlags ==
  {[name |-> "web", wait |-> TRUE, region |-> "r1", fs |-> "data"],
   [name |-> "db", wait |-> FALSE, region |-> "r2", fs |-> None]}

\* Nothing runs, or two instances that share a name and not an owner.
SomeFleets ==
  {[i \in {} |-> None],
   [i \in {"i1", "i2"} |->
      [by |-> IF i = "i1" THEN "alice" ELSE "bob", name |-> "web",
       region |-> "r1", key |-> IF i = "i1" THEN "k1" ELSE "k2"]]}

\* A name that two bear, alone and with an ID.
SomeKills == {{"web"}, {"web", "i2"}}

NoRules == {{}}

\* Alice works in a project, Bob administers the organization.
Both ==
  [o \in Ops |-> IF o = "alice"
     THEN [user |-> "ua", org |-> TRUE, project |-> "proj"]
     ELSE [user |-> "ub", org |-> TRUE, project |-> None]]

\* SpiceDB is configured for both; or for Bob alone, who is a stranger yet.
SomeHomes ==
  {[endpoint |-> Ops, identity |-> Both],
   [endpoint |-> {"bob"}, identity |-> [Both EXCEPT !["bob"] = NoIdentity]]}

SomeMembers ==
  {<<Org, "admin", "ub">>, <<Org, "editor", "ua">>, <<"proj", "org", Org>>}

AliceKnowsBob ==
  [o \in Ops |-> [n \in Nicks |-> IF o = "alice" THEN "ub" ELSE None]]

\* A role of the organization for a nickname and for a UUID, one of a project.
SomeRoles ==
  {[obj |-> Org, name |-> "bo", role |-> "reader"],
   [obj |-> Org, name |-> "u3", role |-> "reader"],
   [obj |-> "proj", name |-> "ub", role |-> "editor"]}

=============================================================================
