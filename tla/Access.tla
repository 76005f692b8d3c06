------------------------------- MODULE Access -------------------------------
(***************************************************************************)
(* Who may use an adapter: its owner, whoever is in a group that it is     *)
(* shared with, and whoever is in a group with the permission to manage.   *)
(* The requests of AdapterService decide that by one store call after the  *)
(* other, while the requests of Membership, other requests and a restart   *)
(* change what they read.                                                  *)
(***************************************************************************)
EXTENDS Membership

CONSTANTS
    Adapters,     \* adapter IDs
    Handlers,     \* handlers of requests about adapters
    Permissions,  \* Permissions[g]: which of "manage", "assign", "read" group g has
    Serves,       \* Serves[h]: the operations that clients of handler h ask for
    Levels,       \* what assignments say: "read", or another string, which gives no access
    Stranger      \* an owner whose own requests are not looked at

Questions == {"get", "list"}
Changes == {"update", "delete"}
Sharing == {"share", "unshare"}

ASSUME AccessAssumption ==
    /\ Serves \in [Handlers -> SUBSET (Questions \cup Changes \cup Sharing)]
    /\ Permissions \in [Groups -> SUBSET {"manage", "assign", "read"}]
    /\ Stranger \notin Users \cup {Absent}
    /\ Absent \notin Groups \cup Users

VARIABLES
    owner,   \* the adapter store: CreatedBy of each adapter
    shares,  \* the assignment store: shares[a][g], the Permission of g's assignment
    call,    \* the request each handler works on
    was,     \* history: groups that its user was in at some time since it began
    calm     \* history: has nothing it depends on changed since

adapters == <<owner, shares>>
accessVars == <<owner, shares, call, was, calm>>

Answered == {"granted", "denied"}

(***************************************************************************)
(* left: groups still to be looked at.  via: the group that made the       *)
(* decision, Absent for the owner.  again: the handler of an update asks   *)
(* GetAdapter, and UpdateAdapter decides again.                            *)
(***************************************************************************)
Call == [op: Questions \cup Changes \cup Sharing,
         user: Users, adapter: Adapters,
         group: Groups \cup {Absent}, level: Levels \cup {Absent},
         at: {"adapter", "manager", "managing", "all", "own", "user", "reading", "sharing",
              "assigning", "owner", "target", "permission", "act"} \cup Answered,
         left: SUBSET Groups, via: Groups \cup {Absent}, again: BOOLEAN]

\* CheckGroupPermission of a group that may be gone.
HasPermission(g, p) == groups[g] # Absent /\ p \in Permissions[g]

\* What a decision about user u and adapter a is made of.
Basis(u, a) ==
    <<users[u], owner[a], shares[a], {g \in Groups : groups[g] = Absent}>>

\* The groups that user u is in for the group store, or is just entering or leaving.
Counting(u) ==
    {g \in Groups : u \in MembersOf(g) \/ \E r \in Requests : BusyOn(r, u) /\ req[r].group = g}

CountingFor(h) == Counting(call[h].user)

AccessInit ==
    /\ Init
    /\ owner \in [Adapters -> Users \cup {Stranger, Absent}]
    /\ shares \in [Adapters -> [Groups -> {Absent} \cup Levels]]
    /\ call = [h \in Handlers |-> Absent]
    /\ was = [h \in Handlers |-> {}]
    /\ calm = [h \in Handlers |-> TRUE]

-----------------------------------------------------------------------------
(* Steps of a request.                                                     *)

At(h, step) == call[h] # Absent /\ call[h].at = step

Proceed(h, step) == call' = [call EXCEPT ![h].at = step]

\* The user is read, for the groups, or one group was looked at.
Consider(h, step, gs) == call' = [call EXCEPT ![h].at = step, ![h].left = gs]

Deny(h) == Consider(h, "denied", {})

\* What comes after a decision in favour of the user.
AfterAllow(op) ==
    CASE op \in Questions -> "granted" [] op = "share" -> "target" [] OTHER -> "act"

\* The decision, by group g, is in favour of the user.
Allow(h, g) ==
    IF call[h].op = "update" /\ ~call[h].again
    THEN call' = [call EXCEPT ![h].at = "adapter", ![h].left = {}, ![h].again = TRUE]
    ELSE call' = [call EXCEPT ![h].at = AfterAllow(call[h].op), ![h].left = {}, ![h].via = g]

\* Group g has the user list the adapter, which is read next.
ListBy(h, g) == call' = [call EXCEPT ![h].at = "all", ![h].left = {}, ![h].via = g]

Begin(h) ==
    /\ call[h] = Absent
    /\ \E op \in Serves[h], u \in Users, a \in Adapters,
          g \in Groups \cup {Absent}, level \in Levels \cup {Absent} :
          /\ g = Absent <=> op \notin Sharing
          /\ level = Absent <=> op # "share"
          /\ call' = [call EXCEPT ![h] =
                [op |-> op, user |-> u, adapter |-> a, group |-> g, level |-> level,
                 at |-> IF op \in {"get"} \cup Changes THEN "adapter" ELSE "manager",
                 left |-> {}, via |-> Absent, again |-> FALSE]]
    /\ UNCHANGED adapters

\* store.Get, and the owner's right.
GetAdapter(h) ==
    LET c == call[h]
    IN  /\ At(h, "adapter")
        /\ \/ owner[c.adapter] = Absent /\ Deny(h)
           \/ owner[c.adapter] = c.user /\ Allow(h, Absent)
           \/ owner[c.adapter] \notin {Absent, c.user} /\ Proceed(h, "manager")
        /\ UNCHANGED adapters

\* CanManageGroups reads the user and then the user's groups, one by one.
CanManageGroups(h) ==
    /\ At(h, "manager")
    /\ Consider(h, "managing", GroupsOf(call[h].user))
    /\ UNCHANGED adapters

CheckManager(h) ==
    LET c == call[h]
    IN  /\ At(h, "managing")
        /\ \/ c.left = {} /\ Proceed(h, IF c.op = "list" THEN "own" ELSE "user")
           \/ \E g \in c.left :
                 IF ~HasPermission(g, "manage") THEN Consider(h, "managing", c.left \ {g})
                 ELSE IF c.op = "list" THEN ListBy(h, g)
                 ELSE Allow(h, g)
        /\ UNCHANGED adapters

\* ListAdapters lists what is there: all of it for a manager, and what is assigned
\* to a group for its users, after their own.
ListAll(h) ==
    LET c == call[h]
    IN  /\ At(h, "all")
        /\ Proceed(h, IF owner[c.adapter] # Absent THEN "granted" ELSE "denied")
        /\ UNCHANGED adapters

ListOwn(h) ==
    LET c == call[h]
    IN  /\ At(h, "own")
        /\ IF owner[c.adapter] = c.user THEN Allow(h, Absent) ELSE Proceed(h, "user")
        /\ UNCHANGED adapters

AfterUser(op) ==
    CASE op = "list" -> "reading" [] op \in Sharing -> "assigning" [] OTHER -> "sharing"

\* Variant: every group that the adapter is shared with counts as the user's.
GetUserUnchecked(h) ==
    LET c == call[h]
    IN  /\ At(h, "user")
        /\ Consider(h, AfterUser(c.op), {g \in Groups : shares[c.adapter][g] # Absent})
        /\ UNCHANGED adapters

\* The user is read again.
GetUser(h) ==
    /\ At(h, "user")
    /\ Consider(h, AfterUser(call[h].op), GroupsOf(call[h].user))
    /\ UNCHANGED adapters

\* ListAdapters only: a group of the user must have the permission to read.
CheckReading(h) ==
    LET c == call[h]
    IN  /\ At(h, "reading")
        /\ \/ c.left = {} /\ Deny(h)
           \/ \E g \in c.left :
                 IF HasPermission(g, "read")
                 THEN call' = [call EXCEPT ![h].at = "sharing", ![h].group = g]
                 ELSE Consider(h, "reading", c.left \ {g})
        /\ UNCHANGED adapters

\* Variant: an assigned adapter is listed without a look at the adapter store.
HasAccessNotGot(h) ==
    LET c == call[h]
    IN  /\ At(h, "sharing")
        /\ \/ c.left = {} /\ Deny(h)
           \/ \E g \in IF c.op = "list" THEN {c.group} ELSE c.left :
                 IF shares[c.adapter][g] = "read" THEN Allow(h, g)
                 ELSE Consider(h, IF c.op = "list" THEN "reading" ELSE "sharing", c.left \ {g})
        /\ UNCHANGED adapters

\* An assignment to one of the user's groups decides.
HasAccess(h) ==
    LET c == call[h]
    IN  /\ At(h, "sharing")
        /\ \/ c.left = {} /\ Deny(h)
           \/ \E g \in IF c.op = "list" THEN {c.group} ELSE c.left :
                 IF shares[c.adapter][g] # "read"
                 THEN Consider(h, IF c.op = "list" THEN "reading" ELSE "sharing", c.left \ {g})
                 ELSE IF c.op = "list" THEN ListBy(h, g)
                 ELSE Allow(h, g)
        /\ UNCHANGED adapters

-----------------------------------------------------------------------------
(* Assigning adapters to groups.                                           *)

\* A group of the user with the permission to assign decides, then ownership.
CheckAssigning(h) ==
    LET c == call[h]
    IN  /\ At(h, "assigning")
        /\ \/ c.left = {} /\ Proceed(h, "owner")
           \/ \E g \in c.left :
                 IF HasPermission(g, "assign") THEN Allow(h, g)
                 ELSE Consider(h, "assigning", c.left \ {g})
        /\ UNCHANGED adapters

CheckOwner(h) ==
    LET c == call[h]
    IN  /\ At(h, "owner")
        /\ IF owner[c.adapter] = c.user THEN Allow(h, Absent) ELSE Deny(h)
        /\ UNCHANGED adapters

\* The adapter must be there, and the group must have the permission to assign, too.
CheckTarget(h) ==
    LET c == call[h]
    IN  /\ \/ /\ At(h, "target")
              /\ IF owner[c.adapter] # Absent THEN Proceed(h, "permission") ELSE Deny(h)
           \/ /\ At(h, "permission")
              /\ IF HasPermission(c.group, "assign") THEN Proceed(h, "act") ELSE Deny(h)
        /\ UNCHANGED adapters

-----------------------------------------------------------------------------
(* The store call that a request was allowed to make.                      *)

\* The one who updates an adapter becomes its owner.
UpdateAdapter(h) ==
    LET c == call[h]
    IN  /\ At(h, "act") /\ c.op = "update"
        /\ IF owner[c.adapter] = Absent THEN Deny(h) /\ UNCHANGED owner
           ELSE Proceed(h, "granted") /\ owner' = [owner EXCEPT ![c.adapter] = c.user]
        /\ UNCHANGED shares

\* Assignments of the adapter stay.
DeleteAdapter(h) ==
    LET c == call[h]
    IN  /\ At(h, "act") /\ c.op = "delete"
        /\ IF owner[c.adapter] = Absent THEN Deny(h) /\ UNCHANGED owner
           ELSE Proceed(h, "granted") /\ owner' = [owner EXCEPT ![c.adapter] = Absent]
        /\ UNCHANGED shares

\* An assignment that exists is not changed, and one that does not cannot be deleted.
AssignAdapterToGroup(h) ==
    LET c == call[h]
    IN  /\ At(h, "act") /\ c.op = "share"
        /\ IF shares[c.adapter][c.group] # Absent THEN Deny(h) /\ UNCHANGED shares
           ELSE /\ Proceed(h, "granted")
                /\ shares' = [shares EXCEPT ![c.adapter][c.group] = c.level]
        /\ UNCHANGED owner

RemoveAdapterFromGroup(h) ==
    LET c == call[h]
    IN  /\ At(h, "act") /\ c.op = "unshare"
        /\ IF shares[c.adapter][c.group] = Absent THEN Deny(h) /\ UNCHANGED shares
           ELSE /\ Proceed(h, "granted")
                /\ shares' = [shares EXCEPT ![c.adapter][c.group] = Absent]
        /\ UNCHANGED owner

\* The request is over.
Leave(h) ==
    /\ \E step \in Answered : At(h, step)
    /\ call' = [call EXCEPT ![h] = Absent]
    /\ UNCHANGED adapters

Decide(h) ==
    \/ GetAdapter(h) \/ CanManageGroups(h) \/ CheckManager(h) \/ ListAll(h) \/ ListOwn(h)
    \/ GetUser(h) \/ CheckReading(h) \/ HasAccess(h)
    \/ CheckAssigning(h) \/ CheckOwner(h) \/ CheckTarget(h)

Act(h) ==
    UpdateAdapter(h) \/ DeleteAdapter(h) \/ AssignAdapterToGroup(h) \/ RemoveAdapterFromGroup(h)

\* store.Create, for anybody; the ID may have been in use before.
CreateAdapter(a, u) ==
    /\ owner[a] = Absent
    /\ owner' = [owner EXCEPT ![a] = u]
    /\ UNCHANGED <<shares, call>>

-----------------------------------------------------------------------------
(* Both together.                                                          *)

\* The requests that are in progress witness what a step changes.
Observe ==
    /\ was' = [h \in Handlers |-> IF call'[h] = Absent THEN {} ELSE was[h] \cup CountingFor(h)']
    /\ calm' = [h \in Handlers |->
                  \/ call[h] = Absent
                  \/ call'[h] = Absent
                  \/ calm[h] /\ UNCHANGED Basis(call[h].user, call[h].adapter)]

AccessNext ==
    /\ \/ (\E h \in Handlers : Begin(h) \/ Decide(h) \/ Act(h) \/ Leave(h)) /\ UNCHANGED vars
       \/ (\E a \in Adapters, u \in Users \cup {Stranger} : CreateAdapter(a, u)) /\ UNCHANGED vars
       \/ Change /\ Watch /\ UNCHANGED <<owner, shares, call>>
       \/ Restart /\ Watch /\ call' = [h \in Handlers |-> Absent] /\ UNCHANGED adapters
    /\ Observe

AccessSpec == AccessInit /\ [][AccessNext]_<<vars, accessVars>>

-----------------------------------------------------------------------------
(* Properties.                                                             *)

AccessTypeOK ==
    /\ owner \in [Adapters -> Users \cup {Stranger, Absent}]
    /\ shares \in [Adapters -> [Groups -> {Absent} \cup Levels]]
    /\ call \in [Handlers -> Call \cup {Absent}]
    /\ was \in [Handlers -> SUBSET Groups]
    /\ calm \in [Handlers -> BOOLEAN]

\* The decision of a request, which goes by user.Groups, follows the groups'
\* Members: once RemoveUserFromGroup has answered that a user has left a group,
\* the group gives access to no request that begins later, and only
\* AddUserToGroup lets it.  (Not so for the users that Membership's properties
\* leave out.)
AccessFollowsMembers ==
    \A h \in Handlers :
        (call[h] # Absent /\ call[h].user \notin disturbed) =>
            call[h].via \in was[h] \cup {Absent}

\* What access is: the rule that the store calls of a request, two readings of
\* the user among them, are to compute.
MayGet(u, a) ==
    /\ owner[a] # Absent
    /\ \/ owner[a] = u
       \/ \E g \in GroupsOf(u) : HasPermission(g, "manage") \/ shares[a][g] = "read"

\* A request that no change has crossed decides by the rule: nobody is kept
\* away wrongly, and what is listed, changed or deleted could be got.
DecisionsAreRight ==
    \A h \in Handlers :
        LET c == call[h]
        IN  (c # Absent /\ calm[h]) =>
               /\ (c.at = "denied" /\ c.op \in {"get"} \cup Changes)
                     => ~MayGet(c.user, c.adapter)
               /\ (<<c.at, c.op>> \in ({"granted"} \X Questions) \cup ({"act"} \X Changes))
                     => MayGet(c.user, c.adapter)
=============================================================================
