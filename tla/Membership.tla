----------------------------- MODULE Membership -----------------------------
(***************************************************************************)
(* Users, groups and the two directions of their membership relation.     *)
(*                                                                         *)
(* A membership is stored twice: user.Groups in the user store, which      *)
(* every permission check reads, and group.Members in the group store.     *)
(* The stores are locked separately and a handler that touches both makes  *)
(* several store calls, each of them atomic, with nothing held in between. *)
(* One action of this module is one store call.                            *)
(*                                                                         *)
(* A copy returned by a store's Get shares the array of its slice with the *)
(* store.  A removal moves the elements behind it in place, so that it may *)
(* show in copies, and a removal from a copy in the store; an append may   *)
(* then overwrite what a copy still has.  For groups `edited` tells whom   *)
(* that may concern while a copy is in use (WriteGroup).  A copy of a user *)
(* is its value: only requests that overlap on the user change it, and     *)
(* such a user is in `disturbed`, about whom no property says anything; so *)
(* is who is in a written slice twice, which is modelled as a set.         *)
(***************************************************************************)
EXTENDS FiniteSets

CONSTANTS
    Users,      \* user IDs
    Groups,     \* group IDs
    Requests,   \* handler goroutines, each serving one request
    Kinds,      \* the operations the clients of an instance call
    Saves,      \* outcomes of saveToFile the disk can produce: TRUE is success
    Loads,      \* outcomes of loadFromFile at a restart: TRUE is success
    Absent      \* "no entry with this ID"

ASSUME AbsentAssumption == \A S \in (SUBSET Groups) \cup (SUBSET Users) : S # Absent
ASSUME SavesAssumption == Saves \subseteq BOOLEAN
ASSUME LoadsAssumption == Loads \subseteq BOOLEAN

VARIABLES
    users,      \* FileUserStore.users: the Groups of each user
    groups,     \* FileGroupStore.groups: the Members of each group
    usersFile,  \* what the file of the user store holds
    groupsFile, \* what the file of the group store holds
    req,        \* where each request is, what it is about, the copy it holds
    disturbed,  \* history: users with a change the code leaves uncoordinated
    edited      \* history: users that entered or left a group since a request
                \* that will write its copy of it back read that copy

UserStore == <<users, usersFile>>
GroupStore == <<groups, groupsFile>>
Stores == <<users, usersFile, groups, groupsFile>>
vars == <<users, groups, usersFile, groupsFile, req, disturbed, edited>>

Waiting == {"new", "ok", "failed"}          \* before and after the handler runs
AddSteps == {"addGet", "addWrite", "addRollback"}
RemoveSteps == {"removeGet", "removeWrite"}
UserSteps == AddSteps \cup RemoveSteps \cup {"userWrite"}
Steps == Waiting \cup UserSteps \cup {"groupWrite"}

GroupsOf(u) == IF users[u] = Absent THEN {} ELSE users[u]
MembersOf(g) == IF groups[g] = Absent THEN {} ELSE groups[g]

\* The two stores tell the same about user u.
Agree(u) == \A g \in Groups : u \in MembersOf(g) <=> g \in GroupsOf(u)

\* A request that is about to make its next store call on user u.
BusyOn(r, u) == req[r].at \in UserSteps /\ req[r].user = u

Idle(u) == \A r \in Requests : ~BusyOn(r, u)

Request == [at : Steps, user : Users, group : Groups,
            groups : SUBSET Groups, members : SUBSET Users]

TypeOK ==
    /\ users \in [Users -> {Absent} \cup SUBSET Groups]
    /\ groups \in [Groups -> {Absent} \cup SUBSET Users]
    /\ usersFile \in [Users -> {Absent} \cup SUBSET Groups]
    /\ groupsFile \in [Groups -> {Absent} \cup SUBSET Users]
    /\ req \in [Requests -> Request]
    /\ disturbed \in SUBSET Users
    /\ edited \in [Requests -> SUBSET Users]

(***************************************************************************)
(* The program starts on two files that agree, with no request running.    *)
(***************************************************************************)
Init ==
    /\ users \in [Users -> {Absent} \cup SUBSET Groups]
    /\ groups \in [Groups -> {Absent} \cup SUBSET Users]
    /\ \A u \in Users : Agree(u)
    /\ usersFile = users /\ groupsFile = groups
    /\ disturbed = {}
    /\ edited = [r \in Requests |-> {}]
    /\ req \in [Requests -> {q \in Request : /\ q.at = "new"
                                              /\ q.groups = {}
                                              /\ q.members = {}}]

-----------------------------------------------------------------------------
(* Steps of a request.                                                     *)

Goto(r, step) == req' = [req EXCEPT ![r].at = step]

\* The request returns: its copies go out of scope.
Return(r, result) ==
    req' = [req EXCEPT ![r].at = result, ![r].groups = {}, ![r].members = {}]

\* The request keeps the copy that a store's Get returned.
TakeGroups(r, step, gs) ==
    req' = [req EXCEPT ![r].at = step, ![r].groups = gs]

TakeMembers(r, step, us) ==
    req' = [req EXCEPT ![r].at = step, ![r].members = us]

\* The map writes of the two stores.
PutUser(u, gs) == users' = [users EXCEPT ![u] = gs]
PutGroup(g, us) == groups' = [groups EXCEPT ![g] = us]

\* Variant: the file is written before the map.
SaveGroupsFirst(saved) == groupsFile' = IF saved THEN groups ELSE groupsFile

\* saveToFile, which follows every map write: the whole map replaces the file
\* (a temporary file is renamed) or the file stays as it was.
SaveUsers(saved) == usersFile' = IF saved THEN users' ELSE usersFile
SaveGroups(saved) == groupsFile' = IF saved THEN groups' ELSE groupsFile

\* A request starts on user u: a second one in flight for the same user is
\* an overlap, and so is a failed save, after which memory and answer differ.
Disturb(r, u, saved) ==
    disturbed' = IF saved /\ \A r2 \in Requests \ {r} : ~BusyOn(r2, u)
                 THEN disturbed
                 ELSE disturbed \cup {u}

IsMember(u, g) == groups[g] # Absent /\ u \in groups[g]

\* Variant: a member is not refused.
AddMemberTwice(r) ==
    LET u == req[r].user
        g == req[r].group
    IN  /\ "add" \in Kinds /\ req[r].at = "new" /\ groups[g] # Absent
        /\ PutGroup(g, groups[g] \cup {u})
        /\ Goto(r, "addGet")
        /\ SaveGroups(TRUE)
        /\ Disturb(r, u, TRUE)
        /\ UNCHANGED UserStore

\* AddUserToGroup, first call: groupStore.AddMember.  The map entry is written
\* before the file, so a failed save leaves the member in memory.
AddMember(r) ==
    LET u == req[r].user
        g == req[r].group
    IN  /\ "add" \in Kinds
        /\ req[r].at = "new"
        /\ UNCHANGED UserStore
        /\ \/ /\ groups[g] = Absent \/ IsMember(u, g)
              /\ Return(r, "failed")
              /\ UNCHANGED <<GroupStore, disturbed>>
           \/ /\ groups[g] # Absent /\ ~IsMember(u, g)
              /\ PutGroup(g, groups[g] \cup {u})
              /\ \E saved \in Saves :
                    /\ SaveGroups(saved)
                    /\ IF saved THEN Goto(r, "addGet") ELSE Return(r, "failed")
                    /\ Disturb(r, u, saved)

\* Variant: the failed Get of the user is answered without the rollback.
AddGetUserNoRollback(r) ==
    /\ req[r].at = "addGet"
    /\ IF users[req[r].user] = Absent \/ req[r].group \in users[req[r].user]
       THEN Return(r, IF users[req[r].user] = Absent THEN "failed" ELSE "ok")
       ELSE TakeGroups(r, "addWrite", users[req[r].user] \cup {req[r].group})
    /\ UNCHANGED <<Stores, disturbed>>

\* Variant: the two IDs swapped, the user's own is appended.
AddGetUserSwapped(r) ==
    /\ req[r].at = "addGet"
    /\ users[req[r].user] # Absent
    /\ TakeGroups(r, "addWrite", users[req[r].user] \cup {req[r].user})
    /\ UNCHANGED <<Stores, disturbed>>

\* Second call: userStore.Get, then the copy's Groups is extended.
AddGetUser(r) ==
    LET u == req[r].user
        g == req[r].group
    IN  /\ req[r].at = "addGet"
        /\ \/ users[u] = Absent /\ Goto(r, "addRollback")
           \/ users[u] # Absent /\ g \in users[u] /\ Return(r, "ok")
           \/ /\ users[u] # Absent /\ g \notin users[u]
              /\ TakeGroups(r, "addWrite", users[u] \cup {g})
        /\ UNCHANGED <<Stores, disturbed>>

\* Third call: userStore.Update with the extended copy.
AddWriteUser(r) ==
    LET u == req[r].user
    IN  /\ req[r].at = "addWrite"
        /\ UNCHANGED GroupStore
        /\ \/ /\ users[u] = Absent
              /\ Goto(r, "addRollback")
              /\ UNCHANGED <<UserStore, disturbed>>
           \/ /\ users[u] # Absent
              /\ PutUser(u, req[r].groups)
              /\ \E saved \in Saves :
                    /\ SaveUsers(saved)
                    /\ IF saved THEN Return(r, "ok") ELSE Goto(r, "addRollback")
                    /\ Disturb(r, u, saved)

\* Variant: the rollback's own error, nil, is answered instead of the cause.
AddRollbackAnswersOk(r) ==
    LET g == req[r].group
    IN  /\ req[r].at = "addRollback"
        /\ IF IsMember(req[r].user, g) THEN PutGroup(g, groups[g] \ {req[r].user})
           ELSE UNCHANGED groups
        /\ SaveGroups(TRUE)
        /\ Return(r, "ok")
        /\ UNCHANGED <<UserStore, disturbed>>

\* The rollback: groupStore.RemoveMember, its error ignored.
AddRollback(r) ==
    LET u == req[r].user
        g == req[r].group
    IN  /\ req[r].at = "addRollback"
        /\ Return(r, "failed")
        /\ UNCHANGED UserStore
        /\ \/ ~IsMember(u, g) /\ UNCHANGED <<GroupStore, disturbed>>
           \/ /\ IsMember(u, g)
              /\ PutGroup(g, groups[g] \ {u})
              /\ \E saved \in Saves :
                    /\ SaveGroups(saved)
                    /\ disturbed' = IF saved THEN disturbed ELSE disturbed \cup {u}

\* RemoveUserFromGroup, first call: groupStore.RemoveMember.
RemoveMember(r) ==
    LET u == req[r].user
        g == req[r].group
    IN  /\ "remove" \in Kinds
        /\ req[r].at = "new"
        /\ UNCHANGED UserStore
        /\ \/ /\ ~IsMember(u, g)
              /\ Return(r, "failed")
              /\ UNCHANGED <<GroupStore, disturbed>>
           \/ /\ IsMember(u, g)
              /\ PutGroup(g, groups[g] \ {u})
              /\ \E saved \in Saves :
                    /\ SaveGroups(saved)
                    /\ IF saved THEN Goto(r, "removeGet") ELSE Return(r, "failed")
                    /\ Disturb(r, u, saved)

\* Second call: userStore.Get; a missing user or group entry is a success.  The
\* group is taken out of the copy in place: what is behind it moves forward in
\* the store's array as well, and the store still has all or has lost the group.
RemoveGetUser(r) ==
    LET u == req[r].user
        g == req[r].group
    IN  /\ req[r].at = "removeGet"
        /\ \/ g \notin GroupsOf(u) /\ Return(r, "ok")
              /\ UNCHANGED users
           \/ /\ g \in GroupsOf(u)
              /\ TakeGroups(r, "removeWrite", users[u] \ {g})
              /\ \/ UNCHANGED users
                 \/ users[u] # {g} /\ PutUser(u, users[u] \ {g})
        /\ UNCHANGED <<usersFile, GroupStore, disturbed>>

\* Third call: userStore.Update with the shortened copy; no rollback.
RemoveWriteUser(r) ==
    LET u == req[r].user
    IN  /\ req[r].at = "removeWrite"
        /\ UNCHANGED GroupStore
        /\ \/ /\ users[u] = Absent
              /\ Return(r, "failed")
              /\ UNCHANGED <<UserStore, disturbed>>
           \/ /\ users[u] # Absent
              /\ PutUser(u, req[r].groups)
              /\ \E saved \in Saves :
                    /\ SaveUsers(saved)
                    /\ Return(r, IF saved THEN "ok" ELSE "failed")
                    /\ Disturb(r, u, saved)

\* UpdateUser, AuthenticateUser and AuthenticateExternalUser: a Get whose
\* copy, Groups included, is written back whole.  UpdateUser may replace the
\* Groups of the copy and never tells the group store.
GetUserForUpdate(r) ==
    LET u == req[r].user
    IN  /\ req[r].at = "new"
        /\ UNCHANGED Stores
        /\ \/ /\ "touchUser" \in Kinds \/ "setGroups" \in Kinds
              /\ users[u] = Absent
              /\ Return(r, "failed")
              /\ UNCHANGED disturbed
           \/ /\ "touchUser" \in Kinds
              /\ users[u] # Absent
              /\ TakeGroups(r, "userWrite", users[u])
              /\ Disturb(r, u, TRUE)
           \/ /\ "setGroups" \in Kinds
              /\ users[u] # Absent
              /\ \E gs \in SUBSET Groups :
                    TakeGroups(r, "userWrite", gs)
              /\ disturbed' = disturbed \cup {u}

WriteUser(r) ==
    LET u == req[r].user
    IN  /\ req[r].at = "userWrite"
        /\ UNCHANGED <<GroupStore, disturbed>>
        /\ \/ /\ users[u] = Absent
              /\ Return(r, "failed")
              /\ UNCHANGED UserStore
           \/ /\ users[u] # Absent
              /\ PutUser(u, req[r].groups)
              /\ \E saved \in Saves :
                    SaveUsers(saved) /\ Return(r, IF saved THEN "ok" ELSE "failed")

\* UpdateGroup: edits name, description or permissions of a copy and writes
\* the copy back whole, with the Members it had when it was read.
GetGroupForUpdate(r) ==
    LET g == req[r].group
    IN  /\ "updateGroup" \in Kinds
        /\ req[r].at = "new"
        /\ \/ groups[g] = Absent /\ Return(r, "failed")
           \/ /\ groups[g] # Absent
              /\ TakeMembers(r, "groupWrite", groups[g])
        /\ UNCHANGED <<Stores, disturbed>>

\* What the copy has become: who was edited may have been moved out of it or,
\* appended where a removal had made room, have got into it.
CopyNow(r) ==
    LET copy == req[r].members
    IN  {us \in SUBSET (copy \cup edited[r]) : copy \ edited[r] \subseteq us}

WriteGroup(r) ==
    LET g == req[r].group
    IN  /\ req[r].at = "groupWrite"
        /\ UNCHANGED UserStore
        /\ \/ /\ groups[g] = Absent
              /\ Return(r, "failed")
              /\ UNCHANGED <<GroupStore, disturbed>>
           \/ /\ groups[g] # Absent
              /\ \E us \in CopyNow(r) : PutGroup(g, us)
              /\ disturbed' = IF edited[r] = {} THEN disturbed
                              ELSE disturbed \cup groups[g] \cup req[r].members \cup edited[r]
              /\ \E saved \in Saves :
                    SaveGroups(saved) /\ Return(r, IF saved THEN "ok" ELSE "failed")

-----------------------------------------------------------------------------
(* Operations of one store call each.                                      *)

\* CreateUser, and the first login of an external user, with initial groups
\* that are not entered into the groups' Members.
CreateUser(u, gs) ==
    /\ "createUser" \in Kinds
    /\ users[u] = Absent
    /\ PutUser(u, gs)
    /\ \E saved \in Saves : SaveUsers(saved)
    /\ disturbed' = IF gs = {} /\ Idle(u) THEN disturbed ELSE disturbed \cup {u}
    /\ UNCHANGED <<GroupStore, req>>

\* DeleteUser leaves the user in the Members of its groups.
DeleteUser(u) ==
    /\ "deleteUser" \in Kinds
    /\ users[u] # Absent
    /\ PutUser(u, Absent)
    /\ \E saved \in Saves : SaveUsers(saved)
    /\ disturbed' = disturbed \cup {u}
    /\ UNCHANGED <<GroupStore, req>>

CreateGroup(g) ==
    /\ "createGroup" \in Kinds
    /\ groups[g] = Absent
    /\ PutGroup(g, {})
    /\ \E saved \in Saves : SaveGroups(saved)
    /\ UNCHANGED <<UserStore, req, disturbed>>

\* DeleteGroup leaves the group in the Groups of its members.
DeleteGroup(g) ==
    /\ "deleteGroup" \in Kinds
    /\ groups[g] # Absent
    /\ PutGroup(g, Absent)
    /\ \E saved \in Saves : SaveGroups(saved)
    /\ disturbed' = disturbed \cup groups[g] \cup {u \in Users : g \in GroupsOf(u)}
    /\ UNCHANGED <<UserStore, req>>

\* The process is killed and starts again from its files (loadFromFile): the
\* handlers in flight are gone, and so is what a failed save left in memory.  A
\* file that cannot be read, decrypted or parsed makes an empty store, with a
\* warning, and stays as it is until the store is saved.
Restart ==
    /\ "restart" \in Kinds
    /\ req' = [r \in Requests |->
                 IF req[r].at \in Waiting THEN req[r]
                 ELSE [req[r] EXCEPT !.at = "failed", !.groups = {}, !.members = {}]]
    /\ \E usersLoaded, groupsLoaded \in Loads :
          /\ users' = IF usersLoaded THEN usersFile ELSE [u \in Users |-> Absent]
          /\ groups' = IF groupsLoaded THEN groupsFile ELSE [g \in Groups |-> Absent]
          /\ disturbed' = IF usersLoaded /\ groupsLoaded
                          THEN disturbed \cup {u \in Users : ~Idle(u)} ELSE Users
    /\ UNCHANGED <<usersFile, groupsFile>>

Handler(r) ==
    \/ AddMember(r) \/ AddGetUser(r) \/ AddWriteUser(r) \/ AddRollback(r)
    \/ RemoveMember(r) \/ RemoveGetUser(r) \/ RemoveWriteUser(r)
    \/ GetUserForUpdate(r) \/ WriteUser(r)
    \/ GetGroupForUpdate(r) \/ WriteGroup(r)

Change ==
    \/ \E r \in Requests : Handler(r)
    \/ \E u \in Users, gs \in SUBSET Groups : CreateUser(u, gs)
    \/ \E u \in Users : DeleteUser(u)
    \/ \E g \in Groups : CreateGroup(g)
    \/ \E g \in Groups : DeleteGroup(g)

\* Requests that hold a copy of a group witness who enters or leaves it.
Watch ==
    edited' = [r \in Requests |->
                 IF req[r].at = "groupWrite" /\ req'[r].at = "groupWrite"
                 THEN edited[r] \cup {u \in Users : (u \in MembersOf(req[r].group)')
                                                    # (u \in MembersOf(req[r].group))}
                 ELSE {}]

Next == (Change \/ Restart) /\ Watch

Spec == Init /\ [][Next]_vars

-----------------------------------------------------------------------------
(* Properties.                                                             *)

\* When no request is working on a user, user.Groups and the groups' Members
\* agree about it (AddUserToGroup and RemoveUserFromGroup "update both"),
\* unless its requests overlapped, an operation that edits one side only
\* touched it, a save failed or the process died in the middle of a request.
AgreeAtRest ==
    \A u \in Users \ disturbed : Idle(u) => Agree(u)

\* What holds in the middle of a request on user u and group g.
HalfDone(r, u, g) ==
    /\ \A h \in Groups \ {g} : u \in MembersOf(h) <=> h \in GroupsOf(u)
    /\ req[r].at \in AddSteps => u \in MembersOf(g) /\ g \notin GroupsOf(u)
    /\ req[r].at \in RemoveSteps => u \notin MembersOf(g)
    /\ req[r].at = "removeGet" => g \in GroupsOf(u)
    /\ req[r].at = "addWrite" => req[r].groups = GroupsOf(u) \cup {g}
    /\ req[r].at = "removeWrite" => users[u] # Absent /\ req[r].groups = GroupsOf(u) \ {g}
    /\ req[r].at = "userWrite" => Agree(u) /\ req[r].groups = GroupsOf(u)

\* A request in flight has separated the two stores in its own group only,
\* and the copy it will write back is still current: no lost update.
OnlyOwnGroupDiffers ==
    \A r \in Requests, u \in Users \ disturbed :
        BusyOn(r, u) => HalfDone(r, u, req[r].group)

\* Groups that a request has taken out of a copy of user u, and so perhaps out of
\* the store, but not yet written back.
Leaving(u) == {req[r].group : r \in {q \in Requests : BusyOn(q, u) /\ req[q].at = "removeWrite"}}

\* A restart brings back what the memory says of an undisturbed user, also in
\* the middle of a request: a failed save of other users' changes does not
\* lose or revive this user's memberships ("Members" and "Groups" are saved by
\* every store call that changes them), but for the one that is being given up.
OnDisk(u) ==
    /\ \A g \in Groups \ Leaving(u) :
          g \in GroupsOf(u) <=> usersFile[u] # Absent /\ g \in usersFile[u]
    /\ \A g \in Groups :
          u \in MembersOf(g) <=> groupsFile[g] # Absent /\ u \in groupsFile[g]

RestartKeepsMemberships == \A u \in Users \ disturbed : OnDisk(u)

\* An answer tells the truth: success of AddUserToGroup means both stores
\* have the membership, its failure and success of RemoveUserFromGroup mean
\* that neither has it.
Finishes(r, steps, result) ==
    req[r].at \in steps /\ req'[r].at = result

AnswersAreTrue ==
    [][\A r \in Requests, u \in Users \ disturbed', g \in Groups :
         req[r].user = u /\ req[r].group = g =>
            /\ Finishes(r, AddSteps, "ok") =>
                  u \in MembersOf(g)' /\ g \in GroupsOf(u)'
            /\ Finishes(r, AddSteps, "failed") \/ Finishes(r, RemoveSteps, "ok") =>
                  u \notin MembersOf(g)' /\ g \notin GroupsOf(u)']_vars
=============================================================================
